------------------------------- MODULE MqBroker -------------------------------
(***************************************************************************)
(* Requests on their way through the message queue server.  The reader of  *)
(* a connection (shConsumer) hands each one to the queue of its topic,     *)
(* which it makes if it is the first; a queue (SQProducer) takes one       *)
(* request at a time and tries, until it succeeds, to write it to the      *)
(* subscriber of its topic.  MqRegistry says who that is, and how clients  *)
(* come and go; this module adds the requests to its goroutines, so that   *)
(* queues work only when there is something to write, and readers wait     *)
(* where a queue is full.                                                  *)
(*                                                                         *)
(* Responses go from a reader to the writer of the client with their       *)
(* harbor; as in MqRegistry a writer may have something to write at any    *)
(* time.  Registrations are for "*" and in time: what the others do to the *)
(* maps is the subject of MqRegistry.                                      *)
(***************************************************************************)
EXTENDS MqRegistry, Sequences

CONSTANTS CacheMax,    \* what the channel of a queue holds (1000)
          MaxMessages, \* BOUND on the requests each peer sends to a topic
          InstanceOf,  \* RegisteRequest.Instance of each client
          Early,       \* the topics of the clients that have registered at the start
          Leaves       \* BOUND: the peers that may break their connections or leave

ASSUME BrokerAssumption ==
    /\ CacheMax \in Nat \ {0} /\ MaxMessages \in [Clients -> Nat]
    /\ InstanceOf \in [Clients -> Instances]
    /\ DOMAIN Early \subseteq Clients /\ \A c \in DOMAIN Early : Early[c] \in Topics
    /\ \A c, d \in DOMAIN Early :
          c # d => Early[c] # Early[d] /\ InstanceOf[c] # InstanceOf[d]
    /\ Leaves \subseteq Clients /\ Nobody \notin Queues

VARIABLES
    topicTag,   \* server.topicTag: the queue of each topic, or Nobody
    dest,       \* where the message in the hands of a reader goes
    queue,      \* q of DoMqMsg: the queue it is about to be sent to, or Nobody
    cache,      \* the messages in the channel of each queue
    cur,        \* the message a queue is writing: a sequence of at most one
    sent,       \* history: number of requests each peer has sent to a topic
    written     \* history: number of these that queues have written

messages == <<topicTag, dest, queue, cache, cur, sent, written>>
bvars == <<vars, messages>>

\* What MqRegistry calls a step of one goroutine, its other variables as they are.
Moves(p, l) ==
    /\ Goto(p, l)
    /\ UNCHANGED <<state, conn, ident, maps, locks, client, told, asked, hist>>

(* Some clients have registered, as Register and OnMqRegister would have it;*)
(* the others have yet to be accepted.                                     *)
IsEarly(c) == c \in DOMAIN Early

BInit ==
    /\ state = [c \in Clients |-> IF IsEarly(c) THEN {"Start"} ELSE {}]
    /\ conn = [c \in Clients |-> IF IsEarly(c) THEN "up" ELSE "none"]
    /\ remote = [c \in Clients |-> IF IsEarly(c) THEN "registered" ELSE "dialled"]
    /\ harbor = [c \in Clients |-> IsEarly(c)]
    /\ instance = [c \in Clients |-> IF IsEarly(c) THEN InstanceOf[c] ELSE Nobody]
    /\ topic = [c \in Clients |-> IF IsEarly(c) THEN Early[c] ELSE Nobody]
    /\ harborClient = DOMAIN Early
    /\ topics = {Early[c] : c \in DOMAIN Early}
    /\ topicClients = [t \in Topics |-> {c \in DOMAIN Early : Early[c] = t}]
    /\ instanceClient \in [Instances -> DOMAIN Early \cup {Nobody}]
    /\ \A i \in Instances :
          IF instanceClient[i] = Nobody THEN \A c \in DOMAIN Early : InstanceOf[c] # i
                                        ELSE InstanceOf[instanceClient[i]] = i
    /\ clientLock = [c \in Clients |-> Nobody]
    /\ topicLock = [t \in Topics |-> Nobody]
    /\ client = [q \in Queues |-> Nobody]
    /\ pc = [p \in Procs |-> IF p[1] = "reader" THEN "read" ELSE "idle"]
    /\ told = [c \in Clients |-> {}]
    /\ asked = [c \in Clients |-> 0]
    /\ timedOut = [c \in Clients |-> FALSE]
    /\ dropped = [c \in Clients |-> FALSE]
    /\ topicTag = [t \in Topics |-> Nobody]
    /\ dest = [c \in Clients |-> Nobody]
    /\ queue = [c \in Clients |-> Nobody]
    /\ cache = [q \in Queues |-> <<>>]
    /\ cur = [q \in Queues |-> <<>>]
    /\ sent = [c \in Clients |-> [t \in Topics |-> 0]]
    /\ written = [c \in Clients |-> [t \in Topics |-> 0]]

-----------------------------------------------------------------------------
(* SHConsumer.DoMqMsg, a message for another topic than "Mq", from a client*)
(* that has a harbor.  A request: GetSQProducer loads the queue's entry,   *)
ReadRequest(c, t) ==
    /\ Reading(c) /\ remote[c] \in {"registered", "stopped"}
    /\ sent[c][t] < MaxMessages[c]
    /\ sent' = [sent EXCEPT ![c][t] = @ + 1]
    /\ dest' = [dest EXCEPT ![c] = t]
    /\ queue' = [queue EXCEPT ![c] = topicTag[t]]
    /\ Moves(Reader(c), IF topicTag[t] = Nobody THEN "create" ELSE "push")
    /\ UNCHANGED <<topicTag, cache, cur, written>>

\* A queue that is not the one that is entered for the topic.
NewSQProducer(t) == CHOOSE q \in Queues : TopicOf[q] = t /\ q # topicTag[t]

\* mutant: the new queue replaces one that was made meanwhile
StoreQueue(t) == NewSQProducer(t)
\* LoadOrStore: the queue that is entered for the topic, or a new one.
LoadOrStoreQueue(t) == IF topicTag[t] # Nobody THEN topicTag[t] ELSE NewSQProducer(t)

(* and makes one if there is none; one that was made for nothing is        *)
(* stopped before it had a message.                                        *)
GetSQProducer(c) ==
    LET q == LoadOrStoreQueue(dest[c]) IN
    /\ pc[Reader(c)] = "create"
    /\ topicTag' = [topicTag EXCEPT ![dest[c]] = q]
    /\ queue' = [queue EXCEPT ![c] = q]
    /\ Moves(Reader(c), "push")
    /\ UNCHANGED <<dest, cache, cur, sent, written>>

(* The message is sent to the queue, which blocks while its channel is     *)
(* full.                                                                   *)
PushRequest(c) ==
    LET q == queue[c] IN
    /\ pc[Reader(c)] = "push"
    /\ Len(cache[q]) < CacheMax
    /\ cache' = [cache EXCEPT ![q] = Append(@, <<c, sent[c][dest[c]]>>)]
    /\ queue' = [queue EXCEPT ![c] = Nobody]
    /\ Moves(Reader(c), "read")
    /\ UNCHANGED <<topicTag, dest, cur, sent, written>>

-----------------------------------------------------------------------------
(* OnWriteMqMsg of a queue begins,                                         *)
TakeMessage(q) ==
    /\ pc[Queue(q)] = "idle" /\ cur[q] = <<>> /\ cache[q] # <<>>
    /\ cur' = [cur EXCEPT ![q] = <<Head(cache[q])>>]
    /\ cache' = [cache EXCEPT ![q] = Tail(@)]
    /\ UNCHANGED <<vars, topicTag, dest, queue, sent, written>>

(* looks for the subscriber's connection as long as it takes,              *)
SeekConn(q) == cur[q] # <<>> /\ QueueStep(q) /\ UNCHANGED messages

\* OnWriteMqMsg tries again with the same message after Error.
Retry(q) == cur[q]

\* mutant: a message that was written is kept
KeepMessage(q) == cur[q]
\* OnWriteMqMsg returns.
AfterWrite(q) == <<>>

(* and ends with a write that succeeded.                                   *)
WriteRequest(q) ==
    LET m == cur[q][1] IN
    /\ Write(Queue(q))
    /\ cur' = [cur EXCEPT ![q] = AfterWrite(q)]
    /\ written' = [written EXCEPT ![m[1]][TopicOf[q]] = @ + 1]
    /\ UNCHANGED <<topicTag, dest, queue, cache, sent>>

WriteFails(q) ==
    /\ Error(Queue(q))
    /\ cur' = [cur EXCEPT ![q] = Retry(q)]
    /\ UNCHANGED <<topicTag, dest, queue, cache, sent, written>>

-----------------------------------------------------------------------------
ReaderStep(c) ==
    \/ (ReaderGetConn(c) \/ ReaderLeaves(c) \/ OnMqRegister(c) \/ Confirm(c))
          /\ UNCHANGED messages
    \/ GetSQProducer(c) \/ PushRequest(c)

WriterStep(c) == (WriterGetConn(c) \/ Write(Writer(c))) /\ UNCHANGED messages

PeerStep(c) ==
    \/ AddClient(c) /\ UNCHANGED messages
    \/ c \in Leaves /\ (Break(c) \/ StopSubscribe(c) \/ CloseRequest(c) \/ Refuse(c))
          /\ UNCHANGED messages
    \/ \E t \in Topics : Register(c, InstanceOf[c], t) /\ UNCHANGED messages
    \/ \E t \in {TopicOf[q] : q \in Queues} : ReadRequest(c, t)

Fails(p) == (Error(p) \/ CloseSelf(p)) /\ UNCHANGED messages

BQueueStep(q) ==
    \/ TakeMessage(q) \/ SeekConn(q) \/ WriteRequest(q) \/ WriteFails(q)
    \/ CloseSelf(Queue(q)) /\ UNCHANGED messages

BNext ==
    \/ \E c \in Clients :
          \/ PeerStep(c) \/ ReaderStep(c) \/ WriterStep(c)
          \/ Fails(Reader(c)) \/ Fails(Writer(c))
          \/ Close(c) /\ UNCHANGED messages
    \/ \E q \in Queues : BQueueStep(q)

BSpec == BInit /\ [][BNext]_bvars

(* As in MqRegistry, and senders to a full channel are served in turn.     *)
BFairness ==
    /\ \A c \in Clients :
          /\ SF_bvars(ReaderStep(c) \/ Fails(Reader(c)))
          /\ WF_bvars(WriterStep(c) \/ Fails(Writer(c)))
          /\ WF_bvars(Close(c) /\ UNCHANGED messages)
    /\ \A q \in Queues : SF_bvars(BQueueStep(q))

BFairSpec == BSpec /\ BFairness

-----------------------------------------------------------------------------
\* The requests for topic t that are with its queue, and the one that c has in hand.
InQueue(t) == IF topicTag[t] = Nobody THEN <<>> ELSE cur[topicTag[t]] \o cache[topicTag[t]]
Holds(c, t) == pc[Reader(c)] \in {"create", "push"} /\ dest[c] = t
InHand(c, t) == IF Holds(c, t) THEN <<<<c, sent[c][t]>>>> ELSE <<>>

(* The requests of one peer for one topic are written in the order in      *)
(* which it sent them, each of them once, none of them lost, whatever      *)
(* readers enter the topic's first message at once and whatever            *)
(* subscribers fail while they are written to: those on their way are the  *)
(* ones that have been sent and not been written, the oldest first.        *)
InOrder ==
    \A c \in Clients, t \in Topics :
       LET s == InQueue(t) \o InHand(c, t)
           Own == {i \in 1 .. Len(s) : s[i][1] = c}
       IN /\ written[c][t] <= sent[c][t]
          /\ {s[i][2] : i \in Own} = written[c][t] + 1 .. sent[c][t]
          /\ \A i, k \in Own : i < k => s[i][2] < s[k][2]

(* The maps, flags, locks and channels together do what MqDelivery says:   *)
(* what a queue is writing or has in its channel is the line of its topic, *)
(* and what a reader has in hand is the request taken from its client.     *)
(* Requests are given, each once and in order, to clients of their topic.  *)
Delivery == INSTANCE MqDelivery WITH
    hand <- [c \in Clients |-> IF pc[Reader(c)] \in {"create", "push"} THEN dest[c] ELSE Nobody],
    line <- [t \in Topics |-> InQueue(t)],
    Room <- CacheMax + 1

ImplementsDelivery == Delivery!Spec

\* d works, and the queue would find it if it looked.
Serves(d, t) ==
    /\ d \in topicClients[t] /\ "Start" \in state[d] /\ "StopSubscribe" \notin state[d]
    /\ conn[d] = "up"

\* The queue keeps to a client that failed somewhere else, or was closed without
\* OnMqStopSubscribe: GetConn neither returns its connection nor looks for
\* another client.
Faithful(q) ==
    /\ client[q] # Nobody /\ pc[Queue(q)] = "idle"
    /\ "Err" \in state[client[q]] \/ conn[client[q]] = "nil"
    /\ "StopSubscribe" \notin state[client[q]]

\* The reader waits for room in a channel.
Waiting(c) == pc[Reader(c)] = "push"

\* The queue wants the mutex of the subscriber that failed it, which Close
\* holds while it waits for the reader, and this waits for the queue.
PushCycle(q) ==
    LET c == client[q] IN
    /\ Failing(Queue(q)) /\ clientLock[c] = Closer(c) /\ pc[Closer(c)] = "waitReader"
    /\ Waiting(c) /\ queue[c] = q /\ Len(cache[q]) = CacheMax

\* A queue holds t.mutex and wants c.mutex; the goroutine that holds c.mutex,
\* in Error, wants t.mutex to delete the client from the topic.
LockCycle(t) ==
    /\ topicLock[t] # Nobody
    /\ \E c \in topicClients[t] :
          clientLock[c] # Nobody /\ pc[clientLock[c]] = "delTopic"

\* Close holds c.mutex and waits for a goroutine that wants it for Error.
CloseCycle(c) ==
    /\ clientLock[c] = Closer(c)
    /\ \/ pc[Closer(c)] = "waitReader" /\ Failing(Reader(c))
       \/ pc[Closer(c)] = "waitWriter" /\ Failing(Writer(c))

\* The queue of the topic has a message to write.
Pending(t) == topicTag[t] # Nobody /\ cur[topicTag[t]] # <<>>

\* What keeps a queue from a subscriber.
HeldBack(q) ==
    \/ Faithful(q) \/ PushCycle(q)
    \/ client[q] # Nobody /\ CloseCycle(client[q])

(* A lookup gives t.mutex back, so that registrations and deletions of the *)
(* topic go on, unless the opposite lock orders of Error and of the lookup *)
(* meet.                                                                   *)
LookupEnds ==
    \A t \in Topics : topicLock[t] # Nobody ~> topicLock[t] = Nobody \/ LockCycle(t)

(* A message is written once there is a subscriber that keeps working.     *)
(* There are three ways in which it is not: the queue is faithful to an    *)
(* earlier subscriber for good; it wants that one's mutex, which a stuck   *)
(* Close holds; or Close is stuck because of the queue itself, which is    *)
(* full.                                                                   *)
Delivered ==
    \A t \in Topics, d \in Clients :
       Pending(t) /\ Serves(d, t) ~> ~Pending(t) \/ ~Serves(d, t) \/ HeldBack(topicTag[t])

(* A Close that has begun ends and releases c.mutex, unless it deadlocks   *)
(* with its own reader or writer, or the reader waits for good for room in *)
(* a queue.                                                                *)
CloseEnds ==
    \A c \in Clients :
       pc[Closer(c)] = "closeConn"
         ~> pc[Closer(c)] = "idle" \/ CloseCycle(c) \/ []Waiting(c)
=============================================================================
