------------------------------ MODULE MqRegistry ------------------------------
(***************************************************************************)
(* Who is registered with the message queue server: the maps of            *)
(* mq/server/server.go and the life of a connection in mq/server/client.go.*)
(* Each accepted connection is a Client with two goroutines of its own,    *)
(* the reader (shConsumer) and the writer (shProducer); the server has one *)
(* goroutine per queue (SQProducer) that finds the subscriber of its topic *)
(* and writes to that client's connection; and every CloseSelf starts a    *)
(* goroutine that runs Close.  They meet in the maps, in c.mutex of a      *)
(* client, in t.mutex of a topic and in the flags of c.state.              *)
(*                                                                         *)
(* Subscriptions are for the tag "*": Subscribe writes the tags of any     *)
(* other subscription to tagMap, which is nil, and panics.  The waitClient *)
(* map is never read and is left out.  The messages a queue carries are    *)
(* the subject of other modules: here a queue always has one to write.     *)
(*                                                                         *)
(* The peers are clients of mq/client: such a peer registers once          *)
(* (Client.Start is called once, and there is no reconnection), and the    *)
(* server would take a second registration of the same connection.  What   *)
(* else a peer in Unruly may send, refused or not, comes at any time; the  *)
(* others register at once and for "*", and close after OnMqStopSubscribe, *)
(* as mq/client does.                                                      *)
(***************************************************************************)
EXTENDS Naturals, FiniteSets

CONSTANTS Clients,    \* the connections the server accepts
          Instances,  \* RegisteRequest.Instance
          Topics,     \* RegisteRequest.Topic
          Queues,     \* the queues (SQProducer) that exist
          TopicOf,    \* the topic of each queue
          Unruly,     \* BOUND: the peers that do not behave as mq/client does
          Nobody      \* no client, no goroutine

ASSUME RegistryAssumption ==
    /\ IsFiniteSet(Clients) /\ IsFiniteSet(Queues)
    /\ TopicOf \in [Queues -> Topics]
    /\ Nobody \notin Clients \cup Instances \cup Topics

VARIABLES
    state,           \* flags of c.state
    conn,            \* c.connI: "none" not accepted yet, "up", "broken", "nil"
    harbor,          \* c.harbor # 0; GetHarbor never repeats a number
    instance, topic, \* c.instance and c.topic, Nobody for ""
    instanceClient,  \* server.instanceClient
    harborClient,    \* server.harborClient: the clients found under their harbor
    topics,          \* the topics that server.topicClients has an entry for
    topicClients,    \* the clients in the TopicClients of each topic
    clientLock,      \* which goroutine holds c.mutex
    topicLock,       \* which goroutine holds t.mutex
    client,          \* q.client of a queue
    pc,              \* where each goroutine is
    told,            \* the goroutines of c that Stop was called for
    asked,           \* number of goroutines about to run c.Close
    remote,          \* how far the peer's own life has come
    timedOut,        \* the peer was refused before it registered
    dropped          \* history: CloseSelf was called since c registered

maps  == <<instanceClient, harborClient, topics, topicClients>>
locks == <<clientLock, topicLock>>
ident == <<harbor, instance, topic>>
hist  == <<remote, timedOut, dropped>>
vars == <<state, conn, ident, maps, locks, client, pc, told, asked, hist>>

Reader(c) == <<"reader", c>>
Writer(c) == <<"writer", c>>
Closer(c) == <<"closer", c>>
Queue(q)  == <<"queue", q>>
OfClients == {"reader", "writer"} \X Clients
Procs == OfClients \cup ({"closer"} \X Clients) \cup ({"queue"} \X Queues)

ASSUME NobodyAssumption == Nobody \notin Procs

\* The client a goroutine works for.
Target(p) == IF p[1] = "queue" THEN client[p[2]] ELSE p[2]

\* Where a goroutine goes on after Error or CloseSelf.
Resume(p) == IF p[1] = "reader" THEN "read" ELSE "idle"

\* A queue forgets its client after Error (qProducer.go).
ForgetAfter(p) ==
    client' = IF p[1] = "queue" THEN [client EXCEPT ![p[2]] = Nobody] ELSE client

Goto(p, l) == pc' = [pc EXCEPT ![p] = l]

Init ==
    /\ state = [c \in Clients |-> {}]
    /\ conn = [c \in Clients |-> "none"]
    /\ harbor = [c \in Clients |-> FALSE]
    /\ instance = [c \in Clients |-> Nobody]
    /\ topic = [c \in Clients |-> Nobody]
    /\ instanceClient = [i \in Instances |-> Nobody]
    /\ harborClient = {}
    /\ topics = {}
    /\ topicClients = [t \in Topics |-> {}]
    /\ clientLock = [c \in Clients |-> Nobody]
    /\ topicLock = [t \in Topics |-> Nobody]
    /\ client = [q \in Queues |-> Nobody]
    /\ pc = [p \in Procs |-> IF p[1] = "reader" THEN "read" ELSE "idle"]
    /\ told = [c \in Clients |-> {}]
    /\ asked = [c \in Clients |-> 0]
    /\ remote = [c \in Clients |-> "dialled"]
    /\ timedOut = [c \in Clients |-> FALSE]
    /\ dropped = [c \in Clients |-> FALSE]

(* AddClient on an accepted connection: NewClient and Start.               *)
AddClient(c) ==
    /\ conn[c] = "none"
    /\ conn' = [conn EXCEPT ![c] = "up"]
    /\ state' = [state EXCEPT ![c] = {"Start"}]
    /\ UNCHANGED <<ident, maps, locks, client, pc, told, asked, hist>>

(* The peer goes away: reads and writes on the connection fail from now on.*)
Break(c) ==
    /\ conn[c] = "up"
    /\ conn' = [conn EXCEPT ![c] = "broken"]
    /\ UNCHANGED <<state, ident, maps, locks, client, pc, told, asked, hist>>

-----------------------------------------------------------------------------
(* OnReadMqMsg: the loop of the reader.                                    *)
Usable(c) == "Start" \in state[c] /\ conn[c] \in {"up", "broken"}

ReaderGetConn(c) ==
    /\ pc[Reader(c)] = "read" /\ "reader" \notin told[c] /\ Usable(c)
    /\ Goto(Reader(c), "reading")
    /\ UNCHANGED <<state, conn, ident, maps, locks, client, told, asked, hist>>

\* mutant: IsStop is looked at only with a connection
MayLeaveWithConn(c) == "reader" \in told[c] /\ Usable(c)
\* The reader looks at IsStop before it looks for a connection.
MayLeave(c) == "reader" \in told[c]

ReaderLeaves(c) ==
    /\ pc[Reader(c)] \in {"read", "panicked"} /\ MayLeave(c)
    /\ Goto(Reader(c), "gone")
    /\ UNCHANGED <<state, conn, ident, maps, locks, client, told, asked, hist>>

Reading(c) == pc[Reader(c)] = "reading" /\ conn[c] = "up"

(* DoMqMsg for a client without a harbor when three seconds pass without a *)
(* message, or when the message is no registration the server can accept,  *)
(* OnMqClose among them.  BOUND: once per client.                          *)
RefuseUnregistered(c) ==
    /\ c \in Unruly /\ Reading(c) /\ ~harbor[c] /\ ~timedOut[c]
    /\ timedOut' = [timedOut EXCEPT ![c] = TRUE]
    /\ Goto(Reader(c), "unregister")
    /\ UNCHANGED <<state, conn, ident, maps, locks, client, told, asked, remote, dropped>>

StateKept(s) == s     \* mutant: the SetState before OnMqRegister is missing
\* The flags of a client while OnMqRegister runs: SetState replaces them all.
StateWhileRegistering(s) == {"Stop"}

(* RegisterMqMsg, OnMqRegister, up to the call of server.OnMqRegister; the *)
(* peer registers once (mq/client never reconnects).                       *)
Register(c, i, t) ==
    /\ Reading(c) /\ remote[c] = "dialled"
    /\ remote' = [remote EXCEPT ![c] = "registering"]
    /\ dropped' = [dropped EXCEPT ![c] = FALSE]
    /\ instance' = [instance EXCEPT ![c] = i]
    /\ harbor' = [harbor EXCEPT ![c] = TRUE]
    /\ topic' = [topic EXCEPT ![c] = t]
    /\ state' = [state EXCEPT ![c] = StateWhileRegistering(@)]
    /\ Goto(Reader(c), "claim")
    /\ UNCHANGED <<conn, maps, locks, client, told, asked, timedOut>>

(* The same for any tag but "*": Subscribe panics once it has set topic;   *)
(* the runtime recovers, and OnReadMqMsg is over for this reader.          *)
RegisterTags(c, i, t) ==
    /\ c \in Unruly /\ Reading(c) /\ remote[c] = "dialled"
    /\ remote' = [remote EXCEPT ![c] = "registering"]
    /\ instance' = [instance EXCEPT ![c] = i]
    /\ harbor' = [harbor EXCEPT ![c] = TRUE]
    /\ topic' = [topic EXCEPT ![c] = t]
    /\ Goto(Reader(c), "panicked")
    /\ UNCHANGED <<state, conn, maps, locks, client, told, asked, timedOut, dropped>>

(* Server.OnMqRegister: LoadOrStore of the instance and Store of the       *)
(* harbor,                                                                 *)
ClaimInstance(c) ==
    /\ pc[Reader(c)] = "claim"
    /\ \/ /\ instanceClient[instance[c]] = Nobody
          /\ instanceClient' = [instanceClient EXCEPT ![instance[c]] = c]
          /\ harborClient' = harborClient \cup {c}
          /\ Goto(Reader(c), "load")
          /\ UNCHANGED dropped
       \/ /\ instanceClient[instance[c]] # Nobody
          /\ dropped' = [dropped EXCEPT ![c] = TRUE]
          /\ Goto(Reader(c), "unregister")
          /\ UNCHANGED <<instanceClient, harborClient>>
    /\ UNCHANGED <<state, conn, ident, topics, topicClients, locks,
                   client, told, asked, remote, timedOut>>

(* then the TopicClients of the topic are loaded,                          *)
LoadTopic(c) ==
    /\ pc[Reader(c)] = "load"
    /\ Goto(Reader(c), IF topic[c] \in topics THEN "topic" ELSE "enter")
    /\ UNCHANGED <<state, conn, ident, maps, locks, client, told, asked, hist>>

Store(t) == {}     \* mutant: the new entry replaces one made meanwhile
\* LoadOrStore: the clients of the topic's entry, which may have been made
\* meanwhile, or those of a new one.
LoadOrStore(t) == IF t \in topics THEN topicClients[t] ELSE {}

(* or entered; an entry stays for good, so that this one is in hand,       *)
EnterTopic(c) ==
    /\ pc[Reader(c)] = "enter"
    /\ topics' = topics \cup {topic[c]}
    /\ topicClients' = [topicClients EXCEPT ![topic[c]] = LoadOrStore(topic[c])]
    /\ Goto(Reader(c), "topic")
    /\ UNCHANGED <<state, conn, ident, instanceClient, harborClient, locks,
                   client, told, asked, hist>>

\* TopicClients.IsOk for a subscription to "*".
IsOk(t) == topicClients[t] = {}

(* and IsOk adds the client to them, all under t.mutex.                    *)
JoinTopic(c) ==
    /\ pc[Reader(c)] = "topic" /\ topicLock[topic[c]] = Nobody
    /\ \/ /\ IsOk(topic[c])
          /\ topicClients' = [topicClients EXCEPT ![topic[c]] = @ \cup {c}]
          /\ Goto(Reader(c), "reply")
          /\ UNCHANGED dropped
       \/ /\ ~IsOk(topic[c])
          /\ dropped' = [dropped EXCEPT ![c] = TRUE]
          /\ Goto(Reader(c), "unregister")
          /\ UNCHANGED topicClients
    /\ UNCHANGED <<state, conn, ident, instanceClient, harborClient, topics, locks,
                   client, told, asked, remote, timedOut>>

(* The reply is queued for the writer and SetState lets it out.            *)
ReplyAndStart(c) ==
    /\ pc[Reader(c)] = "reply"
    /\ state' = [state EXCEPT ![c] = {"Start"}]
    /\ remote' = [remote EXCEPT ![c] = "registered"]
    /\ Goto(Reader(c), "read")
    /\ UNCHANGED <<conn, ident, maps, locks, client, told, asked, timedOut, dropped>>

(* RegisterMqMsg, OnMqStopSubscribe and OnMqClose, each with its reply.    *)
StopSubscribe(c) ==
    /\ Reading(c) /\ remote[c] = "registered"
    /\ remote' = [remote EXCEPT ![c] = "stopped"]
    /\ state' = [state EXCEPT ![c] = @ \cup {"StopSubscribe"}]
    /\ Goto(Reader(c), "confirm")
    /\ UNCHANGED <<conn, ident, maps, locks, client, told, asked, timedOut, dropped>>

CloseRequest(c) ==
    /\ Reading(c)
    /\ remote[c] = "stopped" \/ (remote[c] = "registered" /\ c \in Unruly)
    /\ remote' = [remote EXCEPT ![c] = "closing"]
    /\ Goto(Reader(c), "confirm")
    /\ UNCHANGED <<state, conn, ident, maps, locks, client, told, asked, timedOut, dropped>>

(* A message for "Mq" that the server cannot accept from a registered      *)
(* client either, without a reply: another tag than "*", for example.      *)
Refuse(c) ==
    /\ c \in Unruly /\ Reading(c) /\ remote[c] \in {"registered", "stopped"}
    /\ remote' = [remote EXCEPT ![c] = "closing"]
    /\ dropped' = [dropped EXCEPT ![c] = TRUE]
    /\ Goto(Reader(c), "unregister")
    /\ UNCHANGED <<state, conn, ident, maps, locks, client, told, asked, timedOut>>

Confirm(c) ==
    /\ pc[Reader(c)] = "confirm"
    /\ dropped' = [dropped EXCEPT ![c] = @ \/ remote[c] = "closing"]
    /\ Goto(Reader(c), IF remote[c] = "closing" THEN "unregister" ELSE "read")
    /\ UNCHANGED <<state, conn, ident, maps, locks, client, told, asked, remote, timedOut>>

-----------------------------------------------------------------------------
(* OnWriteMqMsg of the writer: replies and the responses that other        *)
(* readers route to it through harborClient.                               *)
WriterGetConn(c) ==
    /\ pc[Writer(c)] = "idle" /\ harbor[c] /\ "writer" \notin told[c] /\ Usable(c)
    /\ Goto(Writer(c), "writing")
    /\ UNCHANGED <<state, conn, ident, maps, locks, client, told, asked, hist>>

LookupKeeps(q) == Queue(q)     \* mutant: a lookup forgets to unlock
\* The deferred Unlock of TopicClients.GetClient.
AfterLookup(q) == Nobody

(* SQProducer.GetConn: the queue looks up its client under t.mutex, asking *)
(* each client of the topic under its c.mutex,                             *)
LookupTopic(q) ==
    /\ pc[Queue(q)] = "idle" /\ client[q] = Nobody
    /\ topicLock[TopicOf[q]] = Nobody
    /\ topicClients[TopicOf[q]] # {}
    /\ topicLock' = [topicLock EXCEPT ![TopicOf[q]] = Queue(q)]
    /\ Goto(Queue(q), "asking")
    /\ UNCHANGED <<state, conn, ident, maps, clientLock, client, told, asked, hist>>

AskClient(q, c) ==
    /\ pc[Queue(q)] = "asking"
    /\ c \in topicClients[TopicOf[q]] /\ clientLock[c] = Nobody
    /\ client' = [client EXCEPT ![q] = c]
    /\ topicLock' = [topicLock EXCEPT ![TopicOf[q]] = AfterLookup(q)]
    /\ Goto(Queue(q), "idle")
    /\ UNCHANGED <<state, conn, ident, maps, clientLock, told, asked, hist>>

\* mutant: GetConn tests Start before StopSubscribe
StoppedUnlessStarted(c) == "StopSubscribe" \in state[c] /\ "Start" \notin state[c]
Stopped(c) == "StopSubscribe" \in state[c]

(* and looks at the client's flags, every time it has a message.           *)
QueueGetConn(q) ==
    LET c == client[q] IN
    /\ pc[Queue(q)] = "idle" /\ c # Nobody
    /\ IF Stopped(c)
       THEN client' = [client EXCEPT ![q] = Nobody] /\ Goto(Queue(q), "idle")
       ELSE Goto(Queue(q), IF Usable(c) THEN "writing" ELSE "idle") /\ UNCHANGED client
    /\ UNCHANGED <<state, conn, ident, maps, locks, told, asked, hist>>

(* WriteMqMsg succeeds on the connection GetConn returned.                 *)
Write(p) ==
    /\ pc[p] = "writing" /\ conn[Target(p)] = "up"
    /\ Goto(p, "idle")
    /\ UNCHANGED <<state, conn, ident, maps, locks, client, told, asked, hist>>

-----------------------------------------------------------------------------
\* mutant: a client that is being closed is not left alone
OnlyErrLooked(c) == "Err" \notin state[c]
\* mq.Client.IsError: no failure of a client that closes or failed before;
\* its connection is never replaced by another.
MayFail(c) == state[c] \cap {"Stopping", "Stop", "Err"} = {}
IsError(c) == MayFail(c) /\ conn[c] # "nil"

\* The read or write that the goroutine is in fails: it is about to call Error.
Failing(p) == pc[p] \in {"reading", "writing"} /\ conn[Target(p)] # "up"

(* Client.Error: CloseSelf is called with c.mutex held.                    *)
Error(p) ==
    LET c == Target(p) IN
    /\ Failing(p) /\ clientLock[c] = Nobody
    /\ \/ /\ IsError(c)
          /\ state' = [state EXCEPT ![c] = (@ \ {"Start"}) \cup {"Err"}]
          /\ dropped' = [dropped EXCEPT ![c] = TRUE]
          /\ clientLock' = [clientLock EXCEPT ![c] = p]
          /\ Goto(p, "unregister")
          /\ UNCHANGED client
       \/ /\ ~IsError(c)
          /\ Goto(p, Resume(p)) /\ ForgetAfter(p)
          /\ UNCHANGED <<state, dropped, clientLock>>
    /\ UNCHANGED <<conn, ident, maps, topicLock, told, asked, remote, timedOut>>

(* CloseSelf: OnMqDel deletes the client from the three maps,              *)
Unregister(p) ==
    LET c == Target(p) IN
    /\ pc[p] = "unregister"
    /\ instanceClient' =
         [i \in Instances |-> IF i = instance[c] THEN Nobody ELSE instanceClient[i]]
    /\ harborClient' = harborClient \ {c}
    /\ Goto(p, "delTopic")
    /\ UNCHANGED <<state, conn, ident, topics, topicClients, locks, client, told, asked, hist>>

DelTopicClients(cs, c) == {}     \* mutant: the whole topic is deleted
DelNobody(cs, c) == cs     \* mutant: the topic is forgotten
\* TopicClients.Del
Del(cs, c) == cs \ {c}

(* the last of them under t.mutex; then it sleeps a second, starts Close   *)
(* in a goroutine of its own, and Error releases c.mutex.                  *)
DelTopic(p) ==
    LET c == Target(p)  t == topic[c] IN
    /\ pc[p] = "delTopic"
    /\ t # Nobody => topicLock[t] = Nobody
    /\ topicClients' =
         [u \in Topics |-> IF u = t THEN Del(topicClients[u], c) ELSE topicClients[u]]
    /\ asked' = [asked EXCEPT ![c] = @ + 1]
    /\ clientLock' = [clientLock EXCEPT ![c] = IF @ = p THEN Nobody ELSE @]
    /\ Goto(p, Resume(p)) /\ ForgetAfter(p)
    /\ UNCHANGED <<state, conn, ident, instanceClient, harborClient, topics, topicLock,
                   told, hist>>

-----------------------------------------------------------------------------
\* A goroutine that CloseSelf has started.
Asked(c) == asked[c] > 0

\* The deferred Unlock at the early return of Close.
OnReturn(p) == Nobody

(* Client.Close, all of it with c.mutex held.                              *)
CloseBegin(c) ==
    /\ pc[Closer(c)] = "idle" /\ Asked(c) /\ clientLock[c] = Nobody
    /\ asked' = [asked EXCEPT ![c] = @ - 1]
    /\ \/ /\ state[c] \cap {"Stopping", "Stop"} = {}
          /\ state' = [state EXCEPT ![c] = @ \cup {"Stopping"}]
          /\ clientLock' = [clientLock EXCEPT ![c] = Closer(c)]
          /\ Goto(Closer(c), "closeConn")
       \/ /\ state[c] \cap {"Stopping", "Stop"} # {}
          /\ clientLock' = [clientLock EXCEPT ![c] = OnReturn(Closer(c))]
          /\ UNCHANGED <<state, pc>>
    /\ UNCHANGED <<conn, ident, maps, topicLock, client, told, hist>>

CloseConn(c) ==
    /\ pc[Closer(c)] = "closeConn"
    /\ conn' = [conn EXCEPT ![c] = "nil"]
    /\ told' = [told EXCEPT ![c] = {"reader"}]
    /\ Goto(Closer(c), "waitReader")
    /\ UNCHANGED <<state, ident, maps, locks, client, asked, hist>>

(* shConsumer.Stop returns when the reader has left, and shProducer is told*)
(* to stop.                                                                *)
CloseStopsWriter(c) ==
    /\ pc[Closer(c)] = "waitReader" /\ pc[Reader(c)] = "gone"
    /\ told' = [told EXCEPT ![c] = @ \cup {"writer"}]
    /\ Goto(Closer(c), "waitWriter")
    /\ UNCHANGED <<state, conn, ident, maps, locks, client, asked, hist>>

CloseEnd(c) ==
    /\ pc[Closer(c)] = "waitWriter" /\ pc[Writer(c)] = "idle"
    /\ state' = [state EXCEPT ![c] = @ \cup {"Stop"}]
    /\ clientLock' = [clientLock EXCEPT ![c] = Nobody]
    /\ Goto(Closer(c), "idle")
    /\ UNCHANGED <<conn, ident, maps, topicLock, client, told, asked, hist>>

-----------------------------------------------------------------------------
CloseSelf(p) == Unregister(p) \/ DelTopic(p)

Handle(c) ==
    \/ RefuseUnregistered(c)
    \/ \E i \in Instances, t \in Topics : Register(c, i, t) \/ RegisterTags(c, i, t)
    \/ StopSubscribe(c)
    \/ Confirm(c)
    \/ CloseRequest(c)
    \/ Refuse(c)

OnMqRegister(c) ==
    ClaimInstance(c) \/ LoadTopic(c) \/ EnterTopic(c) \/ JoinTopic(c) \/ ReplyAndStart(c)

Close(c) ==
    CloseBegin(c) \/ CloseConn(c) \/ CloseStopsWriter(c) \/ CloseEnd(c)

QueueStep(q) ==
    LookupTopic(q) \/ (\E c \in Clients : AskClient(q, c)) \/ QueueGetConn(q)

Next ==
    \/ \E c \in Clients :
          \/ AddClient(c) \/ Break(c)
          \/ ReaderGetConn(c) \/ ReaderLeaves(c)
          \/ Handle(c) \/ OnMqRegister(c) \/ WriterGetConn(c) \/ Close(c)
    \/ \E q \in Queues : QueueStep(q)
    \/ \E p \in Procs : Write(p) \/ Error(p) \/ CloseSelf(p)

Spec == Init /\ [][Next]_vars

-----------------------------------------------------------------------------
Flags == {"Start", "Err", "StopSubscribe", "Stopping", "Stop"}

\* At "create" and "push" a reader has a request in hand: MqBroker.
Labels == {"idle", "read", "reading", "gone", "panicked", "claim", "load", "enter", "topic", "reply",
           "confirm", "asking", "writing", "unregister", "delTopic",
           "closeConn", "waitReader", "waitWriter", "create", "push"}

TypeOK ==
    /\ state \in [Clients -> SUBSET Flags]
    /\ conn \in [Clients -> {"none", "up", "broken", "nil"}]
    /\ harbor \in [Clients -> BOOLEAN]
    /\ instance \in [Clients -> Instances \cup {Nobody}]
    /\ topic \in [Clients -> Topics \cup {Nobody}]
    /\ instanceClient \in [Instances -> Clients \cup {Nobody}]
    /\ harborClient \subseteq Clients
    /\ topics \subseteq Topics
    /\ topicClients \in [Topics -> SUBSET Clients]
    /\ clientLock \in [Clients -> Procs \cup {Nobody}]
    /\ topicLock \in [Topics -> Procs \cup {Nobody}]
    /\ client \in [Queues -> Clients \cup {Nobody}]
    /\ pc \in [Procs -> Labels]
    /\ told \in [Clients -> SUBSET {"reader", "writer"}]
    /\ asked \in [Clients -> Nat]
    /\ remote \in [Clients -> {"dialled", "registering", "registered",
                               "stopped", "closing"}]
    /\ timedOut \in [Clients -> BOOLEAN]
    /\ dropped \in [Clients -> BOOLEAN]

\* Registered and started, and nobody has begun to close it.
Served(c) ==
    remote[c] \in {"registered", "stopped"} /\ "Start" \in state[c] /\ ~dropped[c]

(* Two clients are never served for the whole of one topic at a time       *)
(* (IsOk: "tag exist"), also when both of them find that the topic has no  *)
(* entry yet and make one, and while others fail and are deleted.          *)
OneSubscriber ==
    \A c, d \in Clients : c # d /\ Served(c) /\ Served(d) => topic[c] # topic[d]

(* IsError takes the Pointer of c.connI, which panics for nil: whenever    *)
(* Client.Error gets past the flags, the connection is there.  SetState at *)
(* the end of a registration may wipe out the Stopping that Close has set; *)
(* c.mutex, held until the reader has left, and the Stop set after that    *)
(* keep failures off a connection that was taken away.                     *)
ErrorHasConn ==
    \A p \in Procs :
       Failing(p) /\ clientLock[Target(p)] = Nobody /\ MayFail(Target(p))
         => conn[Target(p)] # "nil"

(* A client whose connection failed never starts again: no SetState of its *)
(* registration comes after the Err that IsError has set.                  *)
FailedForGood ==
    [][\A c \in Clients : "Err" \in state[c] => "Err" \in state'[c] /\ "Start" \notin state'[c]]_vars

(* A started, registered client that nobody has begun to close is found    *)
(* under its harbor and in its topic: the deletion of one client, or the   *)
(* registration of another that is refused, does not unsubscribe it.       *)
Routed ==
    \A c \in Clients :
       Served(c) => c \in harborClient /\ c \in topicClients[topic[c]]

(* Once Close has taken the connection away, the client is in none of the  *)
(* maps, so that nothing is routed to it any more.  The exception is a     *)
(* client refused for its silence that registers after all, before Close   *)
(* runs: it stays in the maps for good.                                    *)
GoneFromMaps ==
    \A c \in Clients :
       conn[c] = "nil" /\ ~timedOut[c]
         => /\ c \notin harborClient
            /\ \A t \in Topics : c \notin topicClients[t]
            /\ \A i \in Instances : instanceClient[i] # c

(* mqMsg.proto: "harbor <globally unique id> <corresponds to instance>":   *)
(* two connections served at the same time never have the same instance.   *)
HarborOfOneInstance ==
    \A c, d \in Clients :
       /\ c # d /\ instance[c] = instance[d]
       /\ {c, d} \subseteq harborClient
       /\ \A e \in {c, d} : remote[e] = "registered" /\ state[e] = {"Start"} /\ ~dropped[e]
       => FALSE
=============================================================================
