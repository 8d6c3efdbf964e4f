------------------------------- MODULE MqClient -------------------------------
(***************************************************************************)
(* The client library of the message queue: mq/client/client.go with the   *)
(* reader and the writer of its connection (hConsumer.go, hProducer.go,    *)
(* mq/consumer.go, mq/producer.go).                                        *)
(*                                                                         *)
(* A Call puts an entry in pendingMap, hands its message to the writer and *)
(* waits for the reader to bring the reply.  Start, MqStopSubscribe and    *)
(* MqClose are Calls themselves, to the broker.  Close may be called by    *)
(* the application and is called in a goroutine of its own when the reader *)
(* or the writer finds the connection broken.  A client has one connection *)
(* in its life: a TCP connection, or a pair of channels to a broker in the *)
(* same process ("local").                                                 *)
(*                                                                         *)
(* The writer and the reader are rpc servers (RpcServer), of which this    *)
(* module uses what RpcMailbox promises.  The broker is the environment:   *)
(* it answers the three requests of the protocol as mq/server does, or     *)
(* refuses the first of them without an answer, forwards Calls to peers    *)
(* that answer in any order or not at all, sends their requests, and       *)
(* closes the connection after OnMqClose.  No broker in this repository    *)
(* sends OnMqClosing.                                                      *)
(***************************************************************************)
EXTENDS Naturals, Sequences, FiniteSets

CONSTANTS Calls,     \* the Calls of the application
          Requests,  \* the requests peers send to this client
          Users,     \* the goroutines of the application that call Close
          LocalUsers, \* BOUND: those that do so with a local connection
          Kinds,     \* "tcp", "local"
          None

OnMqRegister == "OnMqRegister"
OnMqStopSubscribe == "OnMqStopSubscribe"
OnMqClose == "OnMqClose"
Jobs == Calls \cup {OnMqRegister, OnMqStopSubscribe, OnMqClose}
Procs == {"reader", "writer"}
Closers == Users \cup Procs
Seqs == 1 .. Cardinality(Jobs)

ASSUME ClientAssumption ==
    /\ IsFiniteSet(Calls) /\ IsFiniteSet(Requests)
    /\ Kinds \subseteq {"tcp", "local"}
    /\ Calls \cap {OnMqRegister, OnMqStopSubscribe, OnMqClose} = {}
    /\ Jobs \cap Requests = {} /\ Users \cap Procs = {}
    /\ None \notin Jobs \cup Requests \cup Closers

VARIABLES
    kind,       \* of the connection
    flags,      \* c.state
    conn,       \* c.connI is not nil
    transport,  \* "open", "closed" by the broker, "broken"
    pendingSeq, pendingMap,   \* the counter, and the entries by number
    call,       \* how far the Call of a job has come
    seq,        \* p.pendingSeq of a job
    answer,     \* whose reply p.pending got
    cache,      \* messages handed to the writer
    producer,   \* state of the writer's rpc server
    consumer,   \* state of the reader's rpc server
    pc,         \* where the reader and the writer are
    cur,        \* what the writer writes
    out, in,    \* messages on the way to the broker and to the client
    broker,     \* "new"; after OnMqRegister "open" or "refused"; "closing" after OnMqClose
    owed,       \* the jobs that were read by the broker and not answered
    asked,      \* how far the requests of peers have come: "over" is answered or dropped
    closer,     \* where the goroutines in Close are
    mutex,      \* the one that holds c.mutex
    mqClose,    \* where the goroutine is that Timer started for MqClose
    timedOut    \* history: Timer gave up waiting

calls == <<pendingSeq, pendingMap, call, seq, answer>>
writer == <<cache, producer, cur>>
wire == <<transport, out, in, broker, owed>>
ends == <<closer, mutex, mqClose, timedOut>>
vars == <<kind, flags, conn, calls, writer, consumer, pc, wire, asked, ends>>

Init ==
    /\ kind \in Kinds
    /\ flags = {} /\ conn = TRUE /\ transport = "open"
    /\ pendingSeq = 0 /\ pendingMap = [n \in Seqs |-> None]
    /\ call = [j \in Jobs |-> "none"] /\ seq = [j \in Jobs |-> 0]
    /\ answer = [j \in Jobs |-> None]
    /\ cache = <<>> /\ producer = "start" /\ consumer = "start"
    /\ pc = [p \in Procs |-> IF p = "reader" THEN "loop" ELSE "idle"] /\ cur = None
    /\ out = <<>> /\ in = <<>> /\ broker = "new" /\ owed = {}
    /\ asked = [r \in Requests |-> "none"]
    /\ closer = [k \in Closers |-> "none"] /\ mutex = None
    /\ mqClose = "none" /\ timedOut = FALSE

Goto(p, l) == pc' = [pc EXCEPT ![p] = l]

-----------------------------------------------------------------------------
(* Call.                                                                   *)
\* mutant: the counter stays at the first number
SameSeq == 1
NextSeq == pendingSeq + 1

\* The first half of Call: a number, and an entry in pendingMap.
Begin(j) ==
    /\ call[j] = "none"
    /\ call' = [call EXCEPT ![j] = "stored"]
    /\ pendingSeq' = NextSeq
    /\ seq' = [seq EXCEPT ![j] = NextSeq]
    /\ pendingMap' = [pendingMap EXCEPT ![NextSeq] = j]
    /\ UNCHANGED answer

(* RpcCall_OnWriteMqMsg: the message joins the cache of the writer.        *)
Queue(j) ==
    /\ call[j] = "stored"
    /\ call' = [call EXCEPT ![j] = "queued"]
    /\ cache' = Append(cache, j)
    /\ UNCHANGED <<kind, flags, conn, pendingSeq, pendingMap, seq, answer, producer, cur,
                   consumer, pc, wire, asked, ends>>

(* The reply is in p.pending.                                              *)
Return(j) ==
    /\ call[j] = "waiting" /\ answer[j] # None
    /\ call' = [call EXCEPT ![j] = "done"]
    /\ UNCHANGED <<kind, flags, conn, pendingSeq, pendingMap, seq, answer, writer,
                   consumer, pc, wire, asked, ends>>

Returned(j) == call[j] = "done"

(* Start: the flag lets the reader and the writer use the connection.      *)
Start ==
    /\ flags = {} /\ Begin(OnMqRegister)
    /\ flags' = {"Start"}
    /\ UNCHANGED <<kind, conn, writer, consumer, pc, wire, asked, ends>>

(* The application calls once Start has returned.                          *)
CallBegin(c) ==
    /\ call[OnMqRegister] = "done" /\ Begin(c)
    /\ UNCHANGED <<kind, flags, conn, writer, consumer, pc, wire, asked, ends>>

-----------------------------------------------------------------------------
(* The writer: OnWriteMqMsg for one message of the cache after the other.  *)
GetConn == "Start" \in flags /\ conn

WriterTakes ==
    /\ pc["writer"] = "idle" /\ producer # "stop" /\ cache # <<>>
    /\ cur' = Head(cache) /\ cache' = Tail(cache)
    /\ Goto("writer", "loop")
    /\ UNCHANGED <<kind, flags, conn, calls, producer, consumer, wire, asked, ends>>

\* OnWriteMqMsg is over, or has panicked, which its caller is not told
\* (rpcU leaves msg.Err as it is): a Call goes on to wait for its reply.  With a
\* Msg that never had a Reply the caller of rpcU would panic and end the program
\* (RpcCall, "crashed"), after which there is nothing to model here.
Handled ==
    /\ Goto("writer", "idle") /\ cur' = None
    /\ call' = IF cur \in Jobs THEN [call EXCEPT ![cur] = "waiting"] ELSE call
    /\ UNCHANGED <<pendingSeq, pendingMap, seq, answer, cache, producer>>

\* A writer that is being stopped drops the message and reports no error.
WriterDrops ==
    /\ pc["writer"] = "loop" /\ producer # "start"
    /\ Handled
    /\ UNCHANGED <<kind, flags, conn, consumer, wire, asked, ends>>

WriterGetConn ==
    /\ pc["writer"] = "loop" /\ producer = "start" /\ GetConn
    /\ Goto("writer", "write")
    /\ UNCHANGED <<kind, flags, conn, calls, writer, consumer, wire, asked, ends>>

\* What the broker no longer reads is lost without an error.
Write ==
    /\ pc["writer"] = "write" /\ conn /\ transport # "broken"
    /\ out' = IF transport = "open" THEN Append(out, cur) ELSE out
    /\ Handled
    /\ UNCHANGED <<kind, flags, conn, consumer, transport, in, broker, owed, asked, ends>>

WriteFails ==
    /\ pc["writer"] = "write"
    /\ \/ ~conn \/ transport = "broken"
       \/ kind = "tcp" /\ transport = "closed"
    /\ Goto("writer", "error")
    /\ UNCHANGED <<kind, flags, conn, calls, writer, consumer, wire, asked, ends>>

-----------------------------------------------------------------------------
(* The reader: OnReadMqMsg.                                                *)
ReaderGetConn ==
    /\ pc["reader"] = "loop" /\ consumer = "start" /\ GetConn
    /\ Goto("reader", "read")
    /\ UNCHANGED <<kind, flags, conn, calls, writer, consumer, wire, asked, ends>>

\* mutant: IsStop is looked at only with a connection
LeavesWithConn == consumer # "start" /\ GetConn
MayLeave == consumer # "start"

ReaderLeaves ==
    /\ pc["reader"] = "loop" /\ MayLeave
    /\ Goto("reader", "gone")
    /\ UNCHANGED <<kind, flags, conn, calls, writer, consumer, wire, asked, ends>>

\* mutant: the entry stays
LoadPendingMsg(n) == pendingMap' = pendingMap
\* The entry of a reply is taken out of pendingMap.
GetPendingMsg(n) == pendingMap' = [pendingMap EXCEPT ![n] = None]

\* DoMqMsg for a reply: it goes to the Call that waits under its number.
ReadReply ==
    LET m == Head(in)  j == pendingMap[m.seq]
    IN /\ m.seq # 0
       /\ IF j = None THEN UNCHANGED <<pendingMap, answer>>
          ELSE GetPendingMsg(m.seq) /\ answer' = [answer EXCEPT ![j] = m.of]
       /\ UNCHANGED <<pendingSeq, call, seq, asked>>

\* DoMqMsg for the request of a peer: it goes to the server of its object,
\* if there is one.  Nobody is told of a request for another object, or with
\* the tag "*", which goes to RegisterMqMsg.
ReadRequest ==
    LET m == Head(in)
    IN /\ m.seq = 0
       /\ \E l \in {"serving", "over"} : asked' = [asked EXCEPT ![m.of] = l]
       /\ UNCHANGED calls

Read ==
    /\ pc["reader"] = "read" /\ in # <<>>
    /\ kind = "local" \/ (conn /\ transport # "broken")
    /\ ReadReply \/ ReadRequest
    /\ in' = Tail(in)
    /\ Goto("reader", "loop")
    /\ UNCHANGED <<kind, flags, conn, writer, consumer, transport, out, broker, owed, ends>>

(* The connection is closed or broken.  A TCP connection that was closed   *)
(* with messages unread takes what was on its way down with it; a local    *)
(* connection never reports an error.                                      *)
ReadFails ==
    /\ pc["reader"] = "read" /\ kind = "tcp"
    /\ \/ ~conn \/ transport = "broken"
       \/ transport = "closed" /\ (in = <<>> \/ out # <<>>)
    /\ transport' = "broken" /\ in' = <<>>
    /\ Goto("reader", "error")
    /\ UNCHANGED <<kind, flags, conn, calls, writer, consumer, out, broker, owed, asked, ends>>

NoReply(r) == UNCHANGED cache    \* mutant: the callback does not answer
Reply(r) == cache' = Append(cache, r)

(* The handler of the object is done: the reply joins the writer's cache.  *)
(* A handler that panics, or that the object does not have, takes the      *)
(* callback with it, and nothing is sent.                                  *)
Serve(r) ==
    /\ asked[r] = "serving"
    /\ \/ asked' = [asked EXCEPT ![r] = "served"] /\ Reply(r)
       \/ asked' = [asked EXCEPT ![r] = "over"] /\ UNCHANGED cache
    /\ UNCHANGED <<kind, flags, conn, calls, producer, cur, consumer, pc, wire, ends>>

-----------------------------------------------------------------------------
(* IsError, by the reader or the writer: first the flags, then the         *)
(* connection, then the flags are changed and a goroutine calls Close.     *)
OnlyErr == "Err" \in flags     \* mutant: Stopping is not looked at
Pardoned == flags \cap {"Stopping", "Stop", "Err"} # {}

IsError(p) ==
    /\ pc[p] = "error"
    /\ Goto(p, IF Pardoned THEN "loop" ELSE "mark")
    /\ UNCHANGED <<kind, flags, conn, calls, writer, consumer, wire, asked, ends>>

MarkError(p) ==
    /\ pc[p] = "mark" /\ conn
    /\ flags' = (flags \ {"Start"}) \cup {"Err"}
    /\ closer' = [closer EXCEPT ![p] = "lock"]
    /\ Goto(p, "loop")
    /\ UNCHANGED <<kind, conn, calls, writer, consumer, wire, asked, mutex, mqClose, timedOut>>

\* reflect panics on a nil connection; the rpc server recovers.
MarkPanics(p) ==
    /\ pc[p] = "mark" /\ ~conn
    /\ IF p = "writer" THEN Handled ELSE Goto(p, "gone") /\ UNCHANGED <<calls, writer>>
    /\ UNCHANGED <<kind, flags, conn, consumer, wire, asked, ends>>

-----------------------------------------------------------------------------
(* Close.                                                                  *)
Step(k, from, to) == closer[k] = from /\ closer' = [closer EXCEPT ![k] = to]

CloseUser(k) ==
    /\ kind = "tcp" \/ k \in LocalUsers
    /\ call[OnMqRegister] = "done" /\ Step(k, "none", "lock")
    /\ UNCHANGED <<kind, flags, conn, calls, writer, consumer, pc, wire, asked, mutex,
                   mqClose, timedOut>>

AnyTime == TRUE         \* mutant: the lock is missing
Free == mutex = None

CloseBegin(k) ==
    /\ Free
    /\ IF flags \cap {"Stopping", "Stop"} # {}
       THEN Step(k, "lock", "done") /\ UNCHANGED mutex
       ELSE /\ Step(k, "lock", IF "Err" \in flags THEN "producer" ELSE "subscribed")
            /\ mutex' = k
    /\ UNCHANGED <<kind, flags, conn, calls, writer, consumer, pc, wire, asked, mqClose,
                   timedOut>>

(* MqStopSubscribe: the check and the call of AddState are two steps, but  *)
(* only the holder of c.mutex gets here.                                   *)
Unsubscribed == flags \cap {"StopSubscribe", "Stopping", "Stop"} # {}

MqStopSubscribe(k) ==
    /\ ~Unsubscribed /\ Step(k, "subscribed", "unsubscribing")
    /\ flags' = flags \cup {"StopSubscribe"}
    /\ Begin(OnMqStopSubscribe)
    /\ UNCHANGED <<kind, conn, writer, consumer, pc, wire, asked, mutex, mqClose, timedOut>>

(* Ticker runs WaitPending, which always returns true, in a goroutine that *)
(* nobody waits for; Timer starts MqClose and waits for it or ten seconds. *)
TimerStart(k) ==
    /\ \/ Step(k, "subscribed", "timing") /\ Unsubscribed
       \/ Step(k, "unsubscribing", "timing") /\ Returned(OnMqStopSubscribe)
    /\ mqClose' = "check"
    /\ UNCHANGED <<kind, flags, conn, calls, writer, consumer, pc, wire, asked, mutex, timedOut>>

MqClose ==
    /\ mqClose = "check"
    /\ IF flags \cap {"Stopping", "Stop"} # {}
       THEN mqClose' = "done" /\ UNCHANGED <<flags, calls>>
       ELSE /\ mqClose' = "closing" /\ flags' = flags \cup {"Stopping"}
            /\ Begin(OnMqClose)
    /\ UNCHANGED <<kind, conn, writer, consumer, pc, wire, asked, closer, mutex, timedOut>>

MqCloseReturns ==
    /\ mqClose = "closing" /\ Returned(OnMqClose)
    /\ mqClose' = "done" /\ flags' = flags \cup {"Stop"}
    /\ UNCHANGED <<kind, conn, calls, writer, consumer, pc, wire, asked, closer, mutex, timedOut>>

Timer(k) ==
    /\ Step(k, "timing", "conn")
    /\ timedOut' = (timedOut \/ mqClose # "done")
    /\ UNCHANGED <<kind, flags, conn, calls, writer, consumer, pc, wire, asked, mutex, mqClose>>

CloseConn(k) ==
    /\ Step(k, "conn", "producer") /\ conn' = FALSE
    /\ UNCHANGED <<kind, flags, calls, writer, consumer, pc, wire, asked, mutex, mqClose,
                   timedOut>>

\* Stop(true) on the writer: it ends when what was queued is handled.
StopProducer(k) ==
    /\ Step(k, "producer", "draining")
    /\ producer' = IF producer = "start" THEN "stopping" ELSE producer
    /\ UNCHANGED <<kind, flags, conn, calls, cache, cur, consumer, pc, wire, asked, mutex,
                   mqClose, timedOut>>

ProducerStops(k) ==
    /\ Step(k, "draining", "consumer")
    /\ producer = "stopping" => cache = <<>> /\ pc["writer"] = "idle"
    /\ producer' = "stop"
    /\ UNCHANGED <<kind, flags, conn, calls, cache, cur, consumer, pc, wire, asked, mutex,
                   mqClose, timedOut>>

StopConsumer(k) ==
    /\ Step(k, "consumer", "leaving")
    /\ consumer' = IF consumer = "start" THEN "stopping" ELSE consumer
    /\ UNCHANGED <<kind, flags, conn, calls, writer, pc, wire, asked, mutex, mqClose, timedOut>>

CloseEnd(k) ==
    /\ Step(k, "leaving", "done")
    /\ pc["reader"] = "gone"
    /\ consumer' = "stop" /\ mutex' = None
    /\ UNCHANGED <<kind, flags, conn, calls, writer, pc, wire, asked, mqClose, timedOut>>

-----------------------------------------------------------------------------
(* The broker and the network.  The broker reads one message after the     *)
(* other; its replies, and those of peers, leave through its own writer.   *)
(* It may refuse a registration (an instance that exists, a topic that is  *)
(* taken): then it does not answer, and marks the client stopped, so that  *)
(* the Close it asks for returns at once and its reader and writer find no *)
(* connection any more.  The connection itself stays open.                 *)
BrokerTakes(j) ==
    /\ j \in Jobs /\ owed' = owed \cup {j}
    /\ \/ j = OnMqRegister /\ broker' \in {"open", "refused"}
       \/ j = OnMqClose /\ broker' = "closing"
       \/ j \notin {OnMqRegister, OnMqClose} /\ UNCHANGED broker
    /\ UNCHANGED asked

BrokerReads ==
    /\ transport = "open" /\ broker # "refused" /\ out # <<>>
    /\ LET j == Head(out)
       IN \/ BrokerTakes(j)
          \/ /\ j \in Requests /\ asked' = [asked EXCEPT ![j] = "over"]
             /\ UNCHANGED <<broker, owed>>
    /\ out' = Tail(out)
    /\ UNCHANGED <<kind, flags, conn, calls, writer, consumer, pc, transport, in, ends>>

\* The goroutine that closes does not wait for the writer.
BrokerCloses ==
    /\ transport = "open" /\ broker = "closing"
    /\ transport' = "closed"
    /\ UNCHANGED <<kind, flags, conn, calls, writer, consumer, pc, out, in, broker, owed,
                   asked, ends>>

\* A reply of the broker to its own three requests, or of a peer to a Call.
Respond(j) ==
    /\ transport = "open" /\ broker # "refused" /\ j \in owed
    /\ owed' = owed \ {j}
    /\ in' = Append(in, [seq |-> seq[j], of |-> j])
    /\ UNCHANGED <<kind, flags, conn, calls, writer, consumer, pc, transport, out, broker,
                   asked, ends>>

\* A queue may send to a client from the moment it is registered until it has
\* stopped subscribing, and has the client's connection in hand a little longer.
PeerAsks(r) ==
    /\ transport = "open" /\ asked[r] = "none" /\ broker \in {"open", "closing"}
    /\ asked' = [asked EXCEPT ![r] = "sent"]
    /\ in' = Append(in, [seq |-> 0, of |-> r])
    /\ UNCHANGED <<kind, flags, conn, calls, writer, consumer, pc, transport, out, broker,
                   owed, ends>>

Break ==
    /\ kind = "tcp" /\ transport # "broken"
    /\ transport' = "broken" /\ in' = <<>>
    /\ UNCHANGED <<kind, flags, conn, calls, writer, consumer, pc, out, broker, owed, asked,
                   ends>>

-----------------------------------------------------------------------------
Caller(j) == Queue(j) \/ Return(j)
Writer == WriterTakes \/ WriterDrops \/ WriterGetConn \/ Write \/ WriteFails
Reader == ReaderGetConn \/ ReaderLeaves \/ Read \/ ReadFails
OnError(p) == IsError(p) \/ MarkError(p) \/ MarkPanics(p)
Close(k) ==
    \/ CloseBegin(k) \/ MqStopSubscribe(k) \/ TimerStart(k) \/ Timer(k)
    \/ CloseConn(k) \/ StopProducer(k) \/ ProducerStops(k) \/ StopConsumer(k) \/ CloseEnd(k)
Closing == MqClose \/ MqCloseReturns
Broker == BrokerReads \/ BrokerCloses

Next ==
    \/ Start \/ \E c \in Calls : CallBegin(c)
    \/ \E j \in Jobs : Caller(j) \/ Respond(j)
    \/ Writer \/ Reader
    \/ \E p \in Procs : OnError(p)
    \/ \E k \in Users : CloseUser(k)
    \/ \E k \in Closers : Close(k)
    \/ Closing \/ Broker \/ Break
    \/ \E r \in Requests : Serve(r) \/ PeerAsks(r)

Spec == Init /\ [][Next]_vars

(* Every goroutine that can go on does, and so does the broker.  A peer    *)
(* need not answer a Call: there may be no subscriber of its topic, no     *)
(* object or method of its name, or the handler may panic.  c.mutex is     *)
(* held by one Close at a time, and there are finitely many.               *)
FairSpec ==
    /\ Spec
    /\ \A j \in Jobs : WF_vars(Caller(j))
    /\ \A j \in Jobs \ Calls : WF_vars(Respond(j))
    /\ WF_vars(Writer) /\ WF_vars(Reader)
    /\ \A p \in Procs : WF_vars(OnError(p))
    /\ \A k \in Closers : WF_vars(Close(k))
    /\ WF_vars(Closing) /\ WF_vars(Broker)
    /\ \A r \in Requests : WF_vars(Serve(r))

-----------------------------------------------------------------------------
(* Every variable has its type.                                            *)
TypeOK ==
    /\ kind \in Kinds /\ conn \in BOOLEAN /\ timedOut \in BOOLEAN
    /\ flags \subseteq {"Start", "Err", "StopSubscribe", "Stopping", "Stop"}
    /\ transport \in {"open", "closed", "broken"} /\ broker \in {"new", "open", "refused", "closing"}
    /\ pendingSeq \in 0 .. Cardinality(Jobs)
    /\ pendingMap \in [Seqs -> Jobs \cup {None}] /\ seq \in [Jobs -> 0 .. Cardinality(Jobs)]
    /\ call \in [Jobs -> {"none", "stored", "queued", "waiting", "done"}]
    /\ answer \in [Jobs -> Jobs \cup {None}]
    /\ {producer, consumer} \subseteq {"start", "stopping", "stop"}
    /\ pc \in [Procs -> {"idle", "loop", "read", "write", "error", "mark", "gone"}]
    /\ cur \in Jobs \cup Requests \cup {None} /\ (cur = None) = (pc["writer"] = "idle")
    /\ cache \in Seq(Jobs \cup Requests) /\ out \in Seq(Jobs \cup Requests)
    /\ in \in Seq([seq : 0 .. Cardinality(Jobs), of : Jobs \cup Requests])
    /\ owed \subseteq Jobs
    /\ asked \in [Requests -> {"none", "sent", "serving", "served", "over"}]
    /\ closer \in [Closers -> {"none", "lock", "subscribed", "unsubscribing", "timing",
                               "conn", "producer", "draining", "consumer", "leaving", "done"}]
    /\ mutex \in Closers \cup {None}
    /\ mqClose \in {"none", "check", "closing", "done"}

(* A reply on its way to the client finds the entry of its Call, and an    *)
(* entry is in pendingMap exactly until the reply has been taken to its    *)
(* Call, and to no other one, however replies overtake one another: the    *)
(* entry is stored before the message is written, and removed by the only  *)
(* reader.                                                                 *)
PendingExact ==
    /\ \A i \in 1 .. Len(in) : in[i].seq # 0 => pendingMap[in[i].seq] # None
    /\ \A j \in Jobs : call[j] # "none" => (answer[j] = None <=> \E n \in Seqs : pendingMap[n] = j)
    /\ \A j \in Jobs : answer[j] \in {None, j}

(* The comparison of connections in IsError never meets a nil connection,  *)
(* unless Timer gave up on MqClose: until then Close needs the very        *)
(* goroutine that is in IsError to get as far as CloseConn.                *)
ErrorHasConn == \A p \in Procs : pc[p] = "mark" => conn \/ timedOut

(* The client announces its end (OnMqClose) only after the broker has      *)
(* confirmed that it sends no more requests, also with several Closes.     *)
ClosesInOrder == call[OnMqClose] # "none" => Returned(OnMqStopSubscribe)

\* The connection does not come back, and neither does a stopped writer.
Lost == transport # "open" \/ ~conn \/ producer # "start"

\* The broker refused the registration, or the peer does not answer the Call:
\* nothing comes back, and the caller is not told.
Unanswered(j) == j \in owed /\ (j \in Calls \/ broker = "refused")

(* Unless the connection is lost or the client closes, in the end every    *)
(* Call has reached the broker and has returned if it was answered at all, *)
(* however replies overtake one another and mix with requests of peers;    *)
(* and every request of a peer whose handler returns has been answered.    *)
(* Start waits for ever for a registration that is refused, and a Call for *)
(* a reply that nobody sends: there is no timeout.                         *)
Answered ==
    <>[] \/ Lost
         \/ /\ \A j \in Jobs : call[j] # "none" => Returned(j) \/ Unanswered(j)
            /\ \A r \in Requests : asked[r] \in {"none", "over"}

\* Close waits for a reply that can no longer come.
StopSubscribeLost == transport # "open" /\ \E k \in Closers : closer[k] = "unsubscribing"
\* The reader is in a read that closing the local connection does not end.
ReaderAsleep == kind = "local" /\ ~conn /\ pc["reader"] = "read"

(* In the end every Close has returned, except when the connection is lost *)
(* while one waits for OnMqStopSubscribe, and when the connection is local *)
(* and its reader is reading: those wait for ever, with c.mutex held.      *)
CloseReturns ==
    <>[] \/ \A k \in Closers : closer[k] \in {"none", "done"}
         \/ StopSubscribeLost \/ ReaderAsleep

-----------------------------------------------------------------------------
(* The refinement mapping to MqSession: a Call is issued from its entry in *)
(* pendingMap on until it has returned.                                    *)
Phase == [j \in Jobs |-> IF call[j] \in {"stored", "queued", "waiting"} THEN "issued" ELSE call[j]]
Session == INSTANCE MqSession WITH phase <- Phase, reply <- answer, open <- conn

(* The library keeps the promise of MqSession: with several Closes, errors *)
(* found by reader and writer, and replies in any order, each request gets *)
(* its own answer once, nothing is asked before the registration is        *)
(* confirmed, and only a client that has stopped subscribing gives up its  *)
(* connection.                                                             *)
ImplementsSession == Session!Spec
==============================================================================
