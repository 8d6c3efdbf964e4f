------------------------------ MODULE RpcServer ------------------------------
(***************************************************************************)
(* The actor runtime of skynet_go/rpc/server.go: a Server owns a bounded   *)
(* channel (Cache) and a group of goroutines running Server.run, which     *)
(* take messages, handle them and count them.  Stop(waitMsg) tells the     *)
(* goroutines to leave, either at once or when as many messages have been  *)
(* counted (recvNumber) as were announced (SendNumber), and waits for them;*)
(* Start(isNewCache) brings a stopped server back.  Senders are any        *)
(* goroutines of the program: they never look at the state of the server,  *)
(* they announce the message and push it, blocking while Cache is full.    *)
(*                                                                         *)
(* One element of Msgs is one Send/SendReq/Call operation; where[m] is how *)
(* far it has come.  ctl is the program counter of the goroutine that holds*)
(* server.mutex ("free": nobody); callers that wait for the mutex change   *)
(* nothing and are not represented.                                        *)
(***************************************************************************)
EXTENDS Integers, Sequences, FiniteSets

CONSTANTS Msgs,       \* the send operations of a behaviour
          Workers,    \* identities of goroutines running Server.run
          Capacity,   \* cacheNumber: size of the channel (1000 in the code)
          MaxCaches,  \* bound: how many channels Start may ever make
          MaxStarts,  \* bound: how many times Start restarts the server
          NewCache    \* the values of isNewCache restarts may use

ASSUME ServerAssumption ==
    /\ IsFiniteSet(Msgs)
    /\ Workers # {}
    /\ Capacity \in Nat \ {0}
    /\ MaxCaches \in Nat \ {0}
    /\ MaxStarts \in Nat
    /\ NewCache \subseteq BOOLEAN

VARIABLES
    state,            \* server.state
    waitMsg,          \* server.waitMsg, TRUE for 1
    SendNumber,       \* messages announced since the last Start
    recvNumber,       \* messages counted as handled since the last Start
    goroutineNumber,  \* goroutines started since the last Start
    Cache,            \* which channel server.Cache refers to
    chans,            \* the content of every channel made so far
    cancelled,        \* server.cancel() was called on the current context
    ctl,              \* where the holder of server.mutex is in Start or Stop
    stopArg,          \* the argument waitMsg of the Stop in progress
    isNew,            \* the argument isNewCache of the Start in progress
    starts,           \* number of restarts so far (bounded by MaxStarts)
    wpc,              \* where each goroutine is in Server.run
    armed,            \* the goroutine has set done = nil and runs on its timer
    seen,             \* recvNumber as isStopping read it
    held,             \* the message a goroutine received last
    where,            \* how far each send operation has come
    target,           \* the channel a blocked sender has evaluated
    sent,             \* history: operations announced since the last Start
    counted,          \* history: operations counted since the last Start
    due,              \* history: what the Stop in progress promised to handle
    clean             \* history: the last Start found nothing left over

serverVars == <<state, waitMsg, goroutineNumber, Cache, cancelled, ctl,
                stopArg, isNew, starts, due, clean>>
workerVars == <<wpc, armed, seen, held>>
senderVars == <<where, target>>
countVars  == <<SendNumber, recvNumber, sent, counted>>
vars == <<serverVars, workerVars, senderVars, countVars, chans>>

Caches == 1..MaxCaches

Alive == {w \in Workers : wpc[w] # "none"}

\* Send operations that have announced their message and not pushed it yet.
InFlight == {m \in Msgs : where[m] \in {"announced", "blocked"}}

-----------------------------------------------------------------------------
(* The server NewServer returns: started, one goroutine, empty channel.    *)
Init ==
    /\ state = "start" /\ waitMsg = TRUE /\ cancelled = FALSE
    /\ SendNumber = 0 /\ recvNumber = 0 /\ sent = {} /\ counted = {}
    /\ goroutineNumber = 1
    /\ Cache = 1 /\ chans = [c \in Caches |-> <<>>]
    /\ ctl = "free" /\ stopArg = TRUE /\ isNew = TRUE /\ starts = 0
    /\ clean = TRUE /\ due = {}
    /\ \E first \in Workers :
          wpc = [w \in Workers |-> IF w = first THEN "select" ELSE "none"]
    /\ armed = [w \in Workers |-> FALSE]
    /\ seen = [w \in Workers |-> 0]
    /\ \E m \in Msgs : held = [w \in Workers |-> m]
    /\ where = [m \in Msgs |-> "idle"]
    /\ target = [m \in Msgs |-> 1]

-----------------------------------------------------------------------------
(* Senders: Send, SendReq and Call of rpcD, rpcE and rpcU.                 *)

\* atomic.AddInt32(&server.SendNumber, 1)
Announce(m) ==
    /\ where[m] = "idle"
    /\ where' = [where EXCEPT ![m] = "announced"]
    /\ SendNumber' = SendNumber + 1
    /\ sent' = sent \union {m}
    /\ UNCHANGED <<serverVars, workerVars, target, recvNumber, counted, chans>>

\* server.Cache <- msg : the channel is evaluated first ...
ReadCache(m) ==
    /\ where[m] = "announced"
    /\ where' = [where EXCEPT ![m] = "blocked"]
    /\ target' = [target EXCEPT ![m] = Cache]
    /\ UNCHANGED <<serverVars, workerVars, countVars, chans>>

\* ... and the sender stays blocked on that channel while it is full.
Push(m) ==
    /\ where[m] = "blocked"
    /\ Len(chans[target[m]]) < Capacity
    /\ chans' = [chans EXCEPT ![target[m]] = Append(@, m)]
    /\ where' = [where EXCEPT ![m] = "queued"]
    /\ UNCHANGED <<serverVars, workerVars, target, countVars>>

-----------------------------------------------------------------------------
(* Server.run.  After each case of the select the goroutine evaluates      *)
(* isStopping, whose loads of the state and of the two counters are        *)
(* separate steps: the counters may move between them.                     *)

Goto(w, label) == wpc' = [wpc EXCEPT ![w] = label]

\* case cache := <-server.Cache
Receive(w) ==
    /\ wpc[w] = "select"
    /\ chans[Cache] # <<>>
    /\ held' = [held EXCEPT ![w] = Head(chans[Cache])]
    /\ where' = [where EXCEPT ![Head(chans[Cache])] = "held"]
    /\ chans' = [chans EXCEPT ![Cache] = Tail(@)]
    /\ Goto(w, "handle")
    /\ UNCHANGED <<serverVars, armed, seen, target, countVars>>

\* server.sI.RPC_DoMsg(msg): the handler of the message runs to its end.
DoMsg(w) ==
    /\ wpc[w] = "handle"
    /\ where' = [where EXCEPT ![held[w]] = "handled"]
    /\ Goto(w, "count")
    /\ UNCHANGED <<serverVars, armed, seen, held, target, countVars, chans>>

\* atomic.AddInt32(&server.recvNumber, 1)
CountRecv(w) ==
    /\ wpc[w] = "count"
    /\ recvNumber' = recvNumber + 1
    /\ counted' = counted \union {held[w]}
    /\ Goto(w, "check")
    /\ UNCHANGED <<serverVars, armed, seen, held, senderVars, SendNumber,
                   sent, chans>>

\* case <-done : done = nil, and the timer replaces it.
SeeDone(w) ==
    /\ wpc[w] = "select"
    /\ ~armed[w]
    /\ cancelled
    /\ armed' = [armed EXCEPT ![w] = TRUE]
    /\ Goto(w, "check")
    /\ UNCHANGED <<serverVars, seen, held, senderVars, countVars, chans>>

\* case <-timerC : the timer is armed again when the goroutine stays.
Tick(w) ==
    /\ wpc[w] = "select"
    /\ armed[w]
    /\ Goto(w, "check")
    /\ UNCHANGED <<serverVars, armed, seen, held, senderVars, countVars, chans>>

\* A server that stops without waiting for its messages is left at once.
LeaveAlways == TRUE     \* mutant: waitMsg is not looked at
LeaveAtOnce == ~waitMsg

\* The comparison that ends isStopping.
CountersNearlyEqual(w) == seen[w] + 1 >= SendNumber   \* mutant: off by one
CountersEqual(w) == seen[w] = SendNumber

Leave(w) ==
    /\ Goto(w, "none")
    /\ armed' = [armed EXCEPT ![w] = FALSE]

\* isStopping before the counters: not stopping, or stopping without waiting.
CheckState(w) ==
    /\ wpc[w] = "check"
    /\ \/ /\ state # "stopping"
          /\ Goto(w, "select")
          /\ UNCHANGED armed
       \/ /\ state = "stopping" /\ LeaveAtOnce
          /\ Leave(w)
    /\ UNCHANGED <<serverVars, seen, held, senderVars, countVars, chans>>

\* isStopping with waitMsg: load recvNumber ...
LoadRecv(w) ==
    /\ wpc[w] = "check"
    /\ state = "stopping" /\ waitMsg
    /\ seen' = [seen EXCEPT ![w] = recvNumber]
    /\ Goto(w, "compare")
    /\ UNCHANGED <<serverVars, armed, held, senderVars, countVars, chans>>

\* ... then load SendNumber and compare.
CompareSend(w) ==
    /\ wpc[w] = "compare"
    /\ IF CountersEqual(w)
       THEN Leave(w)
       ELSE Goto(w, "select") /\ UNCHANGED armed
    /\ UNCHANGED <<serverVars, seen, held, senderVars, countVars, chans>>

-----------------------------------------------------------------------------
(* Start, Stop and Addoroutine.                                            *)

CancelForgotten == UNCHANGED cancelled   \* mutant: Stop does not call cancel()
Cancel == cancelled' = TRUE

NoWait == TRUE                           \* mutant: Stop does not wait
WaitGroupDone == Alive = {}

\* Mutant: recvNumber keeps the count of the last run.
ResetSendOnly ==
    /\ SendNumber' = 0 /\ sent' = {}
    /\ recvNumber' = recvNumber /\ counted' = {}
ResetCounters ==
    /\ SendNumber' = 0 /\ sent' = {}
    /\ recvNumber' = 0 /\ counted' = {}

\* A goroutine running Server.run is added to the wait group and started.
Spawn(w) ==
    /\ wpc[w] = "none"
    /\ Goto(w, "select")
    /\ goroutineNumber' = goroutineNumber + 1
    /\ UNCHANGED <<armed, seen, held>>

\* Addoroutine(1), which the program calls on a server it has just started.
Addoroutine(w) ==
    /\ state = "start" /\ ctl = "free"
    /\ Spawn(w)
    /\ UNCHANGED <<state, waitMsg, Cache, cancelled, ctl, stopArg, isNew,
                   starts, due, clean, senderVars, countVars, chans>>

\* Stop(wait) takes the mutex and marks the server as stopping ...
StopMark(wait) ==
    /\ ctl = "free"
    /\ state = "start"
    /\ state' = "stopping"
    /\ stopArg' = wait
    /\ due' = IF wait /\ clean THEN sent ELSE {}
    /\ ctl' = "marked"
    /\ UNCHANGED <<waitMsg, goroutineNumber, Cache, cancelled, isNew, starts,
                   clean, workerVars, senderVars, countVars, chans>>

\* ... publishes waitMsg and cancels the context ...
StopCancel ==
    /\ ctl = "marked"
    /\ waitMsg' = stopArg
    /\ Cancel
    /\ ctl' = "waiting"
    /\ UNCHANGED <<state, goroutineNumber, Cache, stopArg, isNew, starts,
                   due, clean, workerVars, senderVars, countVars, chans>>

\* ... and returns when waitGroup.Wait() does.
StopReturn ==
    /\ ctl = "waiting"
    /\ WaitGroupDone
    /\ state' = "stop"
    /\ ctl' = "free"
    /\ UNCHANGED <<waitMsg, goroutineNumber, Cache, cancelled, stopArg, isNew,
                   starts, due, clean, workerVars, senderVars, countVars, chans>>

\* Start(new): the counters are reset while senders go on ...
StartReset(new) ==
    /\ ctl = "free"
    /\ state = "stop"
    /\ starts < MaxStarts
    /\ new => Cache < MaxCaches
    /\ starts' = starts + 1
    /\ goroutineNumber' = 0
    /\ ResetCounters
    /\ state' = "start"
    /\ waitMsg' = TRUE
    /\ isNew' = new
    /\ clean' = (InFlight = {} /\ (new \/ chans[Cache] = <<>>))
    /\ ctl' = "starting"
    /\ UNCHANGED <<Cache, cancelled, stopArg, due, workerVars, senderVars, chans>>

\* ... then the channel is replaced, or kept with whatever is in it, a new
\* context and a new wait group are made and one goroutine is started.
StartRun(w) ==
    /\ ctl = "starting"
    /\ Cache' = IF isNew THEN Cache + 1 ELSE Cache
    /\ cancelled' = FALSE
    /\ Spawn(w)
    /\ ctl' = "free"
    /\ UNCHANGED <<state, waitMsg, stopArg, isNew, starts, due, clean,
                   senderVars, countVars, chans>>

-----------------------------------------------------------------------------
Send(m) == Announce(m) \/ ReadCache(m) \/ Push(m)

\* Everything a goroutine does on its own, once it is running.
Run(w) == \/ Receive(w) \/ DoMsg(w) \/ CountRecv(w) \/ SeeDone(w) \/ Tick(w)
          \/ CheckState(w) \/ LoadRecv(w) \/ CompareSend(w)

Control == \/ \E wait \in BOOLEAN : StopMark(wait)
           \/ StopCancel
           \/ StopReturn
           \/ \E new \in NewCache : StartReset(new)
           \/ \E w \in Workers : StartRun(w) \/ Addoroutine(w)

Next == \/ \E m \in Msgs : Send(m)
        \/ \E w \in Workers : Run(w)
        \/ Control

Spec == Init /\ [][Next]_vars

(* Fairness: the Go scheduler runs every runnable goroutine, a handler     *)
(* returns, a timer fires, and a select with several ready cases picks     *)
(* each of them again and again, hence SF on the receive.  Nothing forces  *)
(* anyone to call Send, Stop, Start or Addoroutine.                        *)
Fairness ==
    /\ \A m \in Msgs : WF_vars(ReadCache(m)) /\ SF_vars(Push(m))
    /\ \A w \in Workers : WF_vars(Run(w)) /\ SF_vars(Receive(w))
    /\ WF_vars(StopCancel) /\ WF_vars(StopReturn)
    /\ WF_vars(\E w \in Workers : StartRun(w))

FairSpec == Spec /\ Fairness

-----------------------------------------------------------------------------
(* Properties.                                                             *)

\* The type of every variable.
TypeOK ==
    /\ state \in {"start", "stopping", "stop"}
    /\ waitMsg \in BOOLEAN /\ cancelled \in BOOLEAN /\ stopArg \in BOOLEAN
    /\ isNew \in BOOLEAN /\ clean \in BOOLEAN
    /\ SendNumber \in Nat /\ recvNumber \in Nat /\ goroutineNumber \in Nat
    /\ starts \in 0..MaxStarts
    /\ Cache \in Caches /\ chans \in [Caches -> Seq(Msgs)]
    /\ ctl \in {"free", "marked", "waiting", "starting"}
    /\ wpc \in [Workers -> {"none", "select", "handle", "count", "check",
                            "compare"}]
    /\ armed \in [Workers -> BOOLEAN]
    /\ seen \in [Workers -> Nat]
    /\ held \in [Workers -> Msgs]
    /\ where \in [Msgs -> {"idle", "announced", "blocked", "queued", "held",
                           "handled"}]
    /\ target \in [Msgs -> Caches]
    /\ sent \subseteq Msgs /\ counted \subseteq Msgs /\ due \subseteq Msgs

Handled == {m \in Msgs : where[m] = "handled"}

-----------------------------------------------------------------------------
(* The inductive invariant behind DrainOnStop, in parts.                   *)

\* What the holder of the mutex and the goroutines know of each other.
ControlInv ==
    /\ state = "start" => ctl \in {"free", "starting"}
    /\ state = "stopping" => ctl \in {"marked", "waiting"}
    /\ state = "stop" => ctl = "free"
    /\ state = "stop" \/ ctl = "starting" => Alive = {}
    /\ state = "start" /\ ctl = "free" => Alive # {}
    /\ \A w \in Workers : wpc[w] = "compare" => state = "stopping"
    /\ state = "stopping" /\ stopArg => waitMsg
    /\ state = "start" \/ ctl = "marked" => waitMsg

\* A message is in one place of one channel, or with one goroutine.
PlaceInv ==
    /\ \A c \in Caches : \A i \in 1..Len(chans[c]) : where[chans[c][i]] = "queued"
    /\ \A c, d \in Caches : \A i \in 1..Len(chans[c]), j \in 1..Len(chans[d]) :
          chans[c][i] = chans[d][j] => c = d /\ i = j
    /\ \A w \in Workers :
          /\ wpc[w] = "handle" => where[held[w]] = "held"
          /\ wpc[w] = "count" => where[held[w]] = "handled"
    /\ \A v, w \in Workers :
          (wpc[v] \in {"handle", "count"} /\ wpc[w] \in {"handle", "count"}
             /\ held[v] = held[w]) => v = w

\* The counters count what the history variables hold.
CountInv ==
    /\ SendNumber = Cardinality(sent)
    /\ recvNumber = Cardinality(counted)
    /\ \A m \in sent : where[m] # "idle"
    /\ counted \subseteq Handled
    /\ \A w \in Workers : wpc[w] = "count" => held[w] \notin counted
    /\ \A w \in Workers : wpc[w] = "compare" => seen[w] <= recvNumber

\* Nothing of an earlier Start reaches a server that was started clean.
CleanInv ==
    /\ \A c \in Caches : c > Cache => chans[c] = <<>>
    /\ \A m \in Msgs : where[m] = "blocked" => target[m] <= Cache
    /\ ctl = "starting" /\ isNew => Cache < MaxCaches
    /\ clean =>
          /\ counted \subseteq sent
          /\ InFlight \subseteq sent
          /\ \A w \in Workers : wpc[w] \in {"handle", "count"} => held[w] \in sent
          /\ \/ ctl = "starting" /\ isNew
             \/ \A i \in 1..Len(chans[Cache]) : chans[Cache][i] \in sent

\* What the Stop in progress owes, and that it is paid when the last
\* goroutine has left.
DueInv ==
    /\ state = "stopping" => due \subseteq sent
    /\ state = "stopping" /\ due # {} => stopArg /\ clean
    /\ state \in {"stopping", "stop"} /\ Alive = {} => due \subseteq Handled

IInv == TypeOK /\ ControlInv /\ PlaceInv /\ CountInv /\ CleanInv /\ DueInv

-----------------------------------------------------------------------------
\* Once Stop(true) has returned (server.go:141-157 with isStopping, 167-178),
\* every message announced before it began has been handled, provided that
\* the last Start found nothing left over.  Every test of rpcD, rpcE and rpcU
\* that ends with Send or SendReq followed by Stop(true) relies on it.
DrainOnStop == state = "stop" => due \subseteq Handled

\* The counters isStopping compares (server.go:172) never run ahead of each
\* other the wrong way: with nothing left over at Start, no more messages are
\* counted than were announced.  When this fails, isStopping can only become
\* true by accident and Stop(true) may wait for ever.
CountersOrdered == clean => recvNumber <= SendNumber

\* waitGroup.Wait() in Stop (server.go:153) separates the goroutines of one
\* Start from those of the next: a stopped server runs no handler, and there
\* are never more goroutines than the last Start and Addoroutine made.
GoroutinesBounded ==
    /\ state = "stop" => Alive = {}
    /\ Cardinality(Alive) <= goroutineNumber

\* A goroutine leaves a server that waits for its messages only when no
\* announced message is unhandled (server.go:190, 206, 217).
LeaveDrained ==
    [][\A w \in Workers :
          (wpc[w] # "none" /\ wpc'[w] = "none" /\ waitMsg /\ clean)
             => sent \subseteq Handled]_vars

\* Announced since Start, and sent to a channel that Start(true) has replaced:
\* the sender read server.Cache between the two halves of Start.
Stranded == {m \in sent : where[m] \in {"blocked", "queued"} /\ target[m] # Cache}

\* Stop returns (server.go:153) from a server that was started with nothing
\* left over in its channel, whoever else sends meanwhile, unless a message is
\* stranded, for which it waits for ever.
StopReturns == (ctl = "waiting" /\ clean) ~> (ctl = "free" \/ Stranded # {})

\* A message announced before Stop(true) is handled in the end, even when its
\* sender was still blocked on the full channel when Stop was called, unless it
\* is stranded.
DueHandled ==
    \A m \in Msgs :
       (m \in due /\ state = "stopping") ~> (where[m] = "handled" \/ m \in Stranded)

\* RpcServer implements the abstract mailbox: the promise of Stop(true) as a
\* client of the server sees it, without counters, channel or goroutines.
Mailbox == INSTANCE RpcMailbox WITH
    phase <- state, sound <- clean, performed <- Handled,
    accepted <- {m \in Msgs : where[m] # "idle"},
    old <- {m \in Msgs : where[m] # "idle"} \ sent
ImplementsMailbox == Mailbox!Spec
=============================================================================
