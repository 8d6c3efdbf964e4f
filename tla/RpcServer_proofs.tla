--------------------------- MODULE RpcServer_proofs ---------------------------
(***************************************************************************)
(* Proofs about RpcServer, for every set of messages, every set of         *)
(* goroutines, every capacity of the channel and any number of restarts.   *)
(*                                                                         *)
(* IInv (RpcServer.tla) is proved inductive part by part: each lemma below *)
(* shows that a step preserves one part, from that part and the parts it   *)
(* depends on.  TypeOK and ControlInv stand alone; PlaceInv needs TypeOK;  *)
(* CountInv needs PlaceInv; CleanInv needs CountInv; DueInv, the promise   *)
(* of Stop, needs them all.                                                *)
(***************************************************************************)
EXTENDS RpcServer, FiniteSetTheorems, TLAPS

USE DEF Caches

\* The types are preserved by every step of senders, goroutines and Start/Stop.
LEMMA TypeInitial == Init => TypeOK
<1> SUFFICES ASSUME Init PROVE TypeOK
  OBVIOUS
<1>1. wpc \in [Workers -> {"none", "select", "handle", "count", "check", "compare"}]
  BY DEF Init
<1>2. held \in [Workers -> Msgs]
  BY DEF Init
<1>3. chans \in [Caches -> Seq(Msgs)] /\ Cache \in Caches /\ target \in [Msgs -> Caches]
  BY ServerAssumption DEF Init
<1>4. /\ armed \in [Workers -> BOOLEAN] /\ seen \in [Workers -> Nat]
      /\ where \in [Msgs -> {"idle", "announced", "blocked", "queued", "held", "handled"}]
  BY DEF Init
<1>5. starts \in 0..MaxStarts
  BY ServerAssumption DEF Init
<1>6. /\ state = "start" /\ waitMsg = TRUE /\ cancelled = FALSE /\ SendNumber = 0
      /\ recvNumber = 0 /\ sent = {} /\ counted = {} /\ goroutineNumber = 1
      /\ ctl = "free" /\ stopArg = TRUE /\ isNew = TRUE /\ clean = TRUE /\ due = {}
  BY DEF Init
<1> QED BY <1>1, <1>2, <1>3, <1>4, <1>5, <1>6 DEF TypeOK

LEMMA TypeStep == TypeOK /\ CleanInv /\ [Next]_vars => TypeOK'
<1> SUFFICES ASSUME TypeOK, CleanInv, [Next]_vars PROVE TypeOK'
  OBVIOUS
<1> USE ServerAssumption
<1>1. ASSUME NEW m \in Msgs, Send(m) PROVE TypeOK'
  <2>1. CASE Announce(m)
    BY <2>1 DEF Announce, TypeOK, serverVars, workerVars
  <2>2. CASE ReadCache(m)
    BY <2>2 DEF ReadCache, TypeOK, serverVars, workerVars, countVars
  <2>3. CASE Push(m)
    <3>1. target[m] \in Caches /\ Append(chans[target[m]], m) \in Seq(Msgs)
      BY DEF TypeOK
    <3> QED BY <2>3, <3>1 DEF Push, TypeOK, serverVars, workerVars, countVars
  <2> QED BY <1>1, <2>1, <2>2, <2>3 DEF Send
<1>2. ASSUME NEW w \in Workers, Run(w) PROVE TypeOK'
  <2>1. CASE Receive(w)
    <3>1. Head(chans[Cache]) \in Msgs /\ Tail(chans[Cache]) \in Seq(Msgs)
      BY <2>1 DEF Receive, TypeOK
    <3> QED BY <2>1, <3>1 DEF Receive, Goto, TypeOK, serverVars, countVars
  <2>2. CASE DoMsg(w)
    BY <2>2 DEF DoMsg, Goto, TypeOK, serverVars, countVars
  <2>3. CASE CountRecv(w)
    BY <2>3 DEF CountRecv, Goto, TypeOK, serverVars, senderVars
  <2>4. CASE SeeDone(w)
    BY <2>4 DEF SeeDone, Goto, TypeOK, serverVars, senderVars, countVars
  <2>5. CASE Tick(w)
    BY <2>5 DEF Tick, Goto, TypeOK, serverVars, senderVars, countVars
  <2>6. CASE CheckState(w)
    BY <2>6 DEF CheckState, LeaveAtOnce, Leave, Goto, TypeOK, serverVars, senderVars, countVars
  <2>7. CASE LoadRecv(w)
    BY <2>7 DEF LoadRecv, Goto, TypeOK, serverVars, senderVars, countVars
  <2>8. CASE CompareSend(w)
    BY <2>8 DEF CompareSend, CountersEqual, Leave, Goto, TypeOK, serverVars, senderVars, countVars
  <2> QED BY <1>2, <2>1, <2>2, <2>3, <2>4, <2>5, <2>6, <2>7, <2>8 DEF Run
<1>3. ASSUME NEW wait \in BOOLEAN, StopMark(wait) PROVE TypeOK'
  BY <1>3 DEF StopMark, TypeOK, workerVars, senderVars, countVars
<1>4. CASE StopCancel
  BY <1>4 DEF StopCancel, Cancel, TypeOK, workerVars, senderVars, countVars
<1>5. CASE StopReturn
  BY <1>5 DEF StopReturn, WaitGroupDone, TypeOK, workerVars, senderVars, countVars
<1>6. ASSUME NEW new \in NewCache, StartReset(new) PROVE TypeOK'
  BY <1>6 DEF StartReset, ResetCounters, TypeOK, workerVars, senderVars
<1>7. ASSUME NEW w \in Workers, StartRun(w) PROVE TypeOK'
  <2>1. Cache' \in Caches
    BY <1>7 DEF StartRun, TypeOK, CleanInv
  <2>2. /\ wpc' = [wpc EXCEPT ![w] = "select"]
        /\ goroutineNumber' = goroutineNumber + 1 /\ cancelled' = FALSE /\ ctl' = "free"
        /\ UNCHANGED <<armed, seen, held, state, waitMsg, stopArg, isNew, starts, due, clean,
                       senderVars, countVars, chans>>
    BY <1>7 DEF StartRun, Spawn, Goto
  <2>3. wpc' \in [Workers -> {"none", "select", "handle", "count", "check", "compare"}]
    <3>1. wpc \in [Workers -> {"none", "select", "handle", "count", "check", "compare"}]
      BY DEF TypeOK
    <3> QED BY <2>2, <3>1
  <2>4. goroutineNumber' \in Nat /\ cancelled' \in BOOLEAN
        /\ ctl' \in {"free", "marked", "waiting", "starting"}
    <3>1. goroutineNumber' \in Nat
      BY <2>2 DEF TypeOK
    <3>2. cancelled' \in BOOLEAN
      BY <2>2
    <3>3. ctl' \in {"free", "marked", "waiting", "starting"}
      BY <2>2
    <3> QED BY <3>1, <3>2, <3>3
  <2>5. UNCHANGED <<where, target, SendNumber, recvNumber, sent, counted>>
    BY <2>2 DEF senderVars, countVars
  <2> QED BY <2>1, <2>2, <2>3, <2>4, <2>5 DEF TypeOK
<1>8. ASSUME NEW w \in Workers, Addoroutine(w) PROVE TypeOK'
  BY <1>8 DEF Addoroutine, Spawn, Goto, TypeOK, senderVars, countVars
<1>9. CASE UNCHANGED vars
  BY <1>9 DEF TypeOK, vars, serverVars, workerVars, senderVars, countVars
<1> QED BY <1>1, <1>2, <1>3, <1>4, <1>5, <1>6, <1>7, <1>8, <1>9 DEF Next, Control
-----------------------------------------------------------------------------
\* Only goroutines of a server that is stopping are between the two loads of
\* isStopping, and the goroutines are there exactly while the server runs.
LEMMA ControlInitial == Init => ControlInv
  BY ServerAssumption DEF Init, ControlInv, Alive

LEMMA ControlStep == TypeOK /\ ControlInv /\ [Next]_vars => ControlInv'
<1> SUFFICES ASSUME TypeOK, ControlInv, [Next]_vars PROVE ControlInv'
  OBVIOUS
<1>1. ASSUME NEW m \in Msgs, Send(m) PROVE ControlInv'
  BY <1>1 DEF Send, Announce, ReadCache, Push, ControlInv, Alive, serverVars, workerVars
<1>2. ASSUME NEW w \in Workers, Run(w) PROVE ControlInv'
  <2>1. CASE Receive(w) \/ DoMsg(w) \/ CountRecv(w) \/ SeeDone(w) \/ Tick(w)
    BY <2>1 DEF Receive, DoMsg, CountRecv, SeeDone, Tick, Goto, ControlInv, Alive,
                TypeOK, serverVars
  <2>2. CASE CheckState(w) /\ state # "stopping"
    BY <2>2 DEF CheckState, LeaveAtOnce, Goto, ControlInv, Alive, TypeOK, serverVars
  <2>3. CASE CheckState(w) /\ state = "stopping"
    BY <2>3 DEF CheckState, LeaveAtOnce, Leave, Goto, ControlInv, Alive, TypeOK, serverVars
  <2>4. CASE LoadRecv(w)
    BY <2>4 DEF LoadRecv, Goto, ControlInv, Alive, TypeOK, serverVars
  <2>5. CASE CompareSend(w)
    BY <2>5 DEF CompareSend, CountersEqual, Leave, Goto, ControlInv, Alive, TypeOK, serverVars
  <2> QED BY <1>2, <2>1, <2>2, <2>3, <2>4, <2>5 DEF Run
<1>3. ASSUME NEW wait \in BOOLEAN, StopMark(wait) PROVE ControlInv'
  <2>1. waitMsg \in BOOLEAN
    BY DEF TypeOK
  <2> QED BY <1>3, <2>1 DEF StopMark, ControlInv, Alive, workerVars
<1>4. CASE StopCancel
  BY <1>4 DEF StopCancel, Cancel, ControlInv, Alive, workerVars
<1>5. CASE StopReturn
  BY <1>5 DEF StopReturn, WaitGroupDone, ControlInv, Alive, workerVars
<1>6. ASSUME NEW new \in NewCache, StartReset(new) PROVE ControlInv'
  BY <1>6 DEF StartReset, ResetCounters, ControlInv, Alive, workerVars
<1>7. ASSUME NEW w \in Workers, StartRun(w) PROVE ControlInv'
  BY <1>7 DEF StartRun, Spawn, Goto, ControlInv, Alive, TypeOK
<1>8. ASSUME NEW w \in Workers, Addoroutine(w) PROVE ControlInv'
  BY <1>8 DEF Addoroutine, Spawn, Goto, ControlInv, Alive, TypeOK
<1>9. CASE UNCHANGED vars
  BY <1>9 DEF ControlInv, Alive, vars, serverVars, workerVars
<1> QED BY <1>1, <1>2, <1>3, <1>4, <1>5, <1>6, <1>7, <1>8, <1>9 DEF Next, Control

-----------------------------------------------------------------------------
\* A message is in one place: where it is follows it through the channel and
\* into the one goroutine that received it.
LEMMA PlaceInitial == Init => PlaceInv
<1> SUFFICES ASSUME Init PROVE PlaceInv
  OBVIOUS
<1>1. \A c \in Caches : chans[c] = <<>>
  BY DEF Init
<1>2. \A w \in Workers : wpc[w] \in {"select", "none"}
  BY DEF Init
<1> QED BY <1>1, <1>2 DEF PlaceInv

LEMMA PlaceStep == TypeOK /\ PlaceInv /\ [Next]_vars => PlaceInv'
<1> SUFFICES ASSUME TypeOK, PlaceInv, [Next]_vars PROVE PlaceInv'
  OBVIOUS
<1> DEFINE Busy(w) == wpc[w] \in {"handle", "count"}
<1>a. \A c \in Caches : chans[c] \in Seq(Msgs) /\ Len(chans[c]) \in Nat
                        /\ \A i \in 1..Len(chans[c]) : chans[c][i] \in Msgs
  <2>1. \A c \in Caches : chans[c] \in Seq(Msgs)
    BY DEF TypeOK
  <2> QED BY <2>1
<1>d. \A c, d \in Caches : \A i \in 1..Len(chans[c]), j \in 1..Len(chans[d]) :
         chans[c][i] = chans[d][j] => c = d /\ i = j
  BY DEF PlaceInv
<1>b. \A w \in Workers : held[w] \in Msgs /\ (Busy(w) => where[held[w]] \in {"held", "handled"})
  BY DEF TypeOK, PlaceInv
<1>c. \A m \in Msgs : where[m] \notin {"queued"} =>
         \A c \in Caches : \A i \in 1..Len(chans[c]) : chans[c][i] # m
  BY <1>a DEF PlaceInv
<1>1. ASSUME UNCHANGED <<chans, where, held>>,
             \A w \in Workers : Busy(w)' => wpc'[w] = wpc[w]
      PROVE  PlaceInv'
  BY <1>1 DEF PlaceInv
<1>2. ASSUME UNCHANGED <<chans, wpc, held>>,
             NEW m \in Msgs, where[m] \in {"idle", "announced"},
             NEW l, where' = [where EXCEPT ![m] = l]
      PROVE  PlaceInv'
  <2>1. \A c \in Caches : \A i \in 1..Len(chans[c]) : chans[c][i] \in Msgs /\ chans[c][i] # m
    BY <1>2, <1>a, <1>c
  <2>2. \A w \in Workers : Busy(w) => held[w] # m
    BY <1>2, <1>b
  <2>3. \A n \in Msgs : n # m => where'[n] = where[n]
    BY <1>2 DEF TypeOK
  <2> QED BY <1>2, <1>b, <2>1, <2>2, <2>3 DEF PlaceInv
<1>3. ASSUME NEW m \in Msgs, Push(m) PROVE PlaceInv'
  <2> DEFINE t == target[m]
  <2>1. t \in Caches /\ chans[t] \in Seq(Msgs) /\ where[m] = "blocked"
    BY <1>3 DEF Push, TypeOK
  <2>2. chans' = [chans EXCEPT ![t] = Append(chans[t], m)]
        /\ where' = [where EXCEPT ![m] = "queued"]
        /\ UNCHANGED <<wpc, held>>
    BY <1>3 DEF Push, workerVars
  <2>3. \A c \in Caches : \A i \in 1..Len(chans[c]) : chans[c][i] \in Msgs /\ chans[c][i] # m
    BY <2>1, <1>a, <1>c
  <2>4. \A c \in Caches : \A i \in 1..Len(chans'[c]) :
           \/ i \in 1..Len(chans[c]) /\ chans'[c][i] = chans[c][i]
           \/ c = t /\ i = Len(chans[t]) + 1 /\ chans'[c][i] = m
    BY <2>1, <2>2 DEF TypeOK
  <2>5. \A c \in Caches : \A i \in 1..Len(chans'[c]) : where'[chans'[c][i]] = "queued"
    BY <2>2, <2>3, <2>4 DEF PlaceInv, TypeOK
  <2>6. \A c, d \in Caches : \A i \in 1..Len(chans'[c]), j \in 1..Len(chans'[d]) :
           chans'[c][i] = chans'[d][j] => c = d /\ i = j
    <3> SUFFICES ASSUME NEW c \in Caches, NEW d \in Caches,
                        NEW i \in 1..Len(chans'[c]), NEW j \in 1..Len(chans'[d]),
                        chans'[c][i] = chans'[d][j]
                 PROVE  c = d /\ i = j
      OBVIOUS
    <3>1. CASE i \in 1..Len(chans[c]) /\ chans'[c][i] = chans[c][i]
      <4>1. CASE j \in 1..Len(chans[d]) /\ chans'[d][j] = chans[d][j]
        <5>1. chans[c][i] = chans[d][j]
          BY <3>1, <4>1
        <5> QED BY <3>1, <4>1, <5>1, <1>d
      <4>2. CASE chans'[d][j] = m
        BY <3>1, <4>2, <2>3
      <4> QED BY <2>4, <4>1, <4>2
    <3>2. CASE c = t /\ i = Len(chans[t]) + 1 /\ chans'[c][i] = m
      BY <3>2, <2>3, <2>4
    <3> QED BY <3>1, <3>2, <2>4
  <2>7. \A w \in Workers : Busy(w) => held[w] # m
    BY <2>1, <1>b
  <2>8. \A n \in Msgs : n # m => where'[n] = where[n]
    BY <2>2 DEF TypeOK
  <2> QED BY <1>b, <2>2, <2>5, <2>6, <2>7, <2>8 DEF PlaceInv
<1>4. ASSUME NEW w \in Workers, Receive(w) PROVE PlaceInv'
  <2> DEFINE q == chans[Cache]
             h == Head(q)
  <2>0. Cache \in Caches /\ q \in Seq(Msgs) /\ q # <<>>
    BY <1>4, <1>a DEF Receive, TypeOK
  <2>1. Cache \in Caches /\ q \in Seq(Msgs) /\ q # <<>> /\ Len(q) >= 1
        /\ h = q[1] /\ h \in Msgs
    BY <2>0
  <2>2. /\ chans' = [chans EXCEPT ![Cache] = Tail(q)]
        /\ where' = [where EXCEPT ![h] = "held"]
        /\ held' = [held EXCEPT ![w] = h]
        /\ wpc' = [wpc EXCEPT ![w] = "handle"]
    BY <1>4 DEF Receive, Goto
  <2>3. \A c \in Caches : \A i \in 1..Len(chans'[c]) :
           LET k == IF c = Cache THEN i + 1 ELSE i IN
              k \in 1..Len(chans[c]) /\ chans'[c][i] = chans[c][k]
    BY <2>1, <2>2 DEF TypeOK
  <2>4. where[h] = "queued"
    BY <2>1 DEF PlaceInv
  <2>5. \A c \in Caches : \A i \in 1..Len(chans'[c]) : chans'[c][i] # h /\ chans'[c][i] \in Msgs
    <3> SUFFICES ASSUME NEW c \in Caches, NEW i \in 1..Len(chans'[c])
                 PROVE  chans'[c][i] # h /\ chans'[c][i] \in Msgs
      OBVIOUS
    <3>1. PICK k \in 1..Len(chans[c]) : chans'[c][i] = chans[c][k] /\ (c = Cache => k = i + 1)
      BY <2>3
    <3>2. Len(q) \in Nat /\ i \in Nat /\ i >= 1 /\ \A n \in 1..Len(chans[c]) : chans[c][n] \in Msgs
      <4>1. Len(chans'[c]) \in Nat
        <5>1. CASE c = Cache
          BY <5>1, <2>1, <2>2 DEF TypeOK
        <5>2. CASE c # Cache
          BY <5>2, <1>a, <2>2 DEF TypeOK
        <5> QED BY <5>1, <5>2
      <4> QED BY <1>a, <2>1, <4>1
    <3>3. 1 \in 1..Len(q) /\ ~(c = Cache /\ k = 1)
      BY <2>1, <3>1, <3>2
    <3> QED BY <2>1, <3>1, <3>2, <3>3 DEF PlaceInv
  <2>6. \A c \in Caches : \A i \in 1..Len(chans'[c]) : where'[chans'[c][i]] = "queued"
    BY <2>2, <2>3, <2>5 DEF PlaceInv, TypeOK
  <2>7. \A c, d \in Caches : \A i \in 1..Len(chans'[c]), j \in 1..Len(chans'[d]) :
           chans'[c][i] = chans'[d][j] => c = d /\ i = j
    <3> SUFFICES ASSUME NEW c \in Caches, NEW d \in Caches,
                        NEW i \in 1..Len(chans'[c]), NEW j \in 1..Len(chans'[d]),
                        chans'[c][i] = chans'[d][j]
                 PROVE  c = d /\ i = j
      OBVIOUS
    <3>1. PICK k \in 1..Len(chans[c]) : chans'[c][i] = chans[c][k]
                                       /\ k = (IF c = Cache THEN i + 1 ELSE i)
      BY <2>3
    <3>2. PICK l \in 1..Len(chans[d]) : chans'[d][j] = chans[d][l]
                                       /\ l = (IF d = Cache THEN j + 1 ELSE j)
      BY <2>3
    <3>3. c = d /\ k = l
      <4>1. chans[c][k] = chans[d][l]
        BY <3>1, <3>2
      <4> QED BY <4>1, <1>d
    <3> QED BY <3>1, <3>2, <3>3
  <2>8. \A v \in Workers : v # w /\ Busy(v) => held'[v] # h /\ held'[v] = held[v] /\ held[v] \in Msgs
    BY <1>b, <2>2, <2>4 DEF TypeOK
  <2>9. held'[w] = h /\ where'[h] = "held" /\ wpc'[w] = "handle"
    BY <2>1, <2>2 DEF TypeOK
  <2>10. \A v \in Workers : v # w => wpc'[v] = wpc[v]
    BY <2>2 DEF TypeOK
  <2>11. \A v \in Workers : /\ wpc'[v] = "handle" => where'[held'[v]] = "held"
                            /\ wpc'[v] = "count" => where'[held'[v]] = "handled"
    BY <2>2, <2>8, <2>9, <2>10 DEF PlaceInv, TypeOK
  <2>12. \A u, v \in Workers :
            (Busy(u)' /\ Busy(v)' /\ held'[u] = held'[v]) => u = v
    BY <2>8, <2>9, <2>10 DEF PlaceInv
  <2> QED BY <2>6, <2>7, <2>11, <2>12 DEF PlaceInv
<1>5. ASSUME NEW w \in Workers, DoMsg(w) PROVE PlaceInv'
  <2>1. /\ wpc[w] = "handle" /\ wpc' = [wpc EXCEPT ![w] = "count"]
        /\ where' = [where EXCEPT ![held[w]] = "handled"]
        /\ UNCHANGED <<held, chans>>
    BY <1>5 DEF DoMsg, Goto
  <2>2. where[held[w]] = "held" /\ held[w] \in Msgs
    BY <1>b, <2>1 DEF PlaceInv
  <2>3. \A c \in Caches : \A i \in 1..Len(chans[c]) : chans[c][i] \in Msgs /\ chans[c][i] # held[w]
    BY <1>a, <1>c, <2>2
  <2>4. \A v \in Workers : v # w /\ Busy(v) => held[v] # held[w]
    BY <2>1 DEF PlaceInv
  <2>5. \A v \in Workers : /\ v # w => wpc'[v] = wpc[v]
                           /\ wpc'[w] = "count" /\ where'[held[w]] = "handled"
    BY <2>1, <2>2 DEF TypeOK
  <2>6. \A v \in Workers : Busy(v)' => Busy(v)
    BY <2>1, <2>5
  <2>7. \A c \in Caches : \A i \in 1..Len(chans'[c]) : where'[chans'[c][i]] = "queued"
    BY <2>1, <2>3 DEF PlaceInv, TypeOK
  <2>8. \A v \in Workers : /\ wpc'[v] = "handle" => where'[held'[v]] = "held"
                           /\ wpc'[v] = "count" => where'[held'[v]] = "handled"
    BY <2>1, <2>4, <2>5 DEF PlaceInv, TypeOK
  <2>9. \A u, v \in Workers : (Busy(u)' /\ Busy(v)' /\ held'[u] = held'[v]) => u = v
    BY <2>1, <2>6 DEF PlaceInv
  <2>10. \A c, d \in Caches : \A i \in 1..Len(chans'[c]), j \in 1..Len(chans'[d]) :
           chans'[c][i] = chans'[d][j] => c = d /\ i = j
    BY <2>1 DEF PlaceInv
  <2> QED BY <2>7, <2>8, <2>9, <2>10 DEF PlaceInv
<1>6. ASSUME NEW w \in Workers,
             \/ CountRecv(w) \/ SeeDone(w) \/ Tick(w) \/ CheckState(w)
             \/ LoadRecv(w) \/ CompareSend(w)
      PROVE  PlaceInv'
  BY <1>1, <1>6 DEF CountRecv, SeeDone, Tick, CheckState, LeaveAtOnce, LoadRecv, CompareSend, CountersEqual, Leave, Goto,
                    TypeOK, senderVars
<1>7. ASSUME NEW m \in Msgs, Announce(m) \/ ReadCache(m) PROVE PlaceInv'
  BY <1>2, <1>7 DEF Announce, ReadCache, workerVars
<1>8. CASE Control
  BY <1>1, <1>8 DEF Control, StopMark, StopCancel, Cancel, StopReturn, WaitGroupDone, StartReset, ResetCounters, StartRun,
                    Addoroutine, Spawn, Goto, TypeOK, workerVars, senderVars
<1>9. CASE UNCHANGED vars
  BY <1>1, <1>9 DEF vars, workerVars, senderVars
<1> QED BY <1>3, <1>4, <1>5, <1>6, <1>7, <1>8, <1>9 DEF Next, Send, Run

-----------------------------------------------------------------------------
\* SendNumber and recvNumber count the announced and the counted messages: no
\* message is announced twice, and none is counted twice.
LEMMA CountInitial == Init => CountInv
  BY FS_EmptySet DEF Init, CountInv, Handled

LEMMA CountStep == TypeOK /\ ControlInv /\ PlaceInv /\ CountInv /\ [Next]_vars => CountInv'
<1> SUFFICES ASSUME TypeOK, ControlInv, PlaceInv, CountInv, [Next]_vars PROVE CountInv'
  OBVIOUS
<1>a. IsFiniteSet(sent) /\ IsFiniteSet(counted)
  BY ServerAssumption, FS_Subset DEF TypeOK
<1>1. ASSUME UNCHANGED <<SendNumber, recvNumber, sent, counted, where, held>>,
             \A w \in Workers : wpc'[w] = "count" => wpc[w] = "count",
             \A w \in Workers : wpc'[w] = "compare" => seen'[w] <= recvNumber
      PROVE  CountInv'
  BY <1>1 DEF CountInv, Handled
<1>2. ASSUME NEW m \in Msgs, where[m] # "handled", NEW l \in {"blocked", "queued"},
             where' = [where EXCEPT ![m] = l],
             UNCHANGED <<SendNumber, recvNumber, sent, counted, held, wpc, seen>>
      PROVE  CountInv'
  BY <1>2 DEF CountInv, Handled, TypeOK
<1>3. ASSUME NEW m \in Msgs, Announce(m) PROVE CountInv'
  <2>1. m \notin sent
    BY <1>3 DEF Announce, CountInv
  <2>2. Cardinality(sent \union {m}) = Cardinality(sent) + 1
    BY <1>a, <2>1, FS_AddElement
  <2>3. UNCHANGED <<recvNumber, counted, held, wpc, seen>>
        /\ SendNumber' = SendNumber + 1 /\ sent' = sent \union {m}
        /\ where' = [where EXCEPT ![m] = "announced"] /\ where[m] = "idle"
    BY <1>3 DEF Announce, workerVars
  <2>4. SendNumber' = Cardinality(sent')
    BY <2>2, <2>3 DEF CountInv
  <2>5. \A n \in Msgs : n # m => where'[n] = where[n]
    BY <2>3 DEF TypeOK
  <2>6. \A n \in sent' : where'[n] # "idle"
    BY <2>3, <2>5 DEF CountInv, TypeOK
  <2>7. counted' \subseteq Handled'
    BY <2>3, <2>5 DEF CountInv, Handled
  <2> QED BY <2>3, <2>4, <2>6, <2>7 DEF CountInv
<1>4. ASSUME NEW m \in Msgs, ReadCache(m) \/ Push(m) PROVE CountInv'
  BY <1>2, <1>4 DEF ReadCache, Push, workerVars, countVars
<1>5. ASSUME NEW w \in Workers, Receive(w) PROVE CountInv'
  <2> DEFINE h == Head(chans[Cache])
  <2>1. chans[Cache] \in Seq(Msgs) /\ chans[Cache] # <<>> /\ Cache \in Caches
    BY <1>5 DEF Receive, TypeOK
  <2>2. h \in Msgs /\ h = chans[Cache][1] /\ 1 \in 1..Len(chans[Cache])
    BY <2>1
  <2>3. where[h] = "queued"
    BY <2>1, <2>2 DEF PlaceInv
  <2>4. /\ where' = [where EXCEPT ![h] = "held"] /\ wpc' = [wpc EXCEPT ![w] = "handle"]
        /\ held' = [held EXCEPT ![w] = h]
        /\ UNCHANGED <<SendNumber, recvNumber, sent, counted, seen>>
    BY <1>5 DEF Receive, Goto, countVars
  <2>5. \A n \in Msgs : n # h => where'[n] = where[n]
    BY <2>4 DEF TypeOK
  <2>6. where'[h] = "held"
    BY <2>2, <2>4 DEF TypeOK
  <2>7. (\A m \in sent' : where'[m] # "idle") /\ counted' \subseteq Handled'
    BY <2>3, <2>4, <2>5, <2>6 DEF CountInv, Handled, TypeOK
  <2>8. \A v \in Workers : (wpc'[v] \in {"count", "compare"}) => v # w /\ wpc'[v] = wpc[v] /\ held'[v] = held[v]
    BY <2>4 DEF TypeOK
  <2> QED BY <2>4, <2>7, <2>8 DEF CountInv
<1>6. ASSUME NEW w \in Workers, DoMsg(w) PROVE CountInv'
  <2>1. /\ wpc[w] = "handle" /\ wpc' = [wpc EXCEPT ![w] = "count"]
        /\ where' = [where EXCEPT ![held[w]] = "handled"]
        /\ UNCHANGED <<held, seen, SendNumber, recvNumber, sent, counted>>
    BY <1>6 DEF DoMsg, Goto, countVars
  <2>2. where[held[w]] = "held" /\ held[w] \in Msgs
    BY <2>1 DEF PlaceInv, TypeOK
  <2>3. held[w] \notin counted
    BY <2>2 DEF CountInv, Handled
  <2>4. \A n \in Msgs : n # held[w] => where'[n] = where[n]
    BY <2>1 DEF TypeOK
  <2>5. where'[held[w]] = "handled"
    BY <2>1, <2>2 DEF TypeOK
  <2>6. (\A m \in sent' : where'[m] # "idle") /\ counted' \subseteq Handled'
    BY <2>1, <2>4, <2>5 DEF CountInv, Handled, TypeOK
  <2>7. \A v \in Workers : v # w => wpc'[v] = wpc[v]
    BY <2>1 DEF TypeOK
  <2>8. wpc'[w] = "count"
    BY <2>1 DEF TypeOK
  <2> QED BY <2>1, <2>3, <2>6, <2>7, <2>8 DEF CountInv
<1>7. ASSUME NEW w \in Workers, CountRecv(w) PROVE CountInv'
  <2>1. /\ wpc[w] = "count" /\ wpc' = [wpc EXCEPT ![w] = "check"]
        /\ recvNumber' = recvNumber + 1 /\ counted' = counted \union {held[w]}
        /\ UNCHANGED <<where, held, seen, SendNumber, sent>>
    BY <1>7 DEF CountRecv, Goto, senderVars
  <2>2. held[w] \notin counted /\ where[held[w]] = "handled" /\ held[w] \in Msgs
    BY <2>1 DEF CountInv, PlaceInv, TypeOK
  <2>3. Cardinality(counted \union {held[w]}) = Cardinality(counted) + 1
    BY <1>a, <2>2, FS_AddElement
  <2>4. recvNumber' = Cardinality(counted')
    BY <2>1, <2>3 DEF CountInv
  <2>5. counted' \subseteq Handled'
    BY <2>1, <2>2 DEF CountInv, Handled
  <2>6. \A v \in Workers : wpc'[v] \in {"count", "compare"} => v # w /\ wpc'[v] = wpc[v]
    BY <2>1 DEF TypeOK
  <2>7. \A v \in Workers : wpc'[v] = "count" => held'[v] \notin counted'
    BY <2>1, <2>6 DEF CountInv, PlaceInv
  <2>8. \A v \in Workers : wpc'[v] = "compare" => seen'[v] <= recvNumber'
    BY <2>1, <2>6 DEF CountInv, TypeOK
  <2> QED BY <2>1, <2>4, <2>5, <2>7, <2>8 DEF CountInv
<1>8. ASSUME NEW w \in Workers,
             SeeDone(w) \/ Tick(w) \/ CheckState(w) \/ LoadRecv(w) \/ CompareSend(w)
      PROVE  CountInv'
  <2>1. UNCHANGED <<SendNumber, recvNumber, sent, counted, where, held>>
    BY <1>8 DEF SeeDone, Tick, CheckState, LeaveAtOnce, LoadRecv, CompareSend, CountersEqual, senderVars, countVars
  <2>2. \A v \in Workers : wpc'[v] = "count" => wpc[v] = "count"
    BY <1>8 DEF SeeDone, Tick, CheckState, LeaveAtOnce, LoadRecv, CompareSend, CountersEqual, Leave, Goto, TypeOK
  <2>3. ASSUME NEW v \in Workers, wpc'[v] = "compare" PROVE seen'[v] <= recvNumber
    <3>1. CASE LoadRecv(w)
      <4>1. CASE v = w
        BY <3>1, <4>1 DEF LoadRecv, TypeOK
      <4>2. CASE v # w
        BY <2>3, <3>1, <4>2 DEF LoadRecv, Goto, CountInv, TypeOK
      <4> QED BY <4>1, <4>2
    <3>2. CASE SeeDone(w) \/ Tick(w) \/ CheckState(w) \/ CompareSend(w)
      <4>1. wpc[v] = "compare" /\ UNCHANGED seen
        BY <2>3, <3>2 DEF SeeDone, Tick, CheckState, LeaveAtOnce, CompareSend, CountersEqual, Leave, Goto, TypeOK
      <4> QED BY <4>1 DEF CountInv
    <3> QED BY <1>8, <3>1, <3>2
  <2> QED BY <1>1, <2>1, <2>2, <2>3
<1>9. ASSUME NEW new \in NewCache, StartReset(new) PROVE CountInv'
  <2>1. /\ SendNumber' = 0 /\ sent' = {} /\ recvNumber' = 0 /\ counted' = {}
        /\ UNCHANGED <<wpc, seen, held, where>> /\ state = "stop"
    BY <1>9 DEF StartReset, ResetCounters, workerVars, senderVars
  <2>2. \A w \in Workers : wpc[w] = "none"
    BY <2>1 DEF ControlInv, Alive
  <2> QED BY <2>1, <2>2, FS_EmptySet DEF CountInv
<1>10. ASSUME NEW w \in Workers, StartRun(w) \/ Addoroutine(w) PROVE CountInv'
  <2>1. UNCHANGED <<SendNumber, recvNumber, sent, counted, where, held, seen>>
    BY <1>10 DEF StartRun, Addoroutine, Spawn, senderVars, countVars
  <2>2. \A v \in Workers : wpc'[v] \in {"count", "compare"} => wpc'[v] = wpc[v]
    BY <1>10 DEF StartRun, Addoroutine, Spawn, Goto, TypeOK
  <2> QED BY <2>1, <2>2 DEF CountInv, Handled
<1>11. CASE (\E wait \in BOOLEAN : StopMark(wait)) \/ StopCancel \/ StopReturn \/ UNCHANGED vars
  BY <1>11 DEF StopMark, StopCancel, Cancel, StopReturn, WaitGroupDone, vars, workerVars, senderVars, countVars,
               CountInv, Handled
<1> QED BY <1>3, <1>4, <1>5, <1>6, <1>7, <1>8, <1>9, <1>10, <1>11 DEF Next, Send, Run, Control

-----------------------------------------------------------------------------
\* A server that was started with nothing left over never sees a message it
\* has not been told of: channel, goroutines and blocked senders hold only
\* messages announced since.
LEMMA CleanInitial == Init => CleanInv
<1> SUFFICES ASSUME Init PROVE CleanInv
  OBVIOUS
<1>1. /\ \A c \in Caches : chans[c] = <<>>
      /\ \A w \in Workers : wpc[w] \in {"select", "none"}
      /\ \A m \in Msgs : where[m] = "idle"
      /\ Cache \in Caches /\ counted = {} /\ sent = {} /\ ctl = "free"
  BY ServerAssumption DEF Init
<1> QED BY <1>1 DEF CleanInv, InFlight

LEMMA CleanStep ==
  TypeOK /\ ControlInv /\ PlaceInv /\ CleanInv /\ [Next]_vars => CleanInv'
<1> SUFFICES ASSUME TypeOK, ControlInv, PlaceInv, CleanInv, [Next]_vars PROVE CleanInv'
  OBVIOUS
<1>a. \A c \in Caches : chans[c] \in Seq(Msgs)
  BY DEF TypeOK
<1>b. Cache \in Caches /\ Cache \in Nat /\ MaxCaches \in Nat
  BY ServerAssumption DEF TypeOK
<1>1. ASSUME UNCHANGED <<ctl, isNew, Cache, clean, chans, where, target, held, sent, counted>>,
             \A w \in Workers : wpc'[w] \in {"handle", "count"} => wpc[w] \in {"handle", "count"}
      PROVE  CleanInv'
  BY <1>1 DEF CleanInv, InFlight
<1>2. ASSUME NEW m \in Msgs, Announce(m) PROVE CleanInv'
  <2>1. /\ where' = [where EXCEPT ![m] = "announced"] /\ sent' = sent \union {m}
        /\ UNCHANGED <<ctl, isNew, Cache, clean, chans, target, held, counted, wpc>>
    BY <1>2 DEF Announce, serverVars, workerVars
  <2>2. \A n \in Msgs : n # m => where'[n] = where[n]
    BY <2>1 DEF TypeOK
  <2>3. where'[m] = "announced"
    BY <2>1 DEF TypeOK
  <2> QED BY <2>1, <2>2, <2>3 DEF CleanInv, InFlight
<1>3. ASSUME NEW m \in Msgs, ReadCache(m) PROVE CleanInv'
  <2>1. /\ where' = [where EXCEPT ![m] = "blocked"] /\ target' = [target EXCEPT ![m] = Cache]
        /\ where[m] = "announced"
        /\ UNCHANGED <<ctl, isNew, Cache, clean, chans, held, sent, counted, wpc>>
    BY <1>3 DEF ReadCache, serverVars, workerVars, countVars
  <2>2. \A n \in Msgs : n # m => where'[n] = where[n] /\ target'[n] = target[n]
    BY <2>1 DEF TypeOK
  <2>3. target'[m] = Cache
    BY <2>1 DEF TypeOK
  <2>4. \A n \in Msgs : where'[n] = "blocked" => target'[n] <= Cache
    BY <1>b, <2>2, <2>3 DEF CleanInv
  <2>5. InFlight' \subseteq InFlight
    BY <2>1, <2>2 DEF InFlight
  <2> QED BY <2>1, <2>4, <2>5 DEF CleanInv
<1>4. ASSUME NEW m \in Msgs, Push(m) PROVE CleanInv'
  <2> DEFINE t == target[m]
  <2>1. /\ where' = [where EXCEPT ![m] = "queued"] /\ where[m] = "blocked"
        /\ chans' = [chans EXCEPT ![t] = Append(chans[t], m)]
        /\ UNCHANGED <<ctl, isNew, Cache, clean, target, held, sent, counted, wpc>>
    BY <1>4 DEF Push, serverVars, workerVars, countVars
  <2>2. t \in Caches /\ t <= Cache
    BY <2>1 DEF CleanInv, TypeOK
  <2>3. \A n \in Msgs : n # m => where'[n] = where[n]
    BY <2>1 DEF TypeOK
  <2>4. where'[m] = "queued"
    BY <2>1 DEF TypeOK
  <2>5. InFlight' \subseteq InFlight /\ m \in InFlight
    BY <2>1, <2>3, <2>4 DEF InFlight
  <2>6. \A c \in Caches : c > Cache => chans'[c] = <<>>
    <3>1. \A c \in Caches : c > Cache => c # t
      BY <1>b, <2>2
    <3> QED BY <2>1, <3>1 DEF CleanInv, TypeOK
  <2>7. \A i \in 1..Len(chans'[Cache]) :
           (i \in 1..Len(chans[Cache]) /\ chans'[Cache][i] = chans[Cache][i]) \/ chans'[Cache][i] = m
    <3>1. CASE t = Cache
      <4>1. chans[Cache] \in Seq(Msgs) /\ chans'[Cache] = Append(chans[Cache], m)
        BY <1>a, <1>b, <2>1, <3>1 DEF TypeOK
      <4> QED BY <4>1
    <3>2. CASE t # Cache
      BY <1>b, <2>1, <3>2 DEF TypeOK
    <3> QED BY <3>1, <3>2
  <2>8. \A n \in Msgs : where'[n] = "blocked" => target'[n] <= Cache
    BY <2>1, <2>3, <2>4 DEF CleanInv
  <2> QED BY <2>1, <2>5, <2>6, <2>7, <2>8 DEF CleanInv
<1>5. ASSUME NEW w \in Workers, Receive(w) PROVE CleanInv'
  <2> DEFINE h == Head(chans[Cache])
  <2>1. /\ where' = [where EXCEPT ![h] = "held"] /\ wpc' = [wpc EXCEPT ![w] = "handle"]
        /\ held' = [held EXCEPT ![w] = h] /\ chans' = [chans EXCEPT ![Cache] = Tail(chans[Cache])]
        /\ UNCHANGED <<ctl, isNew, Cache, clean, target, sent, counted>>
        /\ chans[Cache] # <<>> /\ wpc[w] = "select"
    BY <1>5 DEF Receive, Goto, serverVars, countVars
  <2>2. h = chans[Cache][1] /\ 1 \in 1..Len(chans[Cache]) /\ h \in Msgs
    BY <1>a, <1>b, <2>1
  <2>3. ctl # "starting"
    BY <2>1 DEF ControlInv, Alive
  <2>4. clean => h \in sent
    BY <2>2, <2>3 DEF CleanInv
  <2>5. \A i \in 1..Len(chans'[Cache]) :
           i + 1 \in 1..Len(chans[Cache]) /\ chans'[Cache][i] = chans[Cache][i + 1]
    BY <1>a, <1>b, <2>1 DEF TypeOK
  <2>6. \A c \in Caches : c # Cache => chans'[c] = chans[c]
    BY <2>1 DEF TypeOK
  <2>7. \A c \in Caches : c > Cache => chans'[c] = <<>>
    BY <1>b, <2>6 DEF CleanInv
  <2>8. \A n \in Msgs : n # h => where'[n] = where[n]
    BY <2>1 DEF TypeOK
  <2>9. where'[h] = "held"
    BY <2>1, <2>2 DEF TypeOK
  <2>10. InFlight' \subseteq InFlight /\ \A n \in Msgs : where'[n] = "blocked" => where[n] = "blocked"
    BY <2>8, <2>9 DEF InFlight
  <2>11. \A v \in Workers : v # w => wpc'[v] = wpc[v] /\ held'[v] = held[v]
    BY <2>1 DEF TypeOK
  <2>12. held'[w] = h
    BY <2>1 DEF TypeOK
  <2>13. clean => \A v \in Workers : wpc'[v] \in {"handle", "count"} => held'[v] \in sent
    BY <2>4, <2>11, <2>12 DEF CleanInv
  <2>14. clean => \A i \in 1..Len(chans'[Cache]) : chans'[Cache][i] \in sent
    BY <2>3, <2>5 DEF CleanInv
  <2> QED BY <2>1, <2>3, <2>7, <2>10, <2>13, <2>14 DEF CleanInv
<1>6. ASSUME NEW w \in Workers, DoMsg(w) PROVE CleanInv'
  <2>1. /\ where' = [where EXCEPT ![held[w]] = "handled"] /\ wpc' = [wpc EXCEPT ![w] = "count"]
        /\ wpc[w] = "handle"
        /\ UNCHANGED <<ctl, isNew, Cache, clean, chans, target, held, sent, counted>>
    BY <1>6 DEF DoMsg, Goto, serverVars, countVars
  <2>2. \A v \in Workers : wpc'[v] \in {"handle", "count"} => wpc[v] \in {"handle", "count"}
    BY <2>1 DEF TypeOK
  <2>3. InFlight' \subseteq InFlight /\ \A n \in Msgs : where'[n] = "blocked" => where[n] = "blocked"
    BY <2>1 DEF InFlight, TypeOK
  <2> QED BY <2>1, <2>2, <2>3 DEF CleanInv
<1>7. ASSUME NEW w \in Workers, CountRecv(w) PROVE CleanInv'
  <2>1. /\ wpc[w] = "count" /\ wpc' = [wpc EXCEPT ![w] = "check"] /\ counted' = counted \union {held[w]}
        /\ UNCHANGED <<ctl, isNew, Cache, clean, chans, where, target, held, sent>>
    BY <1>7 DEF CountRecv, Goto, serverVars, senderVars
  <2>2. \A v \in Workers : wpc'[v] \in {"handle", "count"} => wpc[v] \in {"handle", "count"}
    BY <2>1 DEF TypeOK
  <2>3. clean => held[w] \in sent
    BY <2>1 DEF CleanInv
  <2> QED BY <2>1, <2>2, <2>3 DEF CleanInv, InFlight
<1>8. ASSUME NEW w \in Workers,
             SeeDone(w) \/ Tick(w) \/ CheckState(w) \/ LoadRecv(w) \/ CompareSend(w)
      PROVE  CleanInv'
  <2>1. UNCHANGED <<ctl, isNew, Cache, clean, chans, where, target, held, sent, counted>>
    BY <1>8 DEF SeeDone, Tick, CheckState, LeaveAtOnce, LoadRecv, CompareSend, CountersEqual, serverVars, senderVars, countVars
  <2>2. \A v \in Workers : wpc'[v] \in {"handle", "count"} => wpc[v] \in {"handle", "count"}
    BY <1>8 DEF SeeDone, Tick, CheckState, LeaveAtOnce, LoadRecv, CompareSend, CountersEqual, Leave, Goto, TypeOK
  <2> QED BY <1>1, <2>1, <2>2
<1>9. ASSUME NEW new \in NewCache, StartReset(new) PROVE CleanInv'
  <2>1. /\ state = "stop" /\ ctl' = "starting" /\ isNew' = new
        /\ clean' = (InFlight = {} /\ (new \/ chans[Cache] = <<>>))
        /\ sent' = {} /\ counted' = {} /\ (new => Cache < MaxCaches)
        /\ UNCHANGED <<Cache, chans, where, target, held, wpc>>
    BY <1>9 DEF StartReset, ResetCounters, workerVars, senderVars
  <2>2. \A v \in Workers : wpc[v] = "none"
    BY <2>1 DEF ControlInv, Alive
  <2>3. InFlight' = InFlight
    BY <2>1 DEF InFlight
  <2>4. clean' => \/ isNew'
                  \/ \A i \in 1..Len(chans'[Cache']) : chans'[Cache'][i] \in sent'
    <3>1. clean' => new \/ chans'[Cache'] = <<>>
      BY <2>1
    <3>2. chans'[Cache'] = <<>> => \A i \in 1..Len(chans'[Cache']) : chans'[Cache'][i] \in sent'
      OBVIOUS
    <3> QED BY <2>1, <3>1, <3>2
  <2> QED BY <2>1, <2>2, <2>3, <2>4 DEF CleanInv
<1>10. ASSUME NEW w \in Workers, StartRun(w) PROVE CleanInv'
  <2>1. /\ ctl = "starting" /\ ctl' = "free" /\ wpc' = [wpc EXCEPT ![w] = "select"]
        /\ Cache' = (IF isNew THEN Cache + 1 ELSE Cache)
        /\ UNCHANGED <<isNew, clean, chans, where, target, held, sent, counted>>
    BY <1>10 DEF StartRun, Spawn, Goto, senderVars, countVars
  <2>2. \A v \in Workers : wpc'[v] \in {"handle", "count"} => wpc[v] \in {"handle", "count"}
    BY <2>1 DEF TypeOK
  <2>3. Cache' \in Caches /\ Cache' >= Cache
    BY <1>b, <2>1 DEF CleanInv
  <2>4. \A c \in Caches : c > Cache' => chans'[c] = <<>>
    BY <1>b, <2>1, <2>3 DEF CleanInv
  <2>5. \A m \in Msgs : where'[m] = "blocked" => target'[m] <= Cache'
    <3>1. \A m \in Msgs : target[m] \in Caches
      BY DEF TypeOK
    <3> QED BY <1>b, <2>1, <2>3, <3>1 DEF CleanInv
  <2>6. clean => \A i \in 1..Len(chans'[Cache']) : chans'[Cache'][i] \in sent'
    <3>1. CASE isNew
      <4>1. chans[Cache'] = <<>>
        BY <1>b, <2>1, <2>3, <3>1 DEF CleanInv
      <4> QED BY <2>1, <4>1
    <3>2. CASE ~isNew
      BY <2>1, <3>2 DEF CleanInv
    <3> QED BY <3>1, <3>2
  <2>7. InFlight' = InFlight
    BY <2>1 DEF InFlight
  <2> QED BY <2>1, <2>2, <2>4, <2>5, <2>6, <2>7 DEF CleanInv
<1>11. ASSUME NEW w \in Workers, Addoroutine(w) PROVE CleanInv'
  <2>1. UNCHANGED <<ctl, isNew, Cache, clean, chans, where, target, held, sent, counted>>
    BY <1>11 DEF Addoroutine, Spawn, senderVars, countVars
  <2>2. \A v \in Workers : wpc'[v] \in {"handle", "count"} => wpc[v] \in {"handle", "count"}
    BY <1>11 DEF Addoroutine, Spawn, Goto, TypeOK
  <2> QED BY <1>1, <2>1, <2>2
<1>12. CASE (\E wait \in BOOLEAN : StopMark(wait)) \/ StopCancel \/ StopReturn
  <2>1. /\ UNCHANGED <<isNew, Cache, clean, chans, where, target, held, sent, counted, wpc>>
        /\ ctl # "starting" /\ ctl' # "starting"
    <3>1. ASSUME NEW wait \in BOOLEAN, StopMark(wait)
          PROVE  /\ UNCHANGED <<isNew, Cache, clean, chans, where, target, held, sent, counted, wpc>>
                 /\ ctl # "starting" /\ ctl' # "starting"
      BY <3>1 DEF StopMark, workerVars, senderVars, countVars
    <3> QED BY <1>12, <3>1 DEF StopCancel, Cancel, StopReturn, WaitGroupDone, workerVars, senderVars, countVars
  <2>2. InFlight' = InFlight
    BY <2>1 DEF InFlight
  <2> QED BY <2>1, <2>2 DEF CleanInv
<1>13. CASE UNCHANGED vars
  BY <1>1, <1>13 DEF vars, serverVars, workerVars, senderVars, countVars
<1> QED BY <1>2, <1>3, <1>4, <1>5, <1>6, <1>7, <1>8, <1>9, <1>10, <1>11, <1>12, <1>13
        DEF Next, Send, Run, Control

-----------------------------------------------------------------------------
\* A goroutine that compares equal counters in a clean server has seen every
\* announced message handled: the counters are sizes of sets, one of which
\* contains the other.
LEMMA EqualCounters ==
  ASSUME TypeOK, CountInv, CleanInv, clean,
         NEW w \in Workers, wpc[w] = "compare", seen[w] = SendNumber
  PROVE  sent = counted /\ sent \subseteq Handled
<1>1. IsFiniteSet(sent) /\ counted \subseteq sent
  BY ServerAssumption, FS_Subset DEF TypeOK, CleanInv
<1>2. Cardinality(sent) <= Cardinality(counted)
  BY DEF CountInv
<1>3. Cardinality(counted) \in Nat /\ Cardinality(sent) \in Nat
  BY <1>1, FS_Subset, FS_CardinalityType
<1>4. counted = sent
  BY <1>1, <1>2, <1>3, FS_Subset
<1> QED BY <1>4 DEF CountInv

\* What a waiting Stop owes is paid by the time no goroutine is left.
LEMMA DueInitial == Init => DueInv
  BY ServerAssumption DEF Init, DueInv

LEMMA DueStep ==
  TypeOK /\ ControlInv /\ PlaceInv /\ CountInv /\ CleanInv /\ DueInv /\ [Next]_vars => DueInv'
<1> SUFFICES ASSUME TypeOK, ControlInv, PlaceInv, CountInv, CleanInv, DueInv, [Next]_vars
             PROVE  DueInv'
  OBVIOUS
<1>a. ASSUME \A m \in Msgs : where[m] = "handled" => where'[m] = "handled"
      PROVE  Handled \subseteq Handled'
  BY <1>a DEF Handled
<1>1. ASSUME UNCHANGED <<state, due, stopArg, clean>>, sent \subseteq sent', Handled \subseteq Handled',
             Alive' = {} => Alive = {}
      PROVE  DueInv'
  BY <1>1 DEF DueInv
<1>2. ASSUME NEW m \in Msgs, Send(m) PROVE DueInv'
  <2>1. /\ UNCHANGED <<state, due, stopArg, clean, wpc>> /\ sent \subseteq sent'
        /\ where[m] # "handled" /\ \E l : where' = [where EXCEPT ![m] = l]
    BY <1>2 DEF Send, Announce, ReadCache, Push, serverVars, workerVars, countVars
  <2>2. Handled \subseteq Handled'
    BY <1>a, <2>1 DEF TypeOK
  <2> QED BY <1>1, <2>1, <2>2 DEF Alive
<1>3. ASSUME NEW w \in Workers, Receive(w) \/ DoMsg(w) \/ CountRecv(w) \/ SeeDone(w)
                                \/ Tick(w) \/ LoadRecv(w)
      PROVE  DueInv'
  <2>1. UNCHANGED <<state, due, stopArg, clean, sent>>
    BY <1>3 DEF Receive, DoMsg, CountRecv, SeeDone, Tick, LoadRecv, serverVars, countVars
  <2>2. wpc'[w] # "none"
    BY <1>3 DEF Receive, DoMsg, CountRecv, SeeDone, Tick, LoadRecv, Goto, TypeOK
  <2>3. Handled \subseteq Handled'
    <3>1. CASE Receive(w)
      <4> DEFINE h == Head(chans[Cache])
      <4>1. Cache \in Caches /\ chans[Cache] \in Seq(Msgs) /\ chans[Cache] # <<>>
        BY <3>1 DEF Receive, TypeOK
      <4>2. h = chans[Cache][1] /\ 1 \in 1..Len(chans[Cache])
        BY <4>1
      <4>3. where[h] = "queued"
        BY <4>1, <4>2 DEF PlaceInv
      <4>4. where' = [where EXCEPT ![h] = "held"]
        BY <3>1 DEF Receive
      <4> QED BY <1>a, <4>3, <4>4 DEF TypeOK
    <3>2. CASE DoMsg(w)
      BY <1>a, <3>2 DEF DoMsg, TypeOK
    <3>3. CASE CountRecv(w) \/ SeeDone(w) \/ Tick(w) \/ LoadRecv(w)
      BY <1>a, <3>3 DEF CountRecv, SeeDone, Tick, LoadRecv, senderVars
    <3> QED BY <1>3, <3>1, <3>2, <3>3
  <2> QED BY <1>1, <2>1, <2>2, <2>3 DEF Alive
<1>4. ASSUME NEW w \in Workers, CheckState(w) PROVE DueInv'
  <2>1. UNCHANGED <<state, due, stopArg, clean, sent, where, waitMsg>>
    BY <1>4 DEF CheckState, LeaveAtOnce, serverVars, senderVars, countVars
  <2>2. CASE state # "stopping"
    <3>1. wpc'[w] # "none"
      BY <1>4, <2>2 DEF CheckState, LeaveAtOnce, Goto, TypeOK
    <3> QED BY <1>1, <1>a, <2>1, <3>1 DEF Alive
  <2>3. CASE state = "stopping"
    <3>1. ~waitMsg
      BY <1>4, <2>3 DEF CheckState, LeaveAtOnce
    <3>2. due = {}
      BY <2>3, <3>1 DEF ControlInv, DueInv
    <3> QED BY <2>1, <2>3, <3>2 DEF DueInv
  <2> QED BY <2>2, <2>3
<1>5. ASSUME NEW w \in Workers, CompareSend(w) PROVE DueInv'
  <2>1. UNCHANGED <<state, due, stopArg, clean, sent, where>> /\ wpc[w] = "compare"
    BY <1>5 DEF CompareSend, CountersEqual, serverVars, senderVars, countVars
  <2>2. CASE seen[w] # SendNumber
    <3>1. wpc'[w] # "none"
      BY <1>5, <2>2 DEF CompareSend, CountersEqual, Goto, TypeOK
    <3> QED BY <1>1, <1>a, <2>1, <3>1 DEF Alive
  <2>3. CASE seen[w] = SendNumber
    <3>1. state = "stopping"
      BY <2>1 DEF ControlInv
    <3>2. due \subseteq Handled
      BY <2>1, <2>3, <3>1, EqualCounters DEF DueInv
    <3>3. Handled' = Handled
      BY <2>1 DEF Handled
    <3> QED BY <2>1, <3>1, <3>2, <3>3 DEF DueInv
  <2> QED BY <2>2, <2>3
<1>6. ASSUME NEW wait \in BOOLEAN, StopMark(wait) PROVE DueInv'
  <2>1. /\ state = "start" /\ ctl = "free" /\ state' = "stopping" /\ stopArg' = wait
        /\ due' = (IF wait /\ clean THEN sent ELSE {})
        /\ UNCHANGED <<clean, sent, wpc>>
    BY <1>6 DEF StopMark, workerVars, countVars
  <2>2. Alive' # {}
    BY <2>1 DEF ControlInv, Alive
  <2> QED BY <2>1, <2>2 DEF DueInv
<1>7. CASE StopCancel
  BY <1>7, <1>1 DEF StopCancel, Cancel, Alive, Handled, workerVars, senderVars, countVars
<1>8. CASE StopReturn
  <2>1. state = "stopping" /\ Alive = {} /\ state' = "stop" /\ UNCHANGED <<due, wpc, where>>
    BY <1>8 DEF StopReturn, WaitGroupDone, ControlInv, TypeOK, workerVars, senderVars
  <2> QED BY <2>1 DEF DueInv, Alive, Handled
<1>9. ASSUME NEW new \in NewCache, StartReset(new) PROVE DueInv'
  BY <1>9 DEF StartReset, ResetCounters, DueInv
<1>10. ASSUME NEW w \in Workers, StartRun(w) \/ Addoroutine(w) PROVE DueInv'
  <2>1. state = "start" /\ state' = "start"
    BY <1>10 DEF StartRun, Addoroutine, ControlInv, TypeOK
  <2> QED BY <2>1 DEF DueInv
<1>11. CASE UNCHANGED vars
  BY <1>11, <1>1 DEF vars, serverVars, workerVars, senderVars, countVars, Alive, Handled
<1> QED BY <1>2, <1>3, <1>4, <1>5, <1>6, <1>7, <1>8, <1>9, <1>10, <1>11 DEF Next, Run, Control

-----------------------------------------------------------------------------
\* The inductive invariant of the rpc server holds in every reachable state.
THEOREM Invariance == Spec => []IInv
<1>1. Init => IInv
  BY TypeInitial, ControlInitial, PlaceInitial, CountInitial, CleanInitial, DueInitial DEF IInv
<1>2. IInv /\ [Next]_vars => IInv'
  BY TypeStep, ControlStep, PlaceStep, CountStep, CleanStep, DueStep DEF IInv
<1> QED BY <1>1, <1>2, PTL DEF Spec

\* Every variable of the rpc server keeps its type.
THEOREM TypeCorrect == Spec => []TypeOK
<1>1. IInv => TypeOK
  BY DEF IInv
<1> QED BY <1>1, Invariance, PTL

\* Stop(true), server.go:141-157, returns from a server started with nothing
\* left over only when all that was announced before it has been handled.
THEOREM StopDrains == Spec => []DrainOnStop
<1>1. IInv => DrainOnStop
  BY DEF IInv, DrainOnStop, ControlInv, DueInv
<1> QED BY <1>1, Invariance, PTL

\* In a server started with nothing left over the counters isStopping compares
\* (server.go:172) never cross.
THEOREM CountersNeverCross == Spec => []CountersOrdered
<1>1. ASSUME IInv PROVE CountersOrdered
  <2>1. IsFiniteSet(sent)
    BY <1>1, ServerAssumption, FS_Subset DEF IInv, TypeOK
  <2>2. clean => counted \subseteq sent
    BY <1>1 DEF IInv, CleanInv
  <2>3. clean => Cardinality(counted) <= Cardinality(sent)
    BY <2>1, <2>2, FS_Subset
  <2> QED BY <1>1, <2>3 DEF IInv, CountInv, CountersOrdered
<1> QED BY <1>1, Invariance, PTL

\* A goroutine that waits for messages leaves only when all are handled
\* (server.go:170-175).
THEOREM NobodyLeavesEarly == Spec => LeaveDrained
<1>1. ASSUME IInv, [Next]_vars, NEW w \in Workers,
             wpc[w] # "none", wpc'[w] = "none", waitMsg, clean
      PROVE  sent \subseteq Handled
  <2> USE <1>1 DEF IInv
  <2>1. ASSUME NEW v \in Workers, \/ Receive(v) \/ DoMsg(v) \/ CountRecv(v) \/ SeeDone(v)
                                  \/ Tick(v) \/ CheckState(v) \/ LoadRecv(v)
        PROVE  FALSE
    BY <2>1 DEF Receive, DoMsg, CountRecv, SeeDone, Tick, CheckState, LeaveAtOnce, LoadRecv, Leave, Goto, TypeOK
  <2>2. ASSUME NEW v \in Workers, CompareSend(v) PROVE sent \subseteq Handled
    <3>1. v = w /\ seen[w] = SendNumber /\ wpc[w] = "compare"
      BY <2>2 DEF CompareSend, CountersEqual, Leave, Goto, TypeOK
    <3> QED BY <3>1, EqualCounters
  <2>3. ASSUME NEW v \in Workers, StartRun(v) \/ Addoroutine(v) PROVE FALSE
    BY <2>3 DEF StartRun, Addoroutine, Spawn, Goto, TypeOK
  <2>4. ASSUME NEW m \in Msgs, Send(m) PROVE FALSE
    BY <2>4 DEF Send, Announce, ReadCache, Push, workerVars
  <2>5. CASE \/ \E wait \in BOOLEAN : StopMark(wait)
             \/ StopCancel \/ StopReturn
             \/ \E new \in NewCache : StartReset(new)
             \/ UNCHANGED vars
    BY <2>5 DEF StopMark, StopCancel, Cancel, StopReturn, WaitGroupDone, StartReset, ResetCounters, vars, workerVars
  <2> QED BY <2>1, <2>2, <2>3, <2>4, <2>5 DEF Next, Run, Control
<1>2. IInv /\ [Next]_vars =>
        [\A w \in Workers : (wpc[w] # "none" /\ wpc'[w] = "none" /\ waitMsg /\ clean)
                               => sent \subseteq Handled]_vars
  BY <1>1
<1> QED BY <1>2, Invariance, PTL DEF Spec, LeaveDrained

-----------------------------------------------------------------------------
\* The wait group: goroutines are counted when they are made, and a new count
\* starts only when the old goroutines are gone (server.go:105-134, 153).
THEOREM GoroutinesCounted == Spec => []GoroutinesBounded
<1> DEFINE Bounded == IsFiniteSet(Alive) /\ Cardinality(Alive) <= goroutineNumber
<1>1. Init => Bounded
  <2> SUFFICES ASSUME Init PROVE Bounded
    OBVIOUS
  <2>1. PICK first \in Workers :
           wpc = [w \in Workers |-> IF w = first THEN "select" ELSE "none"]
    BY DEF Init
  <2>2. Alive = {first}
    BY <2>1 DEF Alive
  <2>3. IsFiniteSet(Alive) /\ Cardinality(Alive) = 1
    BY <2>2, FS_Singleton
  <2>4. goroutineNumber = 1
    BY DEF Init
  <2> QED BY <2>3, <2>4
<1>2. IInv /\ Bounded /\ [Next]_vars => Bounded'
  <2> SUFFICES ASSUME IInv, Bounded, [Next]_vars PROVE Bounded'
    OBVIOUS
  <2> USE DEF IInv
  <2>a. Cardinality(Alive) \in Nat
    BY FS_CardinalityType
  <2>1. ASSUME Alive' \subseteq Alive, goroutineNumber' = goroutineNumber PROVE Bounded'
    <3>1. IsFiniteSet(Alive') /\ Cardinality(Alive') <= Cardinality(Alive)
      BY <2>1, FS_Subset
    <3>2. Cardinality(Alive') \in Nat
      BY <3>1, FS_CardinalityType
    <3> QED BY <2>1, <2>a, <3>1, <3>2 DEF TypeOK
  <2>2. ASSUME NEW w \in Workers, Run(w) PROVE Bounded'
    <3>1. Alive' \subseteq Alive
      BY <2>2 DEF Run, Receive, DoMsg, CountRecv, SeeDone, Tick, CheckState, LeaveAtOnce, LoadRecv,
                  CompareSend, CountersEqual, Leave, Goto, Alive, TypeOK
    <3>2. goroutineNumber' = goroutineNumber
      BY <2>2 DEF Run, Receive, DoMsg, CountRecv, SeeDone, Tick, CheckState, LeaveAtOnce, LoadRecv,
                  CompareSend, CountersEqual, serverVars
    <3> QED BY <2>1, <3>1, <3>2
  <2>3. ASSUME NEW w \in Workers, StartRun(w) \/ Addoroutine(w) PROVE Bounded'
    <3>1. wpc[w] = "none" /\ wpc' = [wpc EXCEPT ![w] = "select"]
          /\ goroutineNumber' = goroutineNumber + 1
      BY <2>3 DEF StartRun, Addoroutine, Spawn, Goto
    <3>2. Alive' = Alive \union {w} /\ w \notin Alive
      BY <3>1 DEF Alive, TypeOK
    <3>3. IsFiniteSet(Alive') /\ Cardinality(Alive') = Cardinality(Alive) + 1
      BY <3>2, FS_AddElement
    <3> QED BY <2>a, <3>1, <3>3 DEF TypeOK
  <2>4. ASSUME NEW new \in NewCache, StartReset(new) PROVE Bounded'
    <3>1. Alive' = {} /\ goroutineNumber' = 0
      BY <2>4 DEF StartReset, ResetCounters, workerVars, ControlInv, Alive
    <3> QED BY <3>1, FS_EmptySet
  <2>5. CASE \/ \E m \in Msgs : Send(m)
             \/ \E wait \in BOOLEAN : StopMark(wait)
             \/ StopCancel \/ StopReturn \/ UNCHANGED vars
    <3>1. UNCHANGED <<wpc, goroutineNumber>>
      BY <2>5 DEF Send, Announce, ReadCache, Push, StopMark, StopCancel, Cancel, StopReturn, WaitGroupDone, vars,
                  serverVars, workerVars
    <3> QED BY <2>1, <3>1 DEF Alive
  <2> QED BY <2>2, <2>3, <2>4, <2>5 DEF Next, Control
<1>3. IInv /\ Bounded => GoroutinesBounded
  BY DEF IInv, ControlInv, GoroutinesBounded
<1> QED BY <1>1, <1>2, <1>3, Invariance, PTL DEF Spec

-----------------------------------------------------------------------------
\* The server implements the abstract mailbox: Send is Accept, the end of a
\* handler is Perform, Stop is BeginStop and EndStop, Start is Restart, and
\* every step of counters, channel and goroutines is invisible.
THEOREM MailboxRefined == Spec => ImplementsMailbox
<1> DEFINE Accepted == {m \in Msgs : where[m] # "idle"}
<1>1. Init => Mailbox!Init
  BY DEF Init, Mailbox!Init, Handled
<1>2. ASSUME IInv, [Next]_vars PROVE [Mailbox!Next]_(Mailbox!vars)
  <2> USE <1>2 DEF IInv
  <2>a. ASSUME UNCHANGED <<state, clean, due, sent>>,
               Handled' = Handled, Accepted' = Accepted
        PROVE  UNCHANGED Mailbox!vars
    BY <2>a DEF Mailbox!vars
  <2>1. ASSUME NEW m \in Msgs, Announce(m) PROVE Mailbox!Accept(m)
    <3>1. /\ where[m] = "idle" /\ where' = [where EXCEPT ![m] = "announced"]
          /\ sent' = sent \union {m} /\ UNCHANGED <<state, clean, due>>
      BY <2>1 DEF Announce, serverVars
    <3>2. Handled' = Handled /\ Accepted' = Accepted \union {m} /\ m \notin Accepted
      BY <3>1 DEF Handled, TypeOK
    <3> QED BY <3>1, <3>2 DEF Mailbox!Accept
  <2>2. ASSUME NEW m \in Msgs, ReadCache(m) \/ Push(m) PROVE UNCHANGED Mailbox!vars
    <3>1. /\ where[m] \in {"announced", "blocked"}
          /\ \E l \in {"blocked", "queued"} : where' = [where EXCEPT ![m] = l]
          /\ UNCHANGED <<state, clean, due, sent>>
      BY <2>2 DEF ReadCache, Push, serverVars, countVars
    <3>2. Handled' = Handled /\ Accepted' = Accepted
      BY <3>1 DEF Handled, TypeOK
    <3> QED BY <2>a, <3>1, <3>2
  <2>3. ASSUME NEW w \in Workers, Receive(w) PROVE UNCHANGED Mailbox!vars
    <3> DEFINE h == Head(chans[Cache])
    <3>1. Cache \in Caches /\ chans[Cache] \in Seq(Msgs) /\ chans[Cache] # <<>>
      BY <2>3 DEF Receive, TypeOK
    <3>2. h = chans[Cache][1] /\ 1 \in 1..Len(chans[Cache]) /\ h \in Msgs
      BY <3>1
    <3>3. where[h] = "queued"
      BY <3>1, <3>2 DEF PlaceInv
    <3>4. where' = [where EXCEPT ![h] = "held"] /\ UNCHANGED <<state, clean, due, sent>>
      BY <2>3 DEF Receive, serverVars, countVars
    <3>5. Handled' = Handled /\ Accepted' = Accepted
      BY <3>2, <3>3, <3>4 DEF Handled, TypeOK
    <3> QED BY <2>a, <3>4, <3>5
  <2>4. ASSUME NEW w \in Workers, DoMsg(w) PROVE Mailbox!Perform(held[w])
    <3>1. /\ wpc[w] = "handle" /\ where' = [where EXCEPT ![held[w]] = "handled"]
          /\ UNCHANGED <<state, clean, due, sent>>
      BY <2>4 DEF DoMsg, serverVars, countVars
    <3>2. where[held[w]] = "held" /\ held[w] \in Msgs
      BY <3>1 DEF PlaceInv, TypeOK
    <3>3. /\ Handled' = Handled \union {held[w]} /\ Accepted' = Accepted
          /\ held[w] \in Accepted \ Handled
      BY <3>1, <3>2 DEF Handled, TypeOK
    <3>4. state # "stop"
      BY <3>1 DEF ControlInv, Alive
    <3> QED BY <3>1, <3>3, <3>4 DEF Mailbox!Perform
  <2>5. ASSUME NEW w \in Workers, \/ CountRecv(w) \/ SeeDone(w) \/ Tick(w) \/ CheckState(w)
                                  \/ LoadRecv(w) \/ CompareSend(w)
                                  \/ StartRun(w) \/ Addoroutine(w)
        PROVE  UNCHANGED Mailbox!vars
    <3>1. UNCHANGED <<state, clean, due, sent, where>>
      BY <2>5 DEF CountRecv, SeeDone, Tick, CheckState, LeaveAtOnce, LoadRecv, CompareSend, CountersEqual, StartRun,
                  Addoroutine, serverVars, senderVars, countVars
    <3> QED BY <2>a, <3>1 DEF Handled
  <2>6. ASSUME NEW wait \in BOOLEAN, StopMark(wait) PROVE Mailbox!BeginStop(wait)
    <3>1. /\ state = "start" /\ state' = "stopping"
          /\ due' = (IF wait /\ clean THEN sent ELSE {})
          /\ UNCHANGED <<clean, sent, where>>
      BY <2>6 DEF StopMark, senderVars, countVars
    <3>2. Accepted \ (Accepted \ sent) = sent
      BY DEF CountInv, TypeOK
    <3>3. Handled' = Handled /\ Accepted' = Accepted
      BY <3>1 DEF Handled
    <3> QED BY <3>1, <3>2, <3>3 DEF Mailbox!BeginStop
  <2>7. CASE StopCancel
    BY <2>7, <2>a DEF StopCancel, Cancel, Handled, senderVars, countVars
  <2>8. ASSUME StopReturn PROVE Mailbox!EndStop
    <3>1. /\ state = "stopping" /\ Alive = {} /\ state' = "stop"
          /\ UNCHANGED <<clean, due, sent, where>>
      BY <2>8 DEF StopReturn, WaitGroupDone, ControlInv, TypeOK, senderVars, countVars
    <3>2. due \subseteq Handled
      BY <3>1 DEF DueInv
    <3>3. Handled' = Handled /\ Accepted' = Accepted
      BY <3>1 DEF Handled
    <3> QED BY <3>1, <3>2, <3>3 DEF Mailbox!EndStop
  <2>9. ASSUME NEW new \in NewCache, StartReset(new) PROVE Mailbox!Restart
    <3>1. /\ state = "stop" /\ state' = "start" /\ sent' = {}
          /\ clean' = (InFlight = {} /\ (new \/ chans[Cache] = <<>>))
          /\ UNCHANGED <<due, where>>
      BY <2>9 DEF StartReset, ResetCounters, senderVars
    <3>2. Handled' = Handled /\ Accepted' = Accepted
      BY <3>1 DEF Handled
    <3>3. (Accepted \ sent)' = Accepted
      BY <3>1, <3>2
    <3>4. ASSUME Accepted = Handled PROVE InFlight = {} /\ chans[Cache] = <<>>
      <4>1. \A m \in Msgs : where[m] \in {"idle", "handled"}
        BY <3>4 DEF Handled
      <4>2. InFlight = {}
        BY <4>1 DEF InFlight
      <4>3. Cache \in Caches /\ chans[Cache] \in Seq(Msgs)
        BY DEF TypeOK
      <4>4. ASSUME chans[Cache] # <<>> PROVE FALSE
        <5>1. 1 \in 1..Len(chans[Cache]) /\ chans[Cache][1] \in Msgs
          BY <4>3, <4>4
        <5>2. where[chans[Cache][1]] = "queued"
          BY <4>3, <5>1 DEF PlaceInv
        <5> QED BY <4>1, <5>1, <5>2
      <4> QED BY <4>2, <4>4
    <3>5. clean' \in BOOLEAN
      BY <3>1
    <3> QED BY <3>1, <3>2, <3>3, <3>4, <3>5 DEF Mailbox!Restart
  <2>10. CASE UNCHANGED vars
    BY <2>10, <2>a DEF vars, serverVars, senderVars, countVars, Handled
  <2>11. ASSUME NEW m \in Msgs, Send(m) PROVE [Mailbox!Next]_(Mailbox!vars)
    BY <2>1, <2>2, <2>11 DEF Send, Mailbox!Next
  <2>12. ASSUME NEW w \in Workers, Run(w) PROVE [Mailbox!Next]_(Mailbox!vars)
    <3>1. held[w] \in Msgs
      BY DEF TypeOK
    <3> QED BY <2>3, <2>4, <2>5, <2>12, <3>1 DEF Run, Mailbox!Next
  <2>13. CASE Control
    BY <2>5, <2>6, <2>7, <2>8, <2>9, <2>13 DEF Control, Mailbox!Next
  <2> QED BY <2>10, <2>11, <2>12, <2>13 DEF Next
<1> QED BY <1>1, <1>2, Invariance, PTL DEF Spec, ImplementsMailbox, Mailbox!Spec
===============================================================================
