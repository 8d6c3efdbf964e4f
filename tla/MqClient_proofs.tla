---------------------------- MODULE MqClient_proofs ----------------------------
(***************************************************************************)
(* Proofs about MqClient, for every set of Calls, of requests of peers and *)
(* of goroutines that call Close, on both kinds of connection.             *)
(*                                                                         *)
(* The inductive invariant has three groups of conjuncts.  NumberInv is    *)
(* about pendingMap: numbers are dealt in order, none twice, and the entry *)
(* under a number is that of the job which has it.  WayInv follows a job   *)
(* through the cache, the writer, the broker and back: it is in one place  *)
(* at most, and has no answer before the reader took its reply from the    *)
(* connection.  MutexInv, TimerInv and OrderInv are about the goroutines   *)
(* in Close: c.mutex keeps them apart, OnMqStopSubscribe has returned      *)
(* before MqClose is started, and, unless Timer gives up, the connection   *)
(* is taken away only when OnMqClose has been answered, which takes a      *)
(* writer and a reader that are not in the middle of IsError.              *)
(*                                                                         *)
(* SessionInv adds what the refinement of MqSession needs, and lasts       *)
(* whatever Timer does.                                                    *)
(***************************************************************************)
EXTENDS MqClient, FiniteSetTheorems, SequenceTheorems, TLAPS

\* The jobs whose Call has begun.
Begun == {j \in Jobs : call[j] # "none"}

NumberInv ==
    /\ pendingSeq = Cardinality(Begun)
    /\ \A j \in Jobs : call[j] # "none" => seq[j] \in 1 .. pendingSeq
    /\ \A j, k \in Begun : seq[j] = seq[k] => j = k
    /\ \A n \in Seqs : pendingMap[n] # None =>
          /\ pendingMap[n] \in Begun /\ answer[pendingMap[n]] = None
          /\ seq[pendingMap[n]] = n
    /\ \A j \in Begun : answer[j] = None => pendingMap[seq[j]] = j
    /\ \A j \in Jobs : answer[j] \in {None, j} /\ (call[j] = "done" => answer[j] # None)

\* Only then may the message of a job be with the broker, or have come back.
Sent(j) == call[j] \in {"waiting", "done"}

Has(s, x) == \E i \in 1 .. Len(s) : s[i] = x
InIn(j) == \E i \in 1 .. Len(in) : in[i].of = j

\* No job is twice in s.
Unique(s) == \A i, k \in 1 .. Len(s) : s[i] = s[k] /\ s[i] \in Jobs => i = k

WayInv ==
    /\ Unique(cache) /\ Unique(out)
    /\ \A i, k \in 1 .. Len(in) : in[i].of = in[k].of /\ in[i].of \in Jobs => i = k
    /\ \A i \in 1 .. Len(in) :
          IF in[i].seq = 0 THEN in[i].of \in Requests
                           ELSE in[i].of \in Jobs /\ in[i].seq = seq[in[i].of]
    /\ \A j \in Jobs :
          /\ Has(cache, j) => call[j] = "queued" /\ cur # j
          /\ cur = j => call[j] = "queued"
          /\ Has(out, j) => Sent(j) /\ j \notin owed /\ ~InIn(j) /\ answer[j] = None
          /\ j \in owed => Sent(j) /\ ~InIn(j) /\ answer[j] = None
          /\ InIn(j) => Sent(j) /\ answer[j] = None
          /\ answer[j] # None => Sent(j)

PcInv ==
    /\ pc["writer"] \in {"idle", "loop", "write", "error", "mark"}
    /\ pc["reader"] \in {"loop", "read", "error", "mark", "gone"}

\* Where a goroutine in Close has c.mutex.
Inside == {"subscribed", "unsubscribing", "timing", "conn", "producer", "draining",
           "consumer", "leaving"}
Ending == flags \cap {"Stopping", "Stop"} # {}

MutexInv ==
    /\ \A k \in Closers : closer[k] \in Inside => mutex = k
    /\ \A p \in Procs : closer[p] # "none" => "Err" \in flags
    /\ \A p \in Procs : pc[p] = "mark" => closer[p] = "none"

\* Where the goroutines in Close are, and how far MqClose is.
CloseOrder ==
    /\ mqClose \in {"check", "closing"} => \E k \in Closers : closer[k] = "timing"
    /\ \A k \in Closers :
          /\ closer[k] \in {"subscribed", "unsubscribing"} => mqClose = "none"
          /\ closer[k] = "timing" => mqClose # "none"
          /\ closer[k] = "conn" => mqClose = "done"
    /\ ~conn => mqClose = "done"
    /\ Ending <=> mqClose \in {"closing", "done"}

\* As long as Timer has not given up.
TimerInv ==
    ~timedOut =>
       /\ CloseOrder
       /\ mqClose \in {"none", "check"} => call[OnMqClose] = "none"
       /\ mqClose = "done" => answer[OnMqClose] # None
       /\ pc["reader"] = "mark" => answer[OnMqClose] = None
       /\ pc["writer"] = "mark" => ~Sent(OnMqClose) /\ cur # OnMqClose

OrderInv ==
    /\ "StopSubscribe" \in flags =>
          Returned(OnMqStopSubscribe) \/ \E k \in Closers : closer[k] = "unsubscribing"
    /\ mqClose # "none" \/ Ending => Returned(OnMqStopSubscribe)
    /\ ClosesInOrder

ClientInv == TypeOK /\ PcInv /\ NumberInv /\ WayInv /\ MutexInv /\ TimerInv /\ OrderInv

USE ClientAssumption DEF calls, writer, wire, ends

-----------------------------------------------------------------------------
\* Sequences as queues: what is left, and what has been added.
LEMMA TailOf ==
  ASSUME NEW S, NEW s \in Seq(S), s # <<>>
  PROVE  /\ Head(s) \in S /\ Head(s) = s[1] /\ 1 \in 1 .. Len(s) /\ Len(s) \in Nat
         /\ Tail(s) \in Seq(S)
         /\ \A i \in 1 .. Len(Tail(s)) : Tail(s)[i] = s[i + 1] /\ i + 1 \in 1 .. Len(s)
<1>1. Len(s) \in Nat /\ Len(s) >= 1
  BY EmptySeq
<1>2. /\ Head(s) \in S /\ Tail(s) \in Seq(S) /\ Len(Tail(s)) = Len(s) - 1
      /\ \A i \in 1 .. Len(Tail(s)) : Tail(s)[i] = s[i + 1]
  BY HeadTailProperties
<1>3. Head(s) = s[1]
  OBVIOUS
<1> QED BY <1>1, <1>2, <1>3

LEMMA AppendTo ==
  ASSUME NEW S, NEW s \in Seq(S), NEW x \in S
  PROVE  /\ Append(s, x) \in Seq(S) /\ Len(Append(s, x)) = Len(s) + 1 /\ Len(s) \in Nat
         /\ Append(s, x)[Len(s) + 1] = x
         /\ \A i \in 1 .. Len(s) : Append(s, x)[i] = s[i]
  BY AppendProperties

LEMMA TakenFrom ==
  ASSUME NEW S, NEW s \in Seq(S), s # <<>>, Unique(s)
  PROVE  /\ Head(s) \in S /\ Tail(s) \in Seq(S) /\ Has(s, Head(s)) /\ Unique(Tail(s))
         /\ \A x : Has(Tail(s), x) => Has(s, x)
         /\ Head(s) \in Jobs => ~Has(Tail(s), Head(s))
<1>1. /\ Head(s) \in S /\ Head(s) = s[1] /\ 1 \in 1 .. Len(s) /\ Len(s) \in Nat
      /\ Tail(s) \in Seq(S)
      /\ \A i \in 1 .. Len(Tail(s)) : Tail(s)[i] = s[i + 1] /\ i + 1 \in 1 .. Len(s)
  BY TailOf
<1>2. Unique(Tail(s))
  BY <1>1 DEF Unique
<1>3. Has(s, Head(s)) /\ \A x : Has(Tail(s), x) => Has(s, x)
  BY <1>1 DEF Has
<1>4. Head(s) \in Jobs => ~Has(Tail(s), Head(s))
  <2> SUFFICES ASSUME Head(s) \in Jobs, NEW i \in 1 .. Len(Tail(s)), Tail(s)[i] = Head(s)
               PROVE  FALSE
    BY DEF Has
  <2>1. s[i + 1] = s[1] /\ i + 1 \in 1 .. Len(s) /\ s[1] \in Jobs
    BY <1>1
  <2>2. i + 1 = 1 /\ i \in Nat /\ i >= 1
    BY <1>1, <2>1 DEF Unique
  <2> QED BY <2>2
<1> QED BY <1>1, <1>2, <1>3, <1>4

LEMMA AddedTo ==
  ASSUME NEW S, NEW s \in Seq(S), NEW x \in S, Unique(s), x \in Jobs => ~Has(s, x)
  PROVE  /\ Append(s, x) \in Seq(S) /\ Unique(Append(s, x))
         /\ \A y : Has(Append(s, x), y) => Has(s, y) \/ y = x
<1>1. /\ Append(s, x) \in Seq(S) /\ Len(Append(s, x)) = Len(s) + 1 /\ Len(s) \in Nat
      /\ Append(s, x)[Len(s) + 1] = x
      /\ \A i \in 1 .. Len(s) : Append(s, x)[i] = s[i]
  BY AppendTo
<1>2. Unique(Append(s, x))
  BY <1>1 DEF Unique, Has
<1>3. \A y : Has(Append(s, x), y) => Has(s, y) \/ y = x
  BY <1>1 DEF Has
<1> QED BY <1>1, <1>2, <1>3

\* The Calls of the application and the three of the protocol.
LEMMA FinitelyMany == IsFiniteSet(Jobs) /\ Cardinality(Jobs) \in Nat
<1>1. IsFiniteSet(Jobs)
  <2>1. /\ IsFiniteSet({OnMqRegister}) /\ IsFiniteSet({OnMqStopSubscribe})
        /\ IsFiniteSet({OnMqClose})
    BY FS_Singleton
  <2>2. Jobs = ((Calls \cup {OnMqRegister}) \cup {OnMqStopSubscribe}) \cup {OnMqClose}
    BY DEF Jobs
  <2>3. IsFiniteSet(Calls \cup {OnMqRegister})
    BY <2>1, FS_Union
  <2>4. IsFiniteSet((Calls \cup {OnMqRegister}) \cup {OnMqStopSubscribe})
    BY <2>1, <2>3, FS_Union
  <2> QED BY <2>1, <2>2, <2>4, FS_Union
<1> QED BY <1>1, FS_CardinalityType

\* There is a number left for every job.
LEMMA NumbersLeft ==
  ASSUME TypeOK, NumberInv, NEW j \in Jobs, call[j] = "none"
  PROVE  /\ IsFiniteSet(Jobs) /\ Cardinality(Jobs) \in Nat
         /\ NextSeq \in Seqs /\ pendingSeq \in Nat
         /\ Cardinality(Begun \cup {j}) = NextSeq
<1>1. IsFiniteSet(Jobs) /\ Cardinality(Jobs) \in Nat
  BY FinitelyMany
<1>2. IsFiniteSet(Begun) /\ j \notin Begun /\ Begun \cup {j} \subseteq Jobs
  BY <1>1, FS_Subset DEF Begun
<1>3. /\ Cardinality(Begun \cup {j}) = Cardinality(Begun) + 1
      /\ Cardinality(Begun \cup {j}) <= Cardinality(Jobs)
      /\ Cardinality(Begun) \in Nat /\ Cardinality(Jobs) \in Nat
  BY <1>1, <1>2, FS_AddElement, FS_Subset, FS_CardinalityType
<1> QED BY <1>1, <1>3 DEF NumberInv, NextSeq, Seqs

LEMMA Initially == Init => ClientInv
<1> SUFFICES ASSUME Init PROVE ClientInv
  OBVIOUS
<1>0. Cardinality(Jobs) \in Nat
  BY FinitelyMany
<1>1. TypeOK
  <2>1. /\ kind \in Kinds /\ conn \in BOOLEAN /\ timedOut \in BOOLEAN
        /\ flags \subseteq {"Start", "Err", "StopSubscribe", "Stopping", "Stop"}
        /\ transport \in {"open", "closed", "broken"} /\ broker \in {"new", "open", "refused", "closing"}
    BY DEF Init
  <2>4. /\ pendingSeq \in 0 .. Cardinality(Jobs) /\ seq \in [Jobs -> 0 .. Cardinality(Jobs)]
        /\ pendingMap \in [Seqs -> Jobs \cup {None}] /\ answer \in [Jobs -> Jobs \cup {None}]
    BY <1>0 DEF Init
  <2>2. /\ call \in [Jobs -> {"none", "stored", "queued", "waiting", "done"}]
        /\ {producer, consumer} \subseteq {"start", "stopping", "stop"}
        /\ pc \in [Procs -> {"idle", "loop", "read", "write", "error", "mark", "gone"}]
        /\ cur \in Jobs \cup Requests \cup {None} /\ (cur = None) = (pc["writer"] = "idle")
    BY DEF Init, Procs
  <2>3. /\ cache \in Seq(Jobs \cup Requests) /\ out \in Seq(Jobs \cup Requests)
        /\ in \in Seq([seq : 0 .. Cardinality(Jobs), of : Jobs \cup Requests])
        /\ owed \subseteq Jobs
        /\ asked \in [Requests -> {"none", "sent", "serving", "served", "over"}]
        /\ closer \in [Closers -> {"none", "lock", "subscribed", "unsubscribing", "timing",
                               "conn", "producer", "draining", "consumer", "leaving", "done"}]
        /\ mutex \in Closers \cup {None}
        /\ mqClose \in {"none", "check", "closing", "done"}
    BY DEF Init
  <2> QED BY <2>1, <2>2, <2>3, <2>4 DEF TypeOK
<1>2. PcInv
  BY DEF Init, PcInv, Procs
<1>3. NumberInv
  <2>1. Begun = {} /\ Cardinality({}) = 0
    BY FS_EmptySet DEF Init, Begun
  <2> QED BY <2>1 DEF Init, NumberInv, Begun
<1>4. WayInv
  BY DEF Init, WayInv, Has, InIn, Unique, Sent
<1>5. MutexInv /\ TimerInv /\ OrderInv
  BY DEF Init, MutexInv, TimerInv, CloseOrder, OrderInv, Closers, Procs,
     Inside, Ending, ClosesInOrder, Jobs, Sent
<1> QED BY <1>1, <1>2, <1>3, <1>4, <1>5 DEF ClientInv

-----------------------------------------------------------------------------
\* What the first half of a Call does to the numbers and the entries.
LEMMA BeginTypes ==
  ASSUME TypeOK, NumberInv, NEW j \in Jobs, Begin(j)
  PROVE  /\ pendingSeq' \in 0 .. Cardinality(Jobs)
         /\ pendingMap' \in [Seqs -> Jobs \cup {None}] /\ seq' \in [Jobs -> 0 .. Cardinality(Jobs)]
         /\ call' \in [Jobs -> {"none", "stored", "queued", "waiting", "done"}]
         /\ answer' \in [Jobs -> Jobs \cup {None}]
<1>1. call[j] = "none"
  BY DEF Begin
<1>2. Cardinality(Jobs) \in Nat /\ NextSeq \in 1 .. Cardinality(Jobs)
  BY <1>1, NumbersLeft DEF Seqs
<1>3. pendingSeq' = NextSeq /\ pendingSeq' \in 0 .. Cardinality(Jobs)
  BY <1>2 DEF Begin
<1>4. /\ seq' = [seq EXCEPT ![j] = NextSeq] /\ pendingMap' = [pendingMap EXCEPT ![NextSeq] = j]
      /\ call' = [call EXCEPT ![j] = "stored"] /\ answer' = answer
  BY DEF Begin
<1>5. NextSeq \in 0 .. Cardinality(Jobs)
  BY <1>3
<1> HIDE DEF NextSeq
<1> QED BY <1>3, <1>4, <1>5 DEF TypeOK

LEMMA TypeStep == ClientInv /\ Next => TypeOK'
<1> SUFFICES ASSUME ClientInv, Next PROVE TypeOK'
  OBVIOUS
<1> USE DEF Goto, Step
<1>0. TypeOK /\ PcInv /\ NumberInv
  BY DEF ClientInv
<1>1. CASE Start
  <2>1. OnMqRegister \in Jobs
    BY DEF Jobs
  <2> QED BY <1>0, <1>1, <2>1, BeginTypes DEF Start, TypeOK
<1>2. ASSUME NEW c \in Calls, CallBegin(c) PROVE TypeOK'
  <2>1. c \in Jobs
    BY DEF Jobs
  <2> QED BY <1>0, <1>2, <2>1, BeginTypes DEF CallBegin, TypeOK
<1>3. ASSUME NEW k \in Closers, MqStopSubscribe(k) PROVE TypeOK'
  <2>1. OnMqStopSubscribe \in Jobs
    BY DEF Jobs
  <2> QED BY <1>0, <1>3, <2>1, BeginTypes DEF MqStopSubscribe, TypeOK
<1>4. CASE MqClose
  <2>1. OnMqClose \in Jobs
    BY DEF Jobs
  <2>2. CASE flags \cap {"Stopping", "Stop"} # {}
    BY <1>0, <1>4, <2>2, ZenonT(60) DEF MqClose, TypeOK
  <2>3. CASE flags \cap {"Stopping", "Stop"} = {}
    BY <1>0, <1>4, <2>1, <2>3, BeginTypes, ZenonT(60) DEF MqClose, TypeOK
  <2> QED BY <2>2, <2>3
<1>5. ASSUME NEW j \in Jobs, Caller(j) PROVE TypeOK'
  <2>1. Append(cache, j) \in Seq(Jobs \cup Requests)
    BY <1>0 DEF TypeOK
  <2>2. CASE Queue(j)
    BY <1>0, <2>1, <2>2 DEF Queue, TypeOK
  <2>3. CASE Return(j)
    BY <1>0, <2>3 DEF Return, TypeOK
  <2> QED BY <1>5, <2>2, <2>3 DEF Caller
<1>6. CASE WriterTakes
  <2>1. Head(cache) \in Jobs \cup Requests /\ Tail(cache) \in Seq(Jobs \cup Requests)
    BY <1>0, <1>6, TailOf DEF WriterTakes, TypeOK
  <2> QED BY <1>0, <1>6, <2>1 DEF WriterTakes, TypeOK, Procs
<1>7. ASSUME Handled
      PROVE  /\ pc' \in [Procs -> {"idle", "loop", "read", "write", "error", "mark", "gone"}]
             /\ call' \in [Jobs -> {"none", "stored", "queued", "waiting", "done"}]
             /\ cur' = None /\ pc'["writer"] = "idle"
  BY <1>0, <1>7 DEF Handled, TypeOK, Procs
<1>8. CASE WriterDrops
  BY <1>0, <1>7, <1>8 DEF WriterDrops, Handled, TypeOK
<1>9. CASE Write
  <2>1. Append(out, cur) \in Seq(Jobs \cup Requests)
    BY <1>0, <1>9 DEF Write, TypeOK
  <2> QED BY <1>0, <1>7, <1>9, <2>1 DEF Write, Handled, TypeOK
<1>10. CASE WriterGetConn \/ WriteFails \/ ReaderGetConn \/ ReaderLeaves
  <2>1. CASE WriterGetConn \/ WriteFails
    <3>1. /\ pc' \in [Procs -> {"idle", "loop", "read", "write", "error", "mark", "gone"}]
          /\ pc["writer"] # "idle" /\ pc'["writer"] # "idle"
      BY <1>0, <2>1 DEF WriterGetConn, WriteFails, TypeOK, Procs
    <3> QED BY <1>0, <2>1, <3>1, ZenonT(60) DEF WriterGetConn, WriteFails, TypeOK
  <2>2. CASE ReaderGetConn \/ ReaderLeaves
    <3>1. /\ pc' \in [Procs -> {"idle", "loop", "read", "write", "error", "mark", "gone"}]
          /\ pc'["writer"] = pc["writer"]
      BY <1>0, <2>2 DEF ReaderGetConn, ReaderLeaves, TypeOK, Procs
    <3>3. CASE ReaderGetConn
      BY <1>0, <3>1, <3>3 DEF ReaderGetConn, TypeOK
    <3>4. CASE ReaderLeaves
      BY <1>0, <3>1, <3>4 DEF ReaderLeaves, TypeOK
    <3> QED BY <2>2, <3>3, <3>4
  <2> QED BY <1>10, <2>1, <2>2
<1>11. CASE Read
  <2>1. /\ Head(in) \in [seq : 0 .. Cardinality(Jobs), of : Jobs \cup Requests]
        /\ Tail(in) \in Seq([seq : 0 .. Cardinality(Jobs), of : Jobs \cup Requests])
    BY <1>0, <1>11, TailOf DEF Read, TypeOK
  <2>2. CASE ReadRequest
    <3>1. PICK l \in {"serving", "over"} : asked' = [asked EXCEPT ![Head(in).of] = l]
      BY <2>2 DEF ReadRequest
    <3>2. asked' \in [Requests -> {"none", "sent", "serving", "served", "over"}]
      BY <1>0, <3>1 DEF TypeOK
    <3>3. pc' \in [Procs -> {"idle", "loop", "read", "write", "error", "mark", "gone"}]
      BY <1>0, <1>11 DEF Read, TypeOK, Procs
    <3>4. pc'["writer"] = pc["writer"]
      BY <1>0, <1>11 DEF Read, TypeOK, Procs
    <3> QED BY <1>0, <1>11, <2>1, <2>2, <3>2, <3>3, <3>4, ZenonT(60) DEF Read, ReadRequest, TypeOK
  <2>3. CASE ReadReply
    <3>1. pendingMap' \in [Seqs -> Jobs \cup {None}]
      <4>1. \/ pendingMap' = pendingMap
            \/ pendingMap' = [pendingMap EXCEPT ![Head(in).seq] = None]
        BY <2>3 DEF ReadReply, GetPendingMsg
      <4> QED BY <1>0, <4>1 DEF TypeOK
    <3>2. answer' \in [Jobs -> Jobs \cup {None}]
      <4>1. Head(in).seq # 0 /\ \A i \in 1 .. Len(in) : in[i].seq # 0 => in[i].of \in Jobs
        BY <2>3 DEF ReadReply, ClientInv, WayInv
      <4>2. Head(in) = in[1] /\ 1 \in 1 .. Len(in)
        <5>1. in \in Seq([seq : 0 .. Cardinality(Jobs), of : Jobs \cup Requests]) /\ in # <<>>
          BY <1>0, <1>11 DEF Read, TypeOK
        <5> QED BY ONLY <5>1
      <4>3. Head(in).of \in Jobs
        BY ONLY <4>1, <4>2
      <4> QED BY <1>0, <2>3, <4>3, ZenonT(60) DEF ReadReply, TypeOK
    <3> QED BY <1>0, <1>11, <2>1, <2>3, <3>1, <3>2 DEF Read, ReadReply, TypeOK, Procs
  <2> QED BY <1>11, <2>2, <2>3 DEF Read
<1>12. CASE ReadFails
  BY <1>0, <1>12 DEF ReadFails, TypeOK, Procs
<1>13. ASSUME NEW r \in Requests, Serve(r) PROVE TypeOK'
  <2>1. Append(cache, r) \in Seq(Jobs \cup Requests)
    BY <1>0 DEF TypeOK
  <2>2. cache' \in Seq(Jobs \cup Requests)
    BY <1>0, <1>13, <2>1 DEF Serve, Reply, TypeOK
  <2>3. asked' = [asked EXCEPT ![r] = "served"] \/ asked' = [asked EXCEPT ![r] = "over"]
    BY <1>13 DEF Serve
  <2>4. asked' \in [Requests -> {"none", "sent", "serving", "served", "over"}]
    BY <1>0, <2>3 DEF TypeOK
  <2> QED BY <1>0, <1>13, <2>2, <2>4 DEF Serve, TypeOK
<1>14. ASSUME NEW p \in Procs, OnError(p) PROVE TypeOK'
  <2>1. CASE IsError(p)
    BY <1>0, <2>1 DEF IsError, TypeOK, Procs
  <2>2. CASE MarkError(p)
    BY <1>0, <2>2 DEF MarkError, TypeOK, Procs
  <2>3. CASE MarkPanics(p)
    BY <1>0, <1>7, <2>3 DEF MarkPanics, Handled, TypeOK, Procs
  <2> QED BY <1>14, <2>1, <2>2, <2>3 DEF OnError
<1>15. ASSUME NEW k \in Closers,
             \/ k \in Users /\ CloseUser(k)
             \/ CloseBegin(k) \/ TimerStart(k) \/ Timer(k) \/ CloseConn(k)
       PROVE  TypeOK'
  <2>1. CASE CloseBegin(k)
    <3>1. /\ \E l \in {"done", "producer", "subscribed"} : closer' = [closer EXCEPT ![k] = l]
          /\ mutex' \in {mutex, k}
      BY <2>1 DEF CloseBegin
    <3> QED BY <1>0, <2>1, <3>1 DEF CloseBegin, TypeOK
  <2>2. CASE TimerStart(k)
    BY <1>0, <2>2 DEF TimerStart, TypeOK
  <2>3. CASE Timer(k)
    BY <1>0, <2>3 DEF Timer, TypeOK
  <2>4. CASE CloseUser(k) \/ CloseConn(k)
    <3>1. closer' \in [Closers -> {"none", "lock", "subscribed", "unsubscribing", "timing",
                "conn", "producer", "draining", "consumer", "leaving", "done"}]
      BY <1>0, <2>4, ZenonT(60) DEF CloseUser, CloseConn, TypeOK
    <3>3. CASE CloseUser(k)
      BY <1>0, <3>1, <3>3 DEF CloseUser, TypeOK
    <3>4. CASE CloseConn(k)
      BY <1>0, <3>1, <3>4 DEF CloseConn, TypeOK
    <3> QED BY <2>4, <3>3, <3>4
  <2> QED BY <1>15, <2>1, <2>2, <2>3, <2>4
<1>16. ASSUME NEW k \in Closers,
              StopProducer(k) \/ ProducerStops(k) \/ StopConsumer(k) \/ CloseEnd(k)
       PROVE  TypeOK'
  <2>1. CASE StopProducer(k) \/ ProducerStops(k)
    <3>1. closer' \in [Closers -> {"none", "lock", "subscribed", "unsubscribing", "timing",
                "conn", "producer", "draining", "consumer", "leaving", "done"}]
      BY <1>0, <2>1, ZenonT(60) DEF StopProducer, ProducerStops, TypeOK
    <3>2. producer' \in {"start", "stopping", "stop"}
      BY <1>0, <2>1 DEF StopProducer, ProducerStops, TypeOK
    <3>3. CASE StopProducer(k)
      BY <1>0, <3>1, <3>2, <3>3 DEF StopProducer, TypeOK
    <3>4. CASE ProducerStops(k)
      BY <1>0, <3>1, <3>2, <3>4 DEF ProducerStops, TypeOK
    <3> QED BY <2>1, <3>3, <3>4
  <2>2. CASE StopConsumer(k) \/ CloseEnd(k)
    <3>1. closer' \in [Closers -> {"none", "lock", "subscribed", "unsubscribing", "timing",
                "conn", "producer", "draining", "consumer", "leaving", "done"}]
      BY <1>0, <2>2, ZenonT(60) DEF StopConsumer, CloseEnd, TypeOK
    <3>2. consumer' \in {"start", "stopping", "stop"} /\ mutex' \in {mutex, None}
      BY <1>0, <2>2 DEF StopConsumer, CloseEnd, TypeOK
    <3>3. CASE StopConsumer(k)
      BY <1>0, <3>1, <3>2, <3>3 DEF StopConsumer, TypeOK
    <3>4. CASE CloseEnd(k)
      BY <1>0, <3>1, <3>2, <3>4 DEF CloseEnd, TypeOK
    <3> QED BY <2>2, <3>3, <3>4
  <2> QED BY <1>16, <2>1, <2>2
<1>17. CASE MqCloseReturns
  BY <1>0, <1>17 DEF MqCloseReturns, TypeOK
<1>18. CASE BrokerReads
  <2>1. Head(out) \in Jobs \cup Requests /\ Tail(out) \in Seq(Jobs \cup Requests)
    BY <1>0, <1>18, TailOf DEF BrokerReads, TypeOK
  <2>2. broker' \in {"new", "open", "refused", "closing"} /\ owed' \subseteq Jobs
    <3>1. CASE BrokerTakes(Head(out))
      BY <1>0, <3>1 DEF BrokerTakes, TypeOK
    <3>2. CASE UNCHANGED <<broker, owed>>
      BY <1>0, <3>2 DEF TypeOK
    <3> QED BY <1>18, <3>1, <3>2 DEF BrokerReads
  <2>3. asked' \in [Requests -> {"none", "sent", "serving", "served", "over"}]
    BY <1>0, <1>18 DEF BrokerReads, BrokerTakes, TypeOK
  <2> QED BY <1>0, <1>18, <2>1, <2>2, <2>3, ZenonT(60) DEF BrokerReads, TypeOK
<1>19. CASE BrokerCloses \/ Break
  <2>1. <<>> \in Seq([seq : 0 .. Cardinality(Jobs), of : Jobs \cup Requests])
    OBVIOUS
  <2>2. CASE BrokerCloses
    BY <1>0, <2>2 DEF BrokerCloses, TypeOK
  <2>3. CASE Break
    BY <1>0, <2>1, <2>3 DEF Break, TypeOK
  <2> QED BY <1>19, <2>2, <2>3
<1>20. ASSUME NEW j \in Jobs, Respond(j) PROVE TypeOK'
  <2>1. Append(in, [seq |-> seq[j], of |-> j])
          \in Seq([seq : 0 .. Cardinality(Jobs), of : Jobs \cup Requests])
    BY <1>0 DEF TypeOK
  <2> QED BY <1>0, <1>20, <2>1 DEF Respond, TypeOK
<1>21. ASSUME NEW r \in Requests, PeerAsks(r) PROVE TypeOK'
  <2>1. Append(in, [seq |-> 0, of |-> r])
          \in Seq([seq : 0 .. Cardinality(Jobs), of : Jobs \cup Requests])
    <3>1. [seq |-> 0, of |-> r] \in [seq : 0 .. Cardinality(Jobs), of : Jobs \cup Requests]
      BY FinitelyMany
    <3> QED BY <1>0, <3>1 DEF TypeOK
  <2> QED BY <1>0, <1>21, <2>1 DEF PeerAsks, TypeOK
<1> QED
  BY <1>1, <1>2, <1>3, <1>4, <1>5, <1>6, <1>8, <1>9, <1>10, <1>11, <1>12, <1>13, <1>14,
     <1>15, <1>16, <1>17, <1>18, <1>19, <1>20, <1>21
     DEF Next, Writer, Reader, Close, Closing, Broker, Closers

LEMMA PcStep == ClientInv /\ Next => PcInv'
<1> SUFFICES ASSUME ClientInv, Next PROVE PcInv'
  OBVIOUS
<1>1. pc' = pc \/ \E p \in Procs : \E l \in {"idle", "loop", "read", "write", "error", "mark", "gone"} :
         /\ pc' = [pc EXCEPT ![p] = l]
         /\ p = "writer" => l \notin {"read", "gone"}
         /\ p = "reader" => l \notin {"idle", "write"}
  BY DEF Next, Start, CallBegin, Caller, Queue, Return, Respond, Writer, WriterTakes, WriterDrops,
     WriterGetConn, Write, WriteFails, Reader, ReaderGetConn, ReaderLeaves, Read, ReadFails,
     OnError, IsError, MarkError, MarkPanics, CloseUser, Close, CloseBegin, MqStopSubscribe,
     TimerStart, Timer, CloseConn, StopProducer, ProducerStops, StopConsumer, CloseEnd,
     Closing, MqClose, MqCloseReturns, Broker, BrokerReads, BrokerCloses, Break, Serve,
     PeerAsks, Handled, Goto, Procs
<1> QED BY <1>1 DEF ClientInv, PcInv, TypeOK, Procs

-----------------------------------------------------------------------------
\* The steps that change how far a Call has come.
LEMMA CallsChange ==
  ASSUME Next
  PROVE  \/ UNCHANGED calls
         \/ \E j \in Jobs : \/ Begin(j) /\ (j = OnMqClose => MqClose)
                           \/ Queue(j) \/ Return(j)
         \/ Handled /\ pc["writer"] # "idle"
         \/ Read /\ ReadReply
<1>1. {OnMqRegister, OnMqStopSubscribe, OnMqClose} \subseteq Jobs /\ Calls \subseteq Jobs
  BY DEF Jobs
<1>2. CASE Start \/ \E c \in Calls : CallBegin(c)
  BY <1>1, <1>2 DEF Start, CallBegin, OnMqRegister, OnMqClose
<1>3. CASE \E k \in Closers : Close(k)
  BY <1>1, <1>3 DEF Close, CloseBegin, MqStopSubscribe, TimerStart, Timer, CloseConn,
     StopProducer, ProducerStops, StopConsumer, CloseEnd, OnMqStopSubscribe, OnMqClose
<1>4. CASE Closing \/ Broker \/ Break \/ \E k \in Users : CloseUser(k)
  BY <1>1, <1>4 DEF Closing, MqClose, MqCloseReturns, Broker, BrokerReads, BrokerCloses, Break,
     CloseUser
<1>5. CASE Writer \/ Reader \/ \E p \in Procs : OnError(p)
  BY <1>5 DEF Writer, WriterTakes, WriterDrops, WriterGetConn, Write, WriteFails, Reader,
     ReaderGetConn, ReaderLeaves, Read, ReadRequest, ReadFails, OnError, IsError, MarkError,
     MarkPanics
<1>6. CASE \/ \E j \in Jobs : Caller(j) \/ Respond(j)
           \/ \E r \in Requests : Serve(r) \/ PeerAsks(r)
  BY <1>6 DEF Caller, Respond, Serve, PeerAsks
<1> QED BY <1>2, <1>3, <1>4, <1>5, <1>6 DEF Next

\* The reply that the reader finds is the one its job waits for.
LEMMA ReplyFound ==
  ASSUME ClientInv, Read, ReadReply
  PROVE  \E j \in Jobs :
            /\ Head(in).of = j /\ Head(in).seq = seq[j] /\ seq[j] \in Seqs
            /\ j \in Begun /\ answer[j] = None /\ pendingMap[seq[j]] = j
            /\ pendingMap' = [pendingMap EXCEPT ![seq[j]] = None]
            /\ answer' = [answer EXCEPT ![j] = j]
<1>1. TypeOK /\ NumberInv /\ WayInv
  BY DEF ClientInv
<1>2. Head(in) = in[1] /\ 1 \in 1 .. Len(in) /\ Head(in).seq # 0
  BY <1>1, TailOf DEF Read, ReadReply, TypeOK
<1> DEFINE j == Head(in).of
<1>3. j \in Jobs /\ Head(in).seq = seq[j] /\ InIn(j)
  BY <1>1, <1>2 DEF WayInv, InIn
<1>4. j \in Begun /\ answer[j] = None
  BY <1>1, <1>3 DEF WayInv, Sent, Begun
<1>5. seq[j] \in Seqs /\ pendingMap[seq[j]] = j
  BY <1>1, <1>4, FinitelyMany DEF NumberInv, Seqs, Begun, TypeOK
<1>6. /\ pendingMap' = [pendingMap EXCEPT ![seq[j]] = None]
      /\ answer' = [answer EXCEPT ![j] = j]
  BY <1>3, <1>5 DEF ReadReply, GetPendingMsg
<1> QED BY <1>3, <1>4, <1>5, <1>6

LEMMA NumberStep == ClientInv /\ Next => NumberInv'
<1> SUFFICES ASSUME ClientInv, Next PROVE NumberInv'
  OBVIOUS
<1>0. TypeOK /\ PcInv /\ NumberInv /\ WayInv
  BY DEF ClientInv
<1>1. CASE UNCHANGED calls
  BY <1>0, <1>1 DEF NumberInv, Begun
<1>2. ASSUME NEW j \in Jobs, Begin(j) PROVE NumberInv'
  <2>1. /\ call[j] = "none" /\ call' = [call EXCEPT ![j] = "stored"]
        /\ seq' = [seq EXCEPT ![j] = NextSeq] /\ pendingSeq' = NextSeq
        /\ pendingMap' = [pendingMap EXCEPT ![NextSeq] = j] /\ answer' = answer
    BY <1>2 DEF Begin
  <2>2. /\ NextSeq \in Seqs /\ pendingSeq \in Nat /\ NextSeq = pendingSeq + 1
        /\ Cardinality(Begun \cup {j}) = NextSeq /\ Cardinality(Jobs) \in Nat
    BY <1>0, <2>1, NumbersLeft DEF NextSeq
  <2>3. Begun' = Begun \cup {j} /\ j \notin Begun
    BY <1>0, <2>1 DEF Begun, TypeOK
  <2>4. \A k \in Begun : seq'[k] = seq[k] /\ seq[k] \in 1 .. pendingSeq
    <3>1. \A k \in Begun : k \in Jobs /\ k # j /\ call[k] # "none"
      BY <2>3 DEF Begun
    <3> QED BY <1>0, <2>1, <3>1 DEF NumberInv, TypeOK
  <2>5. seq'[j] = NextSeq /\ answer[j] = None
    BY <1>0, <2>1 DEF TypeOK, WayInv, Sent
  <2>6. \A n \in Seqs : pendingMap'[n] = IF n = NextSeq THEN j ELSE pendingMap[n]
    BY <1>0, <2>1 DEF TypeOK
  <2> HIDE DEF NextSeq
  <2>7. pendingSeq' = Cardinality(Begun)'
    BY <2>1, <2>2, <2>3
  <2>8. \A k \in Jobs : call'[k] # "none" => seq'[k] \in 1 .. pendingSeq'
    BY <2>1, <2>2, <2>3, <2>4, <2>5 DEF Begun
  <2>9. \A k, l \in Begun' : seq'[k] = seq'[l] => k = l
    <3>1. \A k \in Begun : seq'[k] # seq'[j]
      BY <2>2, <2>4, <2>5
    <3> QED BY <1>0, <2>3, <2>4, <3>1 DEF NumberInv
  <2>10. \A n \in Seqs : pendingMap'[n] # None =>
            /\ pendingMap'[n] \in Begun' /\ answer'[pendingMap'[n]] = None
            /\ seq'[pendingMap'[n]] = n
    BY <1>0, <2>1, <2>3, <2>4, <2>5, <2>6 DEF NumberInv
  <2>11. \A k \in Begun' : answer'[k] = None => pendingMap'[seq'[k]] = k
    <3>1. ASSUME NEW k \in Begun, answer[k] = None PROVE pendingMap'[seq[k]] = k
      <4>1. seq[k] \in Seqs /\ seq[k] # NextSeq
        BY <1>0, <2>2, <2>4 DEF TypeOK, Seqs
      <4> QED BY <1>0, <2>6, <3>1, <4>1 DEF NumberInv
    <3> QED BY <2>1, <2>2, <2>3, <2>4, <2>5, <2>6, <3>1
  <2>12. \A k \in Jobs : answer'[k] \in {None, k} /\ (call'[k] = "done" => answer'[k] # None)
    BY <1>0, <2>1 DEF NumberInv, TypeOK
  <2> QED BY <2>7, <2>8, <2>9, <2>10, <2>11, <2>12 DEF NumberInv
<1>3. ASSUME NEW j \in Jobs, NEW l \in {"queued", "waiting", "done"}, call[j] # "none",
             call' = [call EXCEPT ![j] = l], l = "done" => answer[j] # None,
             UNCHANGED <<pendingSeq, pendingMap, seq, answer>>
      PROVE  NumberInv'
  <2>1. Begun' = Begun
    BY <1>0, <1>3 DEF Begun, TypeOK
  <2>2. \A k \in Jobs : call'[k] # "none" => call[k] # "none"
    BY <1>0, <1>3 DEF TypeOK
  <2>3. \A k \in Jobs : call'[k] = "done" => answer[k] # None
    BY <1>0, <1>3 DEF TypeOK, NumberInv
  <2> QED BY <1>0, <1>3, <2>1, <2>2, <2>3 DEF NumberInv
<1>4. ASSUME NEW j \in Jobs, Queue(j) \/ Return(j) PROVE NumberInv'
  BY <1>3, <1>4 DEF Queue, Return
<1>5. ASSUME Handled PROVE NumberInv'
  <2>1. CASE cur \in Jobs
    BY <1>0, <1>3, <1>5, <2>1 DEF Handled, WayInv
  <2>2. CASE cur \notin Jobs
    BY <1>1, <1>5, <2>2 DEF Handled
  <2> QED BY <2>1, <2>2
<1>6. CASE Read /\ ReadReply
  <2>1. PICK j \in Jobs :
            /\ seq[j] \in Seqs /\ j \in Begun /\ answer[j] = None
            /\ pendingMap' = [pendingMap EXCEPT ![seq[j]] = None]
            /\ answer' = [answer EXCEPT ![j] = j]
    BY <1>6, ReplyFound
  <2>2. call' = call /\ seq' = seq /\ pendingSeq' = pendingSeq /\ Begun' = Begun
    BY <1>6 DEF ReadReply, Begun
  <2>3. \A n \in Seqs : pendingMap'[n] = IF n = seq[j] THEN None ELSE pendingMap[n]
    BY <1>0, <2>1 DEF TypeOK
  <2>4. \A k \in Jobs : answer'[k] = IF k = j THEN j ELSE answer[k]
    BY <1>0, <2>1 DEF TypeOK
  <2>5. \A n \in Seqs : pendingMap'[n] # None =>
            /\ pendingMap'[n] \in Begun' /\ answer'[pendingMap'[n]] = None
            /\ seq'[pendingMap'[n]] = n
    BY <1>0, <2>2, <2>3, <2>4 DEF NumberInv, Begun
  <2>6. \A k \in Begun' : answer'[k] = None => pendingMap'[seq'[k]] = k
    BY <1>0, <2>1, <2>2, <2>3, <2>4 DEF NumberInv, Begun, Seqs, TypeOK
  <2>7. \A k \in Jobs : answer'[k] \in {None, k} /\ (call'[k] = "done" => answer'[k] # None)
    BY <1>0, <2>2, <2>4 DEF NumberInv
  <2> QED BY <1>0, <2>2, <2>5, <2>6, <2>7 DEF NumberInv
<1> QED BY <1>1, <1>2, <1>4, <1>5, <1>6, CallsChange

-----------------------------------------------------------------------------
way == <<cache, cur, out, owed, in>>

\* The steps that move a job on its way to the broker and back.
LEMMA WayChanges ==
  ASSUME Next
  PROVE  \/ UNCHANGED way /\ UNCHANGED calls
         \/ UNCHANGED <<cache, cur, out, owed, calls>> /\ in' = <<>>
         \/ UNCHANGED way /\ \E j \in Jobs : Begin(j) \/ Return(j)
         \/ \E j \in Jobs : Queue(j) \/ Respond(j)
         \/ \E r \in Requests : Serve(r) \/ PeerAsks(r)
         \/ WriterTakes \/ Write \/ Read \/ BrokerReads
         \/ /\ pc["writer"] # "idle" /\ UNCHANGED <<out, owed, in>>
            /\ Handled
<1>1. {OnMqRegister, OnMqStopSubscribe, OnMqClose} \subseteq Jobs /\ Calls \subseteq Jobs
  BY DEF Jobs
<1>2. CASE Start \/ \E c \in Calls : CallBegin(c)
  BY <1>1, <1>2 DEF Start, CallBegin, way
<1>3. CASE \E k \in Closers : Close(k)
  BY <1>1, <1>3 DEF Close, CloseBegin, MqStopSubscribe, TimerStart, Timer, CloseConn,
     StopProducer, ProducerStops, StopConsumer, CloseEnd, way
<1>4. CASE Closing \/ Broker \/ Break \/ \E k \in Users : CloseUser(k)
  BY <1>1, <1>4 DEF Closing, MqClose, MqCloseReturns, Broker, BrokerCloses, Break, CloseUser, way
<1>5. CASE Writer \/ Reader
  BY <1>5 DEF Writer, WriterDrops, WriterGetConn, WriteFails, Reader, ReaderGetConn,
     ReaderLeaves, ReadFails, way
<1>6. CASE \E p \in Procs : OnError(p)
  BY <1>6 DEF OnError, IsError, MarkError, MarkPanics, way
<1>7. CASE \/ \E j \in Jobs : Caller(j) \/ Respond(j)
           \/ \E r \in Requests : Serve(r) \/ PeerAsks(r)
  BY <1>7 DEF Caller, Return, way
<1> QED BY <1>2, <1>3, <1>4, <1>5, <1>6, <1>7 DEF Next

\* What has arrived, without its first message.
LEMMA InTail ==
  ASSUME TypeOK, WayInv, in # <<>>, in' = Tail(in)
  PROVE  /\ \A i, k \in 1 .. Len(in') : in'[i].of = in'[k].of /\ in'[i].of \in Jobs => i = k
         /\ \A i \in 1 .. Len(in') :
               IF in'[i].seq = 0 THEN in'[i].of \in Requests
                                 ELSE in'[i].of \in Jobs /\ in'[i].seq = seq[in'[i].of]
         /\ \A j \in Jobs : InIn(j)' => InIn(j)
         /\ \A j \in Jobs : Head(in).of = j => InIn(j) /\ ~InIn(j)'
<1>1. /\ Head(in) = in[1] /\ 1 \in 1 .. Len(in) /\ Len(in) \in Nat
      /\ \A i \in 1 .. Len(in') : in'[i] = in[i + 1] /\ i + 1 \in 1 .. Len(in)
  BY TailOf DEF TypeOK
<1>2. /\ \A i, k \in 1 .. Len(in') : in'[i].of = in'[k].of /\ in'[i].of \in Jobs => i = k
      /\ \A i \in 1 .. Len(in') :
            IF in'[i].seq = 0 THEN in'[i].of \in Requests
                              ELSE in'[i].of \in Jobs /\ in'[i].seq = seq[in'[i].of]
  BY <1>1 DEF WayInv
<1>3. \A j \in Jobs : InIn(j)' => InIn(j)
  BY <1>1 DEF InIn
<1>4. InIn(Head(in).of)
  BY <1>1 DEF InIn
<1>5. ASSUME NEW j \in Jobs, Head(in).of = j, InIn(j)' PROVE FALSE
  <2>1. PICK i \in 1 .. Len(in') : in'[i].of = j
    BY <1>5 DEF InIn
  <2>2. in[i + 1].of = in[1].of /\ i + 1 \in 1 .. Len(in) /\ i \in Nat /\ i >= 1
    BY <1>1, <1>5, <2>1
  <2>3. i + 1 = 1
    BY <1>1, <1>5, <2>2 DEF WayInv
  <2> QED BY <2>2, <2>3
<1> QED BY <1>2, <1>3, <1>4, <1>5

\* What has arrived, with one message more.
LEMMA InAppend ==
  ASSUME TypeOK, WayInv, NEW m \in [seq : 0 .. Cardinality(Jobs), of : Jobs \cup Requests],
         in' = Append(in, m), m.of \in Jobs => ~InIn(m.of) /\ m.seq # 0 /\ m.seq = seq[m.of],
         m.of \in Requests => m.seq = 0
  PROVE  /\ \A i, k \in 1 .. Len(in') : in'[i].of = in'[k].of /\ in'[i].of \in Jobs => i = k
         /\ \A i \in 1 .. Len(in') :
               IF in'[i].seq = 0 THEN in'[i].of \in Requests
                                 ELSE in'[i].of \in Jobs /\ in'[i].seq = seq[in'[i].of]
         /\ \A j \in Jobs : InIn(j)' => InIn(j) \/ j = m.of
<1>1. /\ Len(in') = Len(in) + 1 /\ Len(in) \in Nat
      /\ in'[Len(in) + 1] = m
      /\ \A i \in 1 .. Len(in) : in'[i] = in[i]
  BY AppendTo DEF TypeOK
<1>2. \A j \in Jobs : InIn(j)' => InIn(j) \/ j = m.of
  BY <1>1 DEF InIn
<1>3. \A i \in 1 .. Len(in') :
         IF in'[i].seq = 0 THEN in'[i].of \in Requests
                           ELSE in'[i].of \in Jobs /\ in'[i].seq = seq[in'[i].of]
  <2>1. IF m.seq = 0 THEN m.of \in Requests ELSE m.of \in Jobs /\ m.seq = seq[m.of]
    OBVIOUS
  <2>2. \A i \in 1 .. Len(in') : i \in 1 .. Len(in) \/ i = Len(in) + 1
    BY <1>1
  <2> QED BY <1>1, <2>1, <2>2 DEF WayInv
<1>4. ASSUME NEW i \in 1 .. Len(in'), NEW k \in 1 .. Len(in'),
             in'[i].of = in'[k].of, in'[i].of \in Jobs
      PROVE  i = k
  <2>1. (i \in 1 .. Len(in) \/ i = Len(in) + 1) /\ (k \in 1 .. Len(in) \/ k = Len(in) + 1)
    BY <1>1
  <2>2. CASE i \in 1 .. Len(in) /\ k \in 1 .. Len(in)
    BY <1>1, <1>4, <2>2 DEF WayInv
  <2>3. CASE i = Len(in) + 1 /\ k \in 1 .. Len(in)
    BY <1>1, <1>4, <2>3 DEF InIn
  <2>4. CASE i \in 1 .. Len(in) /\ k = Len(in) + 1
    BY <1>1, <1>4, <2>4 DEF InIn
  <2> QED BY <2>1, <2>2, <2>3, <2>4
<1> QED BY <1>2, <1>3, <1>4

LEMMA WayStep == ClientInv /\ Next => WayInv'
<1> SUFFICES ASSUME ClientInv, Next PROVE WayInv'
  OBVIOUS
<1>0. TypeOK /\ PcInv /\ NumberInv /\ WayInv
  BY DEF ClientInv
<1>1. CASE UNCHANGED way /\ UNCHANGED calls
  BY <1>0, <1>1 DEF way, WayInv, Has, InIn, Unique, Sent
<1>2. CASE UNCHANGED <<cache, cur, out, owed, calls>> /\ in' = <<>>
  BY <1>0, <1>2 DEF WayInv, Has, InIn, Unique, Sent
<1>3. ASSUME UNCHANGED way, NEW j \in Jobs, Begin(j) PROVE WayInv'
  <2>1. /\ call[j] = "none" /\ call' = [call EXCEPT ![j] = "stored"]
        /\ seq' = [seq EXCEPT ![j] = NextSeq] /\ answer' = answer
    BY <1>3 DEF Begin
  <2>2. \A k \in Jobs : (Sent(k)' <=> Sent(k)) /\ (call[k] = "queued" => call'[k] = "queued")
    BY <1>0, <2>1 DEF Sent, TypeOK
  <2>3. \A k \in Jobs : InIn(k) => seq'[k] = seq[k]
    <3>1. \A k \in Jobs : InIn(k) => Sent(k)
      BY <1>0 DEF WayInv
    <3>2. \A k \in Jobs : Sent(k) => k # j
      BY <2>1 DEF Sent
    <3>3. \A k \in Jobs : k # j => seq'[k] = seq[k]
      BY <1>0, <2>1 DEF TypeOK
    <3> QED BY <3>1, <3>2, <3>3
  <2>4. \A i \in 1 .. Len(in) :
           IF in[i].seq = 0 THEN in[i].of \in Requests
                            ELSE in[i].of \in Jobs /\ in[i].seq = seq'[in[i].of]
    BY <1>0, <2>3 DEF WayInv, InIn
  <2> QED BY <1>0, <1>3, <2>1, <2>2, <2>4 DEF way, WayInv, Has, InIn, Unique
<1>4. ASSUME UNCHANGED way, NEW j \in Jobs, Return(j) PROVE WayInv'
  <2>1. \A k \in Jobs : (Sent(k)' <=> Sent(k)) /\ (call[k] = "queued" => call'[k] = "queued")
    BY <1>0, <1>4 DEF Return, Sent, TypeOK
  <2> QED BY <1>0, <1>4, <2>1 DEF Return, way, WayInv, Has, InIn, Unique
<1>5. ASSUME NEW j \in Jobs, Queue(j) PROVE WayInv'
  <2>1. call[j] = "stored" /\ ~Has(cache, j) /\ cur # j
    BY <1>0, <1>5 DEF Queue, WayInv
  <2>2. Unique(cache') /\ \A k \in Jobs : Has(cache', k) => Has(cache, k) \/ k = j
    BY <1>0, <1>5, <2>1, AddedTo DEF Queue, TypeOK, WayInv
  <2>3. /\ call'[j] = "queued"
        /\ \A k \in Jobs : (Sent(k)' <=> Sent(k)) /\ (call[k] = "queued" => call'[k] = "queued")
    BY <1>0, <1>5 DEF Queue, Sent, TypeOK
  <2> QED BY <1>0, <1>5, <2>1, <2>2, <2>3 DEF Queue, WayInv, Has, InIn, Unique
<1>6. CASE WriterTakes
  <2>1. /\ Unique(cache') /\ Has(cache, Head(cache)) /\ cur' = Head(cache)
        /\ \A k \in Jobs : Has(cache', k) => Has(cache, k) /\ cur' # k
    BY <1>0, <1>6, TakenFrom DEF WriterTakes, TypeOK, WayInv
  <2> QED BY <1>0, <1>6, <2>1 DEF WriterTakes, WayInv, Has, InIn, Unique, Sent
\* The message of the writer is written, dropped or given up.
<1>7. ASSUME Handled, pc["writer"] # "idle"
      PROVE  /\ cur' = None /\ cache' = cache /\ seq' = seq /\ answer' = answer /\ cur # None
             /\ \A k \in Jobs : Sent(k)' <=> Sent(k) \/ k = cur
             /\ \A k \in Jobs : call[k] = "queued" /\ k # cur => call'[k] = "queued"
             /\ \A k \in Jobs : k = cur => ~Sent(k)
  <2>1. cur \in Jobs => call[cur] = "queued"
    BY <1>0 DEF WayInv
  <2> QED BY <1>0, <1>7, <2>1 DEF Handled, Sent, TypeOK
<1>8. ASSUME UNCHANGED <<out, owed, in>>, pc["writer"] # "idle",
             Handled
      PROVE  WayInv'
  BY <1>0, <1>7, <1>8 DEF WayInv, Has, InIn, Unique
<1>9. CASE Write
  <2>1. Handled /\ pc["writer"] # "idle" /\ in' = in /\ owed' = owed
    BY <1>9 DEF Write
  <2>2. /\ cur' = None /\ cache' = cache /\ seq' = seq /\ answer' = answer
        /\ \A k \in Jobs : Sent(k)' <=> Sent(k) \/ k = cur
        /\ \A k \in Jobs : call[k] = "queued" /\ k # cur => call'[k] = "queued"
        /\ \A k \in Jobs : k = cur => ~Sent(k)
        /\ cur \in Jobs \cup Requests
    BY <1>0, <1>7, <2>1 DEF TypeOK
  <2>3. cur \in Jobs => ~Has(out, cur) /\ cur \notin owed /\ ~InIn(cur) /\ answer[cur] = None
    BY <1>0, <2>2 DEF WayInv
  <2>4. /\ Unique(out')
        /\ \A k \in Jobs : Has(out', k) => Has(out, k) \/ k = cur
    <3>1. CASE out' = out
      BY <1>0, <3>1 DEF WayInv
    <3>2. CASE out' = Append(out, cur)
      BY <1>0, <2>2, <2>3, <3>2, AddedTo DEF TypeOK, WayInv
    <3> QED BY <1>9, <3>1, <3>2 DEF Write
  <2> QED BY <1>0, <2>1, <2>2, <2>3, <2>4 DEF WayInv, InIn
<1>10. CASE Read
  <2>1. /\ \A i, k \in 1 .. Len(in') : in'[i].of = in'[k].of /\ in'[i].of \in Jobs => i = k
        /\ \A i \in 1 .. Len(in') :
              IF in'[i].seq = 0 THEN in'[i].of \in Requests
                                ELSE in'[i].of \in Jobs /\ in'[i].seq = seq[in'[i].of]
        /\ \A j \in Jobs : InIn(j)' => InIn(j)
        /\ \A j \in Jobs : Head(in).of = j => InIn(j) /\ ~InIn(j)'
    BY <1>0, <1>10, InTail DEF Read
  <2>2. UNCHANGED <<cache, cur, out, owed, call, seq>>
    BY <1>10 DEF Read, ReadReply, ReadRequest
  <2>3. CASE ReadRequest
    BY <1>0, <2>1, <2>2, <2>3 DEF ReadRequest, WayInv, Sent
  <2>4. CASE ReadReply
    <3>1. PICK j \in Jobs : Head(in).of = j /\ answer' = [answer EXCEPT ![j] = j]
      BY <1>10, <2>4, ReplyFound
    <3>2. \A k \in Jobs : answer'[k] = IF k = j THEN j ELSE answer[k]
      BY <1>0, <3>1 DEF TypeOK
    <3>3. InIn(j) /\ ~InIn(j)' /\ Sent(j) /\ j \notin owed /\ ~Has(out, j)
      BY <1>0, <2>1, <3>1 DEF WayInv
    <3> QED BY <1>0, <2>1, <2>2, <3>2, <3>3 DEF WayInv, Sent
  <2> QED BY <1>10, <2>3, <2>4 DEF Read
<1>11. ASSUME NEW r \in Requests, Serve(r) PROVE WayInv'
  <2>1. r \notin Jobs
    OBVIOUS
  <2>2. Unique(cache') /\ \A k \in Jobs : Has(cache', k) => Has(cache, k)
    <3>1. CASE Reply(r)
      BY <1>0, <2>1, <3>1, AddedTo DEF Reply, TypeOK, WayInv
    <3>2. CASE cache' = cache
      BY <1>0, <3>2 DEF WayInv
    <3> QED BY <1>11, <3>1, <3>2 DEF Serve
  <2> QED BY <1>0, <1>11, <2>2 DEF Serve, WayInv, InIn, Sent
<1>12. CASE BrokerReads
  <2>1. /\ Unique(out') /\ Has(out, Head(out))
        /\ \A k \in Jobs : Has(out', k) => Has(out, k) /\ k # Head(out)
    BY <1>0, <1>12, TakenFrom DEF BrokerReads, TypeOK, WayInv
  <2>2. owed' = owed \/ (Head(out) \in Jobs /\ owed' = owed \cup {Head(out)})
    BY <1>12 DEF BrokerReads, BrokerTakes
  <2>3. UNCHANGED <<cache, cur, in, calls>>
    BY <1>12 DEF BrokerReads
  <2> QED BY <1>0, <2>1, <2>2, <2>3 DEF WayInv, InIn, Sent
<1>13. ASSUME NEW j \in Jobs, Respond(j) PROVE WayInv'
  <2>1. /\ j \in owed /\ owed' = owed \ {j} /\ in' = Append(in, [seq |-> seq[j], of |-> j])
        /\ UNCHANGED <<cache, cur, out, calls>>
    BY <1>13 DEF Respond
  <2>2. /\ Sent(j) /\ ~InIn(j) /\ answer[j] = None /\ ~Has(out, j) /\ seq[j] # 0
        /\ seq[j] \in 0 .. Cardinality(Jobs) /\ j \notin Requests
    <3>1. Sent(j) /\ ~InIn(j) /\ answer[j] = None /\ ~Has(out, j)
      BY <1>0, <2>1 DEF WayInv
    <3>2. call[j] # "none"
      BY <3>1 DEF Sent
    <3>3. seq[j] \in 1 .. pendingSeq /\ seq[j] \in 0 .. Cardinality(Jobs)
      BY <1>0, <3>2 DEF NumberInv, TypeOK
    <3> QED BY <3>1, <3>3
  <2>3. /\ \A i, k \in 1 .. Len(in') : in'[i].of = in'[k].of /\ in'[i].of \in Jobs => i = k
        /\ \A i \in 1 .. Len(in') :
              IF in'[i].seq = 0 THEN in'[i].of \in Requests
                                ELSE in'[i].of \in Jobs /\ in'[i].seq = seq[in'[i].of]
        /\ \A k \in Jobs : InIn(k)' => InIn(k) \/ k = j
    <3> DEFINE m == [seq |-> seq[j], of |-> j]
    <3>1. /\ m \in [seq : 0 .. Cardinality(Jobs), of : Jobs \cup Requests]
          /\ m.of = j /\ m.seq = seq[j] /\ in' = Append(in, m)
      BY <2>1, <2>2
    <3> HIDE DEF m
    <3> QED BY <1>0, <2>2, <3>1, InAppend
  <2> QED BY <1>0, <2>1, <2>2, <2>3 DEF WayInv, Sent
<1>14. ASSUME NEW r \in Requests, PeerAsks(r) PROVE WayInv'
  <2>1. in' = Append(in, [seq |-> 0, of |-> r]) /\ UNCHANGED <<cache, cur, out, owed, calls>>
    BY <1>14 DEF PeerAsks
  <2>2. /\ \A i, k \in 1 .. Len(in') : in'[i].of = in'[k].of /\ in'[i].of \in Jobs => i = k
        /\ \A i \in 1 .. Len(in') :
              IF in'[i].seq = 0 THEN in'[i].of \in Requests
                                ELSE in'[i].of \in Jobs /\ in'[i].seq = seq[in'[i].of]
        /\ \A k \in Jobs : InIn(k)' => InIn(k)
    <3> DEFINE m == [seq |-> 0, of |-> r]
    <3>1. /\ m \in [seq : 0 .. Cardinality(Jobs), of : Jobs \cup Requests]
          /\ m.of = r /\ m.seq = 0 /\ r \notin Jobs /\ in' = Append(in, m)
      BY <2>1, FinitelyMany
    <3> HIDE DEF m
    <3> QED BY <1>0, <3>1, InAppend
  <2> QED BY <1>0, <2>1, <2>2 DEF WayInv, Sent
<1> QED
  BY <1>1, <1>2, <1>3, <1>4, <1>5, <1>6, <1>8, <1>9, <1>10, <1>11, <1>12, <1>13, <1>14,
     WayChanges

-----------------------------------------------------------------------------
\* The steps that have to do with the end of the client, and all others.
LEMMA EndsChange ==
  ASSUME Next
  PROVE  \/ /\ UNCHANGED <<ends, conn>>
            /\ flags' = flags \/ (flags = {} /\ flags' = {"Start"})
         \/ \E p \in Procs : MarkError(p)
         \/ \E k \in Users : CloseUser(k)
         \/ \E k \in Closers : Close(k)
         \/ Closing
<1>1. CASE Start \/ \E c \in Calls : CallBegin(c)
  BY <1>1 DEF Start, CallBegin
<1>2. CASE \/ \E j \in Jobs : Caller(j) \/ Respond(j)
           \/ \E r \in Requests : Serve(r) \/ PeerAsks(r)
  BY <1>2 DEF Caller, Queue, Return, Respond, Serve, PeerAsks
<1>3. CASE Writer \/ Reader
  BY <1>3 DEF Writer, WriterTakes, WriterDrops, WriterGetConn, Write, WriteFails, Reader,
     ReaderGetConn, ReaderLeaves, Read, ReadFails
<1>4. CASE \E p \in Procs : OnError(p)
  BY <1>4 DEF OnError, IsError, MarkPanics
<1>5. CASE Broker \/ Break
  BY <1>5 DEF Broker, BrokerReads, BrokerCloses, Break
<1> QED BY <1>1, <1>2, <1>3, <1>4, <1>5 DEF Next

\* A goroutine in the middle of IsError has just got there, or has stayed.
LEMMA MarkChange ==
  ASSUME TypeOK, Next, NEW p \in Procs, pc'[p] = "mark"
  PROVE  \/ ~Pardoned /\ UNCHANGED <<flags, calls, cur, conn, ends>>
         \/ /\ pc[p] = "mark" /\ ~MarkError(p)
            /\ p = "writer" => cur' = cur /\ ~Handled
            /\ p = "reader" => ~Read
<1> USE DEF Goto
<1>1. CASE \E q \in Procs : OnError(q)
  <2>1. ASSUME NEW q \in Procs, IsError(q) PROVE \/ q = p /\ ~Pardoned
                                                 \/ pc[p] = "mark" /\ cur' = cur
    BY <2>1 DEF IsError, TypeOK, Procs
  <2>2. ASSUME NEW q \in Procs, MarkError(q) PROVE pc[p] = "mark" /\ q # p /\ cur' = cur
    BY <2>2 DEF MarkError, TypeOK, Procs
  <2>3. ASSUME NEW q \in Procs, MarkPanics(q)
        PROVE  pc[p] = "mark" /\ (p = "writer" => cur' = cur) /\ q # p
    BY <2>3 DEF MarkPanics, Handled, TypeOK, Procs
  <2>4. p = "writer" => ~Handled
    BY DEF Handled, TypeOK, Procs
  <2>5. p = "reader" => ~Read
    BY DEF Read, TypeOK, Procs
  <2>6. ~MarkError(p)
    BY DEF MarkError, TypeOK, Procs
  <2> QED BY <1>1, <2>1, <2>2, <2>3, <2>4, <2>5, <2>6 DEF OnError, IsError
<1>2. CASE ~\E q \in Procs : OnError(q)
  <2>1. pc[p] = "mark"
    <3>1. pc' = pc \/ \E q \in Procs, l \in {"idle", "loop", "read", "write", "error", "gone"} :
                         pc' = [pc EXCEPT ![q] = l]
      BY <1>2 DEF Next, Start, CallBegin, Caller, Queue, Return, Respond, Writer, WriterTakes,
         WriterDrops, WriterGetConn, Write, WriteFails, Reader, ReaderGetConn, ReaderLeaves,
         Read, ReadFails, CloseUser, Close, CloseBegin, MqStopSubscribe, TimerStart, Timer,
         CloseConn, StopProducer, ProducerStops, StopConsumer, CloseEnd, Closing, MqClose,
         MqCloseReturns, Broker, BrokerReads, BrokerCloses, Break, Serve, PeerAsks, Handled, Procs
    <3> QED BY <3>1 DEF TypeOK
  <2>2. p = "writer" => ~Handled
    BY DEF Handled, TypeOK, Procs
  <2>3. p = "writer" => ~WriterTakes
    BY <2>1 DEF WriterTakes
  <2>4. cur' = cur \/ WriterTakes \/ Handled
    BY WayChanges DEF way, Begin, Queue, Respond, Serve, PeerAsks, Read, BrokerReads, Write
  <2> QED BY <1>2, <2>1, <2>2, <2>3, <2>4 DEF OnError, Read
<1> QED BY <1>1, <1>2

\* What a step cannot take back, and how OnMqClose is called.
LEMMA Lasting ==
  ASSUME ClientInv, Next
  PROVE  /\ \A j \in Jobs : Returned(j) => Returned(j)'
         /\ \A j \in Jobs : answer[j] # None => answer'[j] # None
         /\ \A j \in Jobs : call'[j] = "none" => call[j] = "none"
         /\ call[OnMqClose] = "none" /\ ~MqClose => call'[OnMqClose] = "none"
         /\ conn' => conn
         /\ timedOut => timedOut'
         /\ "Err" \in flags => "Err" \in flags'
<1>0. TypeOK /\ WayInv
  BY DEF ClientInv
<1>1. /\ conn' => conn
      /\ timedOut => timedOut'
      /\ "Err" \in flags => "Err" \in flags'
  <2>1. CASE \/ UNCHANGED <<ends, conn>> /\ (flags' = flags \/ (flags = {} /\ flags' = {"Start"}))
             \/ \E p \in Procs : MarkError(p)
             \/ \E k \in Users : CloseUser(k)
             \/ Closing
    BY <2>1 DEF MarkError, CloseUser, Closing, MqClose, MqCloseReturns
  <2>2. CASE \E k \in Closers : Close(k)
    <3>1. conn' = conn \/ conn' = FALSE
      BY <2>2 DEF Close, CloseBegin, MqStopSubscribe, TimerStart, Timer, CloseConn,
         StopProducer, ProducerStops, StopConsumer, CloseEnd
    <3>2. timedOut' = timedOut \/ timedOut' = (timedOut \/ mqClose # "done")
      BY <2>2 DEF Close, CloseBegin, MqStopSubscribe, TimerStart, Timer, CloseConn,
         StopProducer, ProducerStops, StopConsumer, CloseEnd
    <3>3. flags' = flags \/ flags' = flags \cup {"StopSubscribe"}
      BY <2>2 DEF Close, CloseBegin, MqStopSubscribe, TimerStart, Timer, CloseConn,
         StopProducer, ProducerStops, StopConsumer, CloseEnd
    <3>4. conn' => conn
      BY <3>1
    <3>5. timedOut => timedOut'
      BY <3>2, Zenon
    <3> QED BY <3>3, <3>4, <3>5
  <2> QED BY <2>1, <2>2, EndsChange
<1>2. CASE UNCHANGED calls
  BY <1>1, <1>2 DEF Returned
<1>3. ASSUME NEW j \in Jobs, Begin(j) \/ Queue(j) \/ Return(j)
      PROVE  /\ \A i \in Jobs : call'[i] # call[i] =>
                   i = j /\ ~Returned(i) /\ call'[i] # "none"
             /\ answer' = answer
  BY <1>0, <1>3 DEF Begin, Queue, Return, Returned, TypeOK
<1>4. ASSUME Handled
      PROVE  /\ \A i \in Jobs : call'[i] # call[i] =>
                   i = cur /\ ~Returned(i) /\ call'[i] = "waiting"
             /\ answer' = answer
  <2>1. cur \in Jobs => call[cur] = "queued"
    BY <1>0 DEF WayInv
  <2> QED BY <1>0, <1>4, <2>1 DEF Handled, Returned, TypeOK
<1>5. CASE Read /\ ReadReply
  <2>1. PICK j \in Jobs : answer' = [answer EXCEPT ![j] = j]
    BY <1>5, ReplyFound
  <2> QED BY <1>0, <1>1, <1>5, <2>1 DEF ReadReply, Returned, TypeOK
<1>6. OnMqClose \in Jobs
  BY DEF Jobs
<1>7. ASSUME call[OnMqClose] = "none", ~MqClose PROVE call'[OnMqClose] = "none"
  <2>1. ASSUME NEW j \in Jobs, \/ Begin(j) /\ j # OnMqClose
                               \/ Queue(j) \/ Return(j)
        PROVE  call'[OnMqClose] = "none"
    BY <1>0, <1>6, <1>7, <2>1 DEF Begin, Queue, Return, TypeOK
  <2>2. ASSUME Handled PROVE call'[OnMqClose] = "none"
    BY <1>0, <1>6, <1>7, <2>2 DEF Handled, WayInv, TypeOK
  <2> QED BY <1>7, <2>1, <2>2, CallsChange DEF ReadReply
<1> QED BY <1>1, <1>2, <1>3, <1>4, <1>5, <1>7, CallsChange DEF Returned

LEMMA MutexStep == ClientInv /\ Next => MutexInv'
<1> SUFFICES ASSUME ClientInv, Next PROVE MutexInv'
  OBVIOUS
<1> USE DEF Step
<1>0. TypeOK /\ MutexInv /\ ("Err" \in flags => "Err" \in flags')
  BY Lasting DEF ClientInv
<1>1. Procs \subseteq Closers /\ Users \subseteq Closers /\ None \notin Closers
  BY DEF Closers
<1>2. \A p \in Procs : pc'[p] = "mark" => closer'[p] = "none"
  <2> SUFFICES ASSUME NEW p \in Procs, pc'[p] = "mark" PROVE closer'[p] = "none"
    OBVIOUS
  <2>1. CASE ~Pardoned /\ UNCHANGED <<flags, calls, cur, conn, ends>>
    BY <1>0, <1>1, <2>1 DEF Pardoned, MutexInv, TypeOK
  <2>2. CASE pc[p] = "mark" /\ ~MarkError(p)
    <3>1. closer[p] = "none" /\ p \in Closers /\ p \notin Users
      BY <1>0, <1>1, <2>2 DEF MutexInv
    <3>2. CASE \E k \in Closers : Close(k)
      BY <1>0, <3>1, <3>2 DEF Close, CloseBegin, MqStopSubscribe, TimerStart, Timer, CloseConn,
         StopProducer, ProducerStops, StopConsumer, CloseEnd, TypeOK
    <3>3. CASE ~\E k \in Closers : Close(k)
      BY <1>0, <2>2, <3>1, <3>3, EndsChange DEF MarkError, CloseUser, Closing, MqClose,
         MqCloseReturns, TypeOK
    <3> QED BY <3>2, <3>3
  <2> QED BY <1>0, <2>1, <2>2, MarkChange
<1>3. /\ \A k \in Closers : closer'[k] \in Inside => mutex' = k
      /\ \A p \in Procs : closer'[p] # "none" => "Err" \in flags'
  <2>1. CASE UNCHANGED <<closer, mutex>>
    BY <1>0, <1>1, <2>1 DEF MutexInv
  <2>2. ASSUME NEW k \in Closers, closer[k] # "none" \/ k \in Users,
               NEW l \in {"lock", "subscribed", "unsubscribing", "timing", "conn", "producer",
                          "draining", "consumer", "leaving", "done"},
               closer' = [closer EXCEPT ![k] = l],
               \/ mutex' = mutex /\ (l \in Inside => closer[k] \in Inside)
               \/ mutex' = k /\ mutex = None
               \/ mutex' = None /\ l = "done" /\ closer[k] \in Inside
        PROVE  /\ \A i \in Closers : closer'[i] \in Inside => mutex' = i
               /\ \A p \in Procs : closer'[p] # "none" => "Err" \in flags'
    BY <1>0, <1>1, <2>2 DEF MutexInv, Inside, TypeOK
  <2>3. ASSUME NEW p \in Procs, MarkError(p)
        PROVE  /\ \A i \in Closers : closer'[i] \in Inside => mutex' = i
               /\ \A q \in Procs : closer'[q] # "none" => "Err" \in flags'
    BY <1>0, <1>1, <2>3 DEF MarkError, MutexInv, Inside, TypeOK
  <2>4. ASSUME NEW k \in Users, CloseUser(k)
        PROVE  /\ \A i \in Closers : closer'[i] \in Inside => mutex' = i
               /\ \A q \in Procs : closer'[q] # "none" => "Err" \in flags'
    BY <1>0, <1>1, <2>2, <2>4 DEF CloseUser, Inside
  <2>5. ASSUME NEW k \in Closers, Close(k)
        PROVE  /\ \A i \in Closers : closer'[i] \in Inside => mutex' = i
               /\ \A q \in Procs : closer'[q] # "none" => "Err" \in flags'
    <3>1. closer[k] # "none" /\ \E l \in {"lock", "subscribed", "unsubscribing", "timing",
              "conn", "producer", "draining", "consumer", "leaving", "done"} :
            /\ closer' = [closer EXCEPT ![k] = l]
            /\ \/ mutex' = mutex /\ (l \in Inside => closer[k] \in Inside)
               \/ mutex' = k /\ mutex = None
               \/ mutex' = None /\ l = "done" /\ closer[k] \in Inside
      BY <2>5 DEF Close, CloseBegin, Free, MqStopSubscribe, TimerStart, Timer, CloseConn,
         StopProducer, ProducerStops, StopConsumer, CloseEnd, Inside
    <3> QED BY <2>2, <3>1
  <2> QED BY <2>1, <2>3, <2>4, <2>5, EndsChange DEF Closing, MqClose, MqCloseReturns
<1> QED BY <1>2, <1>3 DEF MutexInv

LEMMA CloseOrderStep ==
  ASSUME TypeOK, MutexInv, CloseOrder, Next, ~timedOut'
  PROVE  CloseOrder'
<1> USE DEF Step
<1>1. Procs \subseteq Closers /\ Users \subseteq Closers /\ None \notin Closers
  BY DEF Closers
<1>2. CASE UNCHANGED <<ends, conn>> /\ (flags' = flags \/ (flags = {} /\ flags' = {"Start"}))
  BY <1>2 DEF CloseOrder, Ending
<1>3. ASSUME NEW p \in Procs, MarkError(p) PROVE CloseOrder'
  <2>1. closer[p] = "none" /\ p \in Closers
    BY <1>1, <1>3 DEF MarkError, MutexInv
  <2>2. \A k \in Closers : closer'[k] = IF k = p THEN "lock" ELSE closer[k]
    BY <1>3 DEF MarkError, TypeOK
  <2>3. Ending' <=> Ending
    BY <1>3 DEF MarkError, Ending
  <2> QED BY <1>3, <2>1, <2>2, <2>3 DEF MarkError, CloseOrder
\* A goroutine in Close goes on, and MqClose and the connection stay.
<1>4. ASSUME NEW k \in Closers, NEW l \in {"lock", "subscribed", "unsubscribing", "timing", "conn",
                 "producer", "draining", "consumer", "leaving", "done"},
             closer' = [closer EXCEPT ![k] = l], mqClose' = mqClose, conn' = conn,
             Ending' <=> Ending, l # "timing",
             closer[k] = "timing" => mqClose = "done",
             l \in {"subscribed", "unsubscribing"} => mqClose = "none",
             l = "conn" => mqClose = "done"
      PROVE  CloseOrder'
  <2>1. \A i \in Closers : closer'[i] = IF i = k THEN l ELSE closer[i]
    BY <1>4 DEF TypeOK
  <2> QED BY <1>4, <2>1 DEF CloseOrder
<1>5. ASSUME NEW k \in Users, CloseUser(k) PROVE CloseOrder'
  <2>1. closer[k] = "none" /\ k \in Closers /\ flags' = flags /\ mqClose' = mqClose /\ conn' = conn
        /\ closer' = [closer EXCEPT ![k] = "lock"]
    BY <1>1, <1>5 DEF CloseUser
  <2> QED BY <1>4, <2>1 DEF Ending
<1>6. ASSUME NEW k \in Closers, CloseBegin(k) PROVE CloseOrder'
  <2>1. \A i \in Closers : closer[i] \notin Inside
    BY <1>1, <1>6 DEF CloseBegin, Free, MutexInv
  <2>2. ~Ending => mqClose = "none"
    BY <2>1 DEF CloseOrder, Inside, TypeOK
  <2>3. closer[k] = "lock" /\ flags' = flags /\ mqClose' = mqClose /\ conn' = conn
    BY <1>6 DEF CloseBegin
  <2>4. \/ closer' = [closer EXCEPT ![k] = "done"]
        \/ closer' = [closer EXCEPT ![k] = "producer"]
        \/ closer' = [closer EXCEPT ![k] = "subscribed"] /\ ~Ending
    BY <1>6 DEF CloseBegin, Ending
  <2> QED BY <1>4, <2>2, <2>3, <2>4 DEF Ending
<1>7. ASSUME NEW k \in Closers, MqStopSubscribe(k) PROVE CloseOrder'
  <2>1. /\ closer[k] = "subscribed" /\ closer' = [closer EXCEPT ![k] = "unsubscribing"]
        /\ flags' = flags \cup {"StopSubscribe"} /\ mqClose' = mqClose /\ conn' = conn
    BY <1>7 DEF MqStopSubscribe
  <2>2. mqClose = "none"
    BY <2>1 DEF CloseOrder
  <2>3. Ending' <=> Ending
    BY <2>1 DEF Ending
  <2> QED BY <1>4, <2>1, <2>2, <2>3
<1>8. ASSUME NEW k \in Closers, TimerStart(k) PROVE CloseOrder'
  <2>1. /\ closer[k] \in {"subscribed", "unsubscribing"}
        /\ closer' = [closer EXCEPT ![k] = "timing"]
        /\ flags' = flags /\ mqClose' = "check" /\ conn' = conn
    BY <1>8 DEF TimerStart
  <2>2. \A i \in Closers : i # k => closer[i] \notin Inside
    BY <2>1 DEF MutexInv, Inside
  <2>3. mqClose = "none" /\ \A i \in Closers : closer'[i] = IF i = k THEN "timing" ELSE closer[i]
    BY <2>1 DEF CloseOrder, TypeOK
  <2> QED BY <2>1, <2>2, <2>3 DEF CloseOrder, Inside, Ending
<1>9. ASSUME NEW k \in Closers, Timer(k) PROVE CloseOrder'
  <2>1. /\ closer[k] = "timing" /\ closer' = [closer EXCEPT ![k] = "conn"]
        /\ flags' = flags /\ mqClose' = mqClose /\ conn' = conn /\ mqClose = "done"
    BY <1>9 DEF Timer
  <2> QED BY <1>4, <2>1 DEF Ending
<1>10. ASSUME NEW k \in Closers, CloseConn(k) PROVE CloseOrder'
  <2>1. /\ closer[k] = "conn" /\ closer' = [closer EXCEPT ![k] = "producer"]
        /\ flags' = flags /\ mqClose' = mqClose
    BY <1>10 DEF CloseConn
  <2>2. /\ mqClose = "done"
        /\ \A i \in Closers : closer'[i] = IF i = k THEN "producer" ELSE closer[i]
    BY <2>1 DEF CloseOrder, TypeOK
  <2> QED BY <2>1, <2>2 DEF CloseOrder, Ending
<1>11. ASSUME NEW k \in Closers,
              StopProducer(k) \/ ProducerStops(k) \/ StopConsumer(k) \/ CloseEnd(k)
       PROVE  CloseOrder'
  <2>1. /\ closer[k] \in {"producer", "draining", "consumer", "leaving"}
        /\ \E l \in {"draining", "consumer", "leaving", "done"} : closer' = [closer EXCEPT ![k] = l]
        /\ flags' = flags /\ mqClose' = mqClose /\ conn' = conn
    BY <1>11 DEF StopProducer, ProducerStops, StopConsumer, CloseEnd
  <2> QED BY <1>4, <2>1 DEF Ending
<1>12. CASE MqClose
  <2>1. mqClose = "check" /\ ~Ending
    BY <1>12 DEF MqClose, CloseOrder
  <2>2. /\ mqClose' = "closing" /\ flags' = flags \cup {"Stopping"}
        /\ closer' = closer /\ conn' = conn
    BY <1>12, <2>1 DEF MqClose, Ending
  <2> QED BY <2>1, <2>2 DEF CloseOrder, Ending
<1>13. CASE MqCloseReturns
  BY <1>13 DEF MqCloseReturns, CloseOrder, Ending
<1> QED
  BY <1>2, <1>3, <1>5, <1>6, <1>7, <1>8, <1>9, <1>10, <1>11, <1>12, <1>13, EndsChange
     DEF Close, Closing

LEMMA TimerStep == ClientInv /\ Next => TimerInv'
<1> SUFFICES ASSUME ClientInv, Next, ~timedOut'
             PROVE  /\ CloseOrder'
                    /\ mqClose' \in {"none", "check"} => call'[OnMqClose] = "none"
                    /\ mqClose' = "done" => answer'[OnMqClose] # None
                    /\ pc'["reader"] = "mark" => answer'[OnMqClose] = None
                    /\ pc'["writer"] = "mark" => ~Sent(OnMqClose)' /\ cur' # OnMqClose
  BY DEF TimerInv
<1>0. TypeOK /\ NumberInv /\ WayInv /\ MutexInv /\ OrderInv /\ OnMqClose \in Jobs
  BY DEF ClientInv, Jobs
<1>1. /\ CloseOrder
      /\ mqClose \in {"none", "check"} => call[OnMqClose] = "none"
      /\ mqClose = "done" => answer[OnMqClose] # None
      /\ pc["reader"] = "mark" => answer[OnMqClose] = None
      /\ pc["writer"] = "mark" => ~Sent(OnMqClose) /\ cur # OnMqClose
  BY Lasting DEF ClientInv, TimerInv
<1>2. CloseOrder'
  BY <1>0, <1>1, CloseOrderStep
<1>3. mqClose' \in {"none", "check"} => call'[OnMqClose] = "none"
  <2>1. CASE mqClose' = mqClose \/ \E k \in Closers : TimerStart(k)
    <3>1. mqClose' \in {"none", "check"} => mqClose \in {"none", "check"}
      BY <1>1, <2>1 DEF TimerStart, Step, CloseOrder
    <3>2. ASSUME MqClose PROVE mqClose' \notin {"none", "check"}
      BY <3>2 DEF MqClose
    <3> QED BY <1>1, <3>1, <3>2, Lasting
  <2>2. CASE MqClose \/ MqCloseReturns
    BY <2>2 DEF MqClose, MqCloseReturns
  <2>3. mqClose' = mqClose \/ MqClose \/ MqCloseReturns \/ \E k \in Closers : TimerStart(k)
    BY EndsChange DEF MarkError, CloseUser, Closing, Close, CloseBegin, MqStopSubscribe, Timer,
       CloseConn, StopProducer, ProducerStops, StopConsumer, CloseEnd
  <2> QED BY <2>1, <2>2, <2>3
<1>4. mqClose' = "done" => answer'[OnMqClose] # None
  <2>1. ASSUME mqClose' = "done" PROVE answer[OnMqClose] # None
    <3>1. CASE MqCloseReturns
      <4>1. mqClose = "closing" /\ Returned(OnMqClose)
        BY <3>1 DEF MqCloseReturns
      <4> QED BY <1>0, <4>1 DEF Returned, NumberInv
    <3>2. CASE MqClose
      BY <1>1, <2>1, <3>2 DEF MqClose, CloseOrder, Ending
    <3>3. mqClose' = mqClose \/ MqClose \/ MqCloseReturns \/ \E k \in Closers : TimerStart(k)
      BY EndsChange DEF MarkError, CloseUser, Closing, Close, CloseBegin, MqStopSubscribe, Timer,
         CloseConn, StopProducer, ProducerStops, StopConsumer, CloseEnd
    <3> QED BY <1>1, <2>1, <3>1, <3>2, <3>3 DEF TimerStart
  <2> QED BY <1>0, <2>1, Lasting
\* Who enters IsError now has found that OnMqClose has not been called.
<1>5. ~Pardoned => call[OnMqClose] = "none"
  BY <1>0, <1>1 DEF Pardoned, CloseOrder, Ending, TypeOK
<1>6. call[OnMqClose] = "none" =>
         answer[OnMqClose] = None /\ ~Sent(OnMqClose) /\ cur # OnMqClose
  BY <1>0 DEF WayInv, Sent
<1>7. ASSUME pc'["reader"] = "mark" PROVE answer'[OnMqClose] = None
  <2>1. CASE ~Pardoned /\ UNCHANGED <<flags, calls, cur, conn, ends>>
    BY <1>5, <1>6, <2>1
  <2>2. CASE pc["reader"] = "mark" /\ ~Read
    <3>1. answer[OnMqClose] = None
      BY <1>1, <2>2
    <3> QED BY <2>2, <3>1, CallsChange DEF Begin, Queue, Return, Handled
  <2> QED BY <1>0, <1>7, <2>1, <2>2, MarkChange DEF Procs
<1>8. ASSUME pc'["writer"] = "mark" PROVE ~Sent(OnMqClose)' /\ cur' # OnMqClose
  <2>1. CASE ~Pardoned /\ UNCHANGED <<flags, calls, cur, conn, ends>>
    BY <1>5, <1>6, <2>1 DEF Sent
  <2>2. CASE pc["writer"] = "mark" /\ cur' = cur /\ ~Handled
    <3>1. ~Sent(OnMqClose) /\ cur # OnMqClose
      BY <1>1, <2>2
    <3>2. \A j \in Jobs : Begin(j) \/ Queue(j) \/ Return(j) => (Sent(OnMqClose)' => Sent(OnMqClose))
      BY <1>0 DEF Begin, Queue, Return, Sent, TypeOK
    <3> QED BY <2>2, <3>1, <3>2, CallsChange DEF ReadReply, Sent
  <2> QED BY <1>0, <1>8, <2>1, <2>2, MarkChange DEF Procs
<1> QED BY <1>2, <1>3, <1>4, <1>7, <1>8

LEMMA OrderStep == ClientInv /\ Next => OrderInv'
<1> SUFFICES ASSUME ClientInv, Next PROVE OrderInv'
  OBVIOUS
<1> USE DEF Step
<1>0. /\ TypeOK /\ MutexInv /\ OrderInv
      /\ OnMqClose \in Jobs /\ OnMqStopSubscribe \in Jobs /\ Procs \subseteq Closers
  BY DEF ClientInv, Jobs, Closers
<1>1. Returned(OnMqStopSubscribe) => Returned(OnMqStopSubscribe)'
  BY <1>0, Lasting
<1>3. "StopSubscribe" \in flags' =>
         Returned(OnMqStopSubscribe)' \/ \E k \in Closers : closer'[k] = "unsubscribing"
  <2> SUFFICES ASSUME "StopSubscribe" \in flags', ~Returned(OnMqStopSubscribe)'
               PROVE  \E k \in Closers : closer'[k] = "unsubscribing"
    OBVIOUS
  <2>1. ASSUME NEW k \in Closers, MqStopSubscribe(k) PROVE closer'[k] = "unsubscribing"
    BY <1>0, <2>1 DEF MqStopSubscribe, TypeOK
  <2>2. CASE ~\E k \in Closers : MqStopSubscribe(k)
    <3>1. "StopSubscribe" \in flags
      <4>1. ASSUME NEW k \in Closers, Close(k) PROVE flags' = flags
        <5>1. ~MqStopSubscribe(k)
          BY <2>2
        <5> QED
          BY <4>1, <5>1 DEF Close, CloseBegin, TimerStart, Timer, CloseConn, StopProducer,
             ProducerStops, StopConsumer, CloseEnd
      <4> QED BY <4>1, EndsChange DEF MarkError, CloseUser, Closing, MqClose, MqCloseReturns
    <3>2. PICK k \in Closers : closer[k] = "unsubscribing"
      BY <1>0, <1>1, <3>1 DEF OrderInv
    <3>3. ASSUME NEW i \in Closers, TimerStart(i) PROVE closer'[k] = "unsubscribing"
      BY <1>0, <1>1, <3>2, <3>3 DEF TimerStart, TypeOK
    <3>4. ASSUME NEW i \in Closers, Close(i), ~TimerStart(i), ~MqStopSubscribe(i)
          PROVE  closer'[k] = "unsubscribing"
      BY <1>0, <3>2, <3>4 DEF Close, CloseBegin, Timer, CloseConn, StopProducer, ProducerStops,
         StopConsumer, CloseEnd, TypeOK
    <3>5. ASSUME NEW i \in Procs, MarkError(i) PROVE closer'[k] = "unsubscribing"
      BY <1>0, <3>2, <3>5 DEF MarkError, MutexInv, TypeOK
    <3>6. ASSUME NEW i \in Users, CloseUser(i) PROVE closer'[k] = "unsubscribing"
      BY <1>0, <3>2, <3>6 DEF CloseUser, TypeOK
    <3> QED
      BY <2>2, <3>2, <3>3, <3>4, <3>5, <3>6, EndsChange DEF Closing, MqClose, MqCloseReturns
  <2> QED BY <2>1, <2>2
<1>4. mqClose' # "none" \/ Ending' => mqClose # "none" \/ Ending \/ \E k \in Closers : TimerStart(k)
  BY EndsChange DEF MarkError, CloseUser, Closing, MqClose, MqCloseReturns, Close, CloseBegin,
     MqStopSubscribe, Timer, CloseConn, StopProducer, ProducerStops, StopConsumer, CloseEnd, Ending
\* Timer is started by a Close whose OnMqStopSubscribe, or that of an earlier Close, has returned.
<1>5. ASSUME NEW k \in Closers, TimerStart(k) PROVE Returned(OnMqStopSubscribe)
  <2>1. CASE closer[k] = "unsubscribing"
    BY <1>5, <2>1 DEF TimerStart
  <2>2. CASE closer[k] = "subscribed" /\ Unsubscribed
    <3>1. \A i \in Closers : closer[i] # "unsubscribing"
      BY <1>0, <2>2 DEF MutexInv, Inside
    <3> QED BY <1>0, <2>2, <3>1 DEF OrderInv, Unsubscribed, Ending
  <2> QED BY <1>5, <2>1, <2>2 DEF TimerStart
<1>6. mqClose' # "none" \/ Ending' => Returned(OnMqStopSubscribe)'
  BY <1>0, <1>1, <1>4, <1>5 DEF OrderInv
<1>7. ClosesInOrder'
  <2>1. CASE call[OnMqClose] # "none"
    BY <1>0, <1>1, <2>1 DEF OrderInv, ClosesInOrder
  <2>2. CASE MqClose
    BY <1>0, <1>1, <2>2 DEF MqClose, OrderInv, ClosesInOrder
  <2> QED BY <2>1, <2>2, Lasting DEF ClosesInOrder
<1> QED BY <1>3, <1>6, <1>7 DEF OrderInv

-----------------------------------------------------------------------------
LEMMA Inductive == ClientInv /\ [Next]_vars => ClientInv'
<1>1. CASE Next
  BY <1>1, TypeStep, PcStep, NumberStep, WayStep, MutexStep, TimerStep, OrderStep DEF ClientInv
<1>2. ASSUME ClientInv, UNCHANGED vars PROVE ClientInv'
  <2>1. TypeOK' /\ PcInv'
    BY <1>2 DEF vars, ClientInv, TypeOK, PcInv
  <2>2. NumberInv' /\ WayInv'
    BY <1>2 DEF vars, ClientInv, NumberInv, Begun, WayInv, Has, InIn, Unique, Sent
  <2>3. MutexInv' /\ TimerInv' /\ OrderInv'
    BY <1>2 DEF vars, ClientInv, MutexInv, TimerInv, CloseOrder, OrderInv, Ending, Sent,
       Returned, ClosesInOrder
  <2> QED BY <2>1, <2>2, <2>3 DEF ClientInv
<1> QED BY <1>1, <1>2

(* Whatever the order of Calls, replies, errors and Closes, the invariant  *)
(* of the numbers, of the way of a job and of c.mutex holds.               *)
THEOREM Invariance == Spec => []ClientInv
<1> QED BY Initially, Inductive, PTL DEF Spec

(* Every variable of the client keeps its type; in particular pendingSeq   *)
(* never passes the number of Calls made.                                  *)
THEOREM TypeCorrect == Spec => []TypeOK
<1>1. ClientInv => TypeOK
  BY DEF ClientInv
<1> QED BY <1>1, Invariance, PTL

(* A reply finds the entry of its Call in pendingMap, goes to that Call    *)
(* only, and the entry is gone exactly when it has: for any number of      *)
(* Calls, and replies in any order.                                        *)
THEOREM RepliesFound == Spec => []PendingExact
<1>1. ASSUME ClientInv PROVE PendingExact
  <2>0. TypeOK /\ NumberInv /\ WayInv
    BY <1>1 DEF ClientInv
  <2>1. ASSUME NEW i \in 1 .. Len(in), in[i].seq # 0 PROVE pendingMap[in[i].seq] # None
    <3> DEFINE j == in[i].of
    <3>1. j \in Jobs /\ in[i].seq = seq[j] /\ Sent(j) /\ answer[j] = None
      BY <2>0, <2>1 DEF WayInv, InIn
    <3>2. pendingMap[seq[j]] = j
      BY <2>0, <3>1 DEF NumberInv, Begun, Sent
    <3> QED BY <3>1, <3>2
  <2>2. ASSUME NEW j \in Jobs, call[j] # "none"
        PROVE  answer[j] = None <=> \E n \in Seqs : pendingMap[n] = j
    <3>1. j \in Begun /\ seq[j] \in Seqs
      BY <2>0, <2>2, FinitelyMany DEF NumberInv, Begun, Seqs, TypeOK
    <3>2. answer[j] = None => pendingMap[seq[j]] = j
      BY <2>0, <3>1 DEF NumberInv
    <3>3. \A n \in Seqs : pendingMap[n] = j => answer[j] = None
      BY <2>0 DEF NumberInv
    <3> QED BY <3>1, <3>2, <3>3
  <2> QED BY <2>0, <2>1, <2>2 DEF PendingExact, NumberInv
<1> QED BY <1>1, Invariance, PTL

(* IsError compares connections only while there is one, unless Timer gave *)
(* up: CloseConn waits for the answer to OnMqClose, which needs the writer *)
(* and the reader, and one that is in IsError then has not got it there.   *)
THEOREM ErrorFindsConn == Spec => []ErrorHasConn
<1>1. ASSUME ClientInv, NEW p \in Procs, pc[p] = "mark", ~conn, ~timedOut PROVE FALSE
  <2>1. answer[OnMqClose] # None
    BY <1>1 DEF ClientInv, TimerInv, CloseOrder
  <2>2. Sent(OnMqClose)
    BY <1>1, <2>1 DEF ClientInv, WayInv, Jobs
  <2> QED BY <1>1, <2>1, <2>2 DEF ClientInv, TimerInv, Procs
<1>2. ClientInv => ErrorHasConn
  BY <1>1 DEF ErrorHasConn
<1> QED BY <1>2, Invariance, PTL

(* OnMqClose is not sent before OnMqStopSubscribe has returned, with any   *)
(* number of goroutines in Close.                                          *)
THEOREM EndInOrder == Spec => []ClosesInOrder
<1>1. ClientInv => ClosesInOrder
  BY DEF ClientInv, OrderInv
<1> QED BY <1>1, Invariance, PTL

-----------------------------------------------------------------------------
(* The promise of MqSession.  Besides the order of the requests of the     *)
(* protocol and the way of each of them it needs that the registration is  *)
(* over before anything else begins, and that only a client that has       *)
(* stopped subscribing gives up its connection.                            *)

\* Where a Close is that was not called for an error.
Regular == {"subscribed", "unsubscribing", "timing", "conn"}

RegisterInv ==
    /\ \A k \in Users : closer[k] # "none" => call[OnMqRegister] = "done"
    /\ \A p \in Procs : closer[p] \notin Regular
    /\ \A j \in Jobs : call[j] # "none" => j = OnMqRegister \/ call[OnMqRegister] = "done"

HangUpInv ==
    /\ \A k \in Closers : closer[k] \in {"timing", "conn"} => mqClose # "none"
    /\ ~conn => mqClose # "none"
    /\ mqClose # "none" => call[OnMqStopSubscribe] = "done"

SessionInv == RegisterInv /\ HangUpInv

LEMMA SessionBegins == Init => SessionInv
  BY DEF Init, SessionInv, RegisterInv, HangUpInv, Regular, Closers

\* What lets a Call begin.
Prompted(j) ==
    \/ j = OnMqRegister
    \/ j \in Calls /\ call[OnMqRegister] = "done"
    \/ j = OnMqStopSubscribe /\ \E k \in Closers : closer[k] = "subscribed"
    \/ j = OnMqClose /\ mqClose # "none"

\* The steps that MqSession may see.
LEMMA SessionChanges ==
  ASSUME Next
  PROVE  \/ UNCHANGED <<calls, conn>>
         \/ UNCHANGED calls /\ conn' = FALSE /\ \E k \in Closers : closer[k] = "conn"
         \/ /\ conn' = conn
            /\ \/ \E j \in Jobs : (Begin(j) /\ Prompted(j)) \/ Queue(j) \/ Return(j)
               \/ Handled /\ pc["writer"] # "idle"
               \/ Read /\ ReadReply
<1> USE DEF Step
<1>1. {OnMqRegister, OnMqStopSubscribe, OnMqClose} \subseteq Jobs /\ Calls \subseteq Jobs
  BY DEF Jobs
<1>2. CASE Start \/ \E c \in Calls : CallBegin(c)
  BY <1>1, <1>2 DEF Start, CallBegin, Prompted
<1>3. ASSUME NEW k \in Closers, MqStopSubscribe(k)
      PROVE  conn' = conn /\ Begin(OnMqStopSubscribe) /\ Prompted(OnMqStopSubscribe)
  BY <1>3 DEF MqStopSubscribe, Prompted
<1>4. ASSUME NEW k \in Closers, CloseConn(k)
      PROVE  UNCHANGED calls /\ conn' = FALSE /\ closer[k] = "conn"
  BY <1>4 DEF CloseConn
<1>5. ASSUME NEW k \in Closers, Close(k), ~MqStopSubscribe(k), ~CloseConn(k)
      PROVE  UNCHANGED <<calls, conn>>
  BY <1>5 DEF Close, CloseBegin, TimerStart, Timer, StopProducer, ProducerStops, StopConsumer,
     CloseEnd
<1>6. CASE Closing
  <2>1. CASE MqClose
    <3>1. conn' = conn /\ (UNCHANGED calls \/ Begin(OnMqClose)) /\ Prompted(OnMqClose)
      BY <2>1 DEF MqClose, Prompted
    <3> QED BY <1>1, <3>1
  <2>2. CASE MqCloseReturns
    BY <2>2 DEF MqCloseReturns
  <2> QED BY <1>6, <2>1, <2>2 DEF Closing
<1>7. CASE Broker \/ Break \/ \E k \in Users : CloseUser(k)
  BY <1>7 DEF Broker, BrokerReads, BrokerCloses, Break, CloseUser
<1>8. CASE Writer \/ Reader \/ \E p \in Procs : OnError(p)
  BY <1>8 DEF Writer, WriterTakes, WriterDrops, WriterGetConn, Write, WriteFails, Reader,
     ReaderGetConn, ReaderLeaves, Read, ReadRequest, ReadFails, OnError, IsError, MarkError,
     MarkPanics
<1>9. CASE \/ \E j \in Jobs : Caller(j) \/ Respond(j)
           \/ \E r \in Requests : Serve(r) \/ PeerAsks(r)
  BY <1>9 DEF Caller, Queue, Return, Respond, Serve, PeerAsks
<1>10. CASE \E k \in Closers : Close(k)
  BY <1>1, <1>3, <1>4, <1>5, <1>10
<1> QED BY <1>2, <1>6, <1>7, <1>8, <1>9, <1>10 DEF Next

\* A Call that has returned stays so, and one begins only when it is prompted.
LEMMA CallsGoOn ==
  ASSUME ClientInv, Next, NEW j \in Jobs
  PROVE  /\ call[j] = "done" => call'[j] = "done"
         /\ call'[j] # "none" => call[j] # "none" \/ Prompted(j)
<1>0. TypeOK /\ WayInv
  BY DEF ClientInv
<1>1. ASSUME NEW i \in Jobs, (Begin(i) /\ Prompted(i)) \/ Queue(i) \/ Return(i)
      PROVE  /\ call[j] = "done" => call'[j] = "done"
             /\ call'[j] # "none" => call[j] # "none" \/ Prompted(j)
  BY <1>0, <1>1 DEF Begin, Queue, Return, TypeOK
<1>2. ASSUME Handled
      PROVE  /\ call[j] = "done" => call'[j] = "done"
             /\ call'[j] # "none" => call[j] # "none"
  <2>1. cur \in Jobs => call[cur] = "queued"
    BY <1>0 DEF WayInv
  <2> QED BY <1>0, <1>2, <2>1 DEF Handled, TypeOK
<1>3. CASE call' = call
  BY <1>3
<1> QED BY <1>1, <1>2, <1>3, SessionChanges DEF ReadReply

\* Where a Close comes from that is not called for an error.
LEMMA RegularClose ==
  ASSUME ClientInv, Next, NEW k \in Closers
  PROVE  /\ closer'[k] # "none" => closer[k] # "none" \/ k \in Procs
                                   \/ call[OnMqRegister] = "done"
         /\ closer'[k] \in Regular =>
               closer[k] \in Regular \/ ("Err" \notin flags /\ closer[k] # "none")
         /\ closer'[k] \in {"timing", "conn"} =>
               closer[k] \in {"timing", "conn"} \/ mqClose' = "check"
<1> USE DEF Step, Regular
<1>0. TypeOK
  BY DEF ClientInv
<1>1. ASSUME NEW i \in Closers, Close(i)
      PROVE  /\ closer[i] # "none"
             /\ closer'[i] \in Regular => closer[i] \in Regular \/ "Err" \notin flags
             /\ closer'[i] \in {"timing", "conn"} =>
                   closer[i] \in {"timing", "conn"} \/ mqClose' = "check"
             /\ \A h \in Closers : h # i => closer'[h] = closer[h]
  BY <1>0, <1>1 DEF Close, CloseBegin, MqStopSubscribe, TimerStart, Timer, CloseConn,
     StopProducer, ProducerStops, StopConsumer, CloseEnd, TypeOK
<1>2. ASSUME NEW p \in Procs, MarkError(p)
      PROVE  closer'[k] = closer[k] \/ (k \in Procs /\ closer'[k] = "lock")
  BY <1>0, <1>2 DEF MarkError, TypeOK
<1>3. ASSUME NEW i \in Users, CloseUser(i)
      PROVE  closer'[k] = closer[k] \/ (call[OnMqRegister] = "done" /\ closer'[k] = "lock")
  BY <1>0, <1>3 DEF CloseUser, TypeOK
<1>4. CASE closer' = closer
  BY <1>4
<1>5. CASE \E i \in Closers : Close(i)
  BY <1>1, <1>5
<1> QED BY <1>2, <1>3, <1>4, <1>5, EndsChange DEF Closing, MqClose, MqCloseReturns

LEMMA RegisterStep == ClientInv /\ SessionInv /\ Next => RegisterInv'
<1> SUFFICES ASSUME ClientInv, SessionInv, Next PROVE RegisterInv'
  OBVIOUS
<1>0. /\ RegisterInv /\ HangUpInv /\ MutexInv
      /\ Users \subseteq Closers /\ Procs \subseteq Closers /\ Users \cap Procs = {}
      /\ {OnMqRegister, OnMqStopSubscribe} \subseteq Jobs
  BY DEF ClientInv, SessionInv, Closers, Jobs
<1>1. call[OnMqRegister] = "done" => call'[OnMqRegister] = "done"
  BY <1>0, CallsGoOn
<1>2. ASSUME NEW k \in Users, closer'[k] # "none" PROVE call'[OnMqRegister] = "done"
  BY <1>0, <1>1, <1>2, RegularClose DEF RegisterInv
<1>3. ASSUME NEW p \in Procs, closer'[p] \in Regular PROVE FALSE
  <2>1. "Err" \notin flags /\ closer[p] # "none"
    BY <1>0, <1>3, RegularClose DEF RegisterInv
  <2> QED BY <1>0, <2>1 DEF MutexInv
<1>4. ASSUME NEW j \in Jobs, call'[j] # "none", j # OnMqRegister PROVE call'[OnMqRegister] = "done"
  <2>1. CASE call[j] # "none"
    BY <1>0, <1>1, <1>4, <2>1 DEF RegisterInv
  <2>2. CASE j = OnMqStopSubscribe /\ \E k \in Closers : closer[k] = "subscribed"
    <3>1. PICK k \in Closers : closer[k] = "subscribed"
      BY <2>2
    <3>2. k \in Users
      BY <1>0, <3>1 DEF RegisterInv, Regular, Closers
    <3> QED BY <1>0, <1>1, <3>1, <3>2 DEF RegisterInv
  <2>3. CASE mqClose # "none"
    <3>1. call[OnMqStopSubscribe] # "none" /\ OnMqStopSubscribe # OnMqRegister
      BY <1>0, <2>3 DEF HangUpInv, OnMqStopSubscribe, OnMqRegister
    <3> QED BY <1>0, <1>1, <3>1 DEF RegisterInv
  <2> QED BY <1>1, <1>4, <2>1, <2>2, <2>3, CallsGoOn DEF Prompted
<1> QED BY <1>2, <1>3, <1>4 DEF RegisterInv

LEMMA HangUpStep == ClientInv /\ SessionInv /\ Next => HangUpInv'
<1> SUFFICES ASSUME ClientInv, SessionInv, Next PROVE HangUpInv'
  OBVIOUS
<1>0. /\ HangUpInv /\ OrderInv' /\ TypeOK'
      /\ OnMqStopSubscribe \in Jobs
  BY Inductive DEF ClientInv, SessionInv, Jobs
<1>1. mqClose # "none" => mqClose' # "none"
  BY EndsChange DEF MarkError, CloseUser, Closing, MqClose, MqCloseReturns, Close, CloseBegin,
     MqStopSubscribe, TimerStart, Timer, CloseConn, StopProducer, ProducerStops, StopConsumer,
     CloseEnd
<1>2. ASSUME NEW k \in Closers, closer'[k] \in {"timing", "conn"} PROVE mqClose' # "none"
  BY <1>0, <1>1, <1>2, RegularClose DEF HangUpInv
<1>3. ~conn' => mqClose # "none"
  BY <1>0, SessionChanges DEF HangUpInv
<1>4. ASSUME mqClose' # "none" PROVE call'[OnMqStopSubscribe] = "done"
  <2>1. CASE mqClose # "none"
    BY <1>0, <2>1, CallsGoOn DEF HangUpInv
  <2>2. CASE mqClose = "none"
    <3>1. conn' /\ Returned(OnMqStopSubscribe)'
      BY <1>0, <1>3, <1>4, <2>2 DEF OrderInv, TypeOK
    <3> QED BY <1>0, <3>1 DEF OrderInv, Returned
  <2> QED BY <2>1, <2>2
<1> QED BY <1>1, <1>2, <1>3, <1>4 DEF HangUpInv

LEMMA SessionInitially == Init => Session!Init
  BY DEF Init, Phase, Session!Init, Session!Jobs, Jobs

\* The phase of each job after a step that takes one of them further.
LEMMA PhaseMoves ==
  ASSUME TypeOK, NEW j \in Jobs, NEW l, call' = [call EXCEPT ![j] = l]
  PROVE  Phase' = [Phase EXCEPT ![j] = IF l \in {"stored", "queued", "waiting"}
                                       THEN "issued" ELSE l]
<1>1. \A i \in Jobs : call'[i] = IF i = j THEN l ELSE call[i]
  BY DEF TypeOK
<1> QED BY <1>1 DEF Phase

LEMMA BeginIsIssue ==
  ASSUME ClientInv, SessionInv, NEW j \in Jobs, Begin(j), Prompted(j), conn' = conn
  PROVE  \E i \in Jobs : Session!Issue(i)
<1>0. TypeOK /\ RegisterInv /\ HangUpInv /\ OnMqRegister \in Jobs /\ OnMqStopSubscribe \in Jobs
  BY DEF ClientInv, SessionInv, Jobs
<1>1. call[j] = "none" /\ call' = [call EXCEPT ![j] = "stored"] /\ answer' = answer
  BY DEF Begin
<1>2. Phase[j] = "none" /\ Phase' = [Phase EXCEPT ![j] = "issued"]
  BY <1>0, <1>1, PhaseMoves DEF Phase
<1>3. \A b \in Session!Before(j) : Phase[b] = "done"
  <2>1. CASE j = OnMqRegister
    <3>1. j # OnMqClose
      BY <2>1 DEF OnMqRegister, OnMqClose
    <3> QED BY <2>1, <3>1 DEF Session!Before
  <2>2. CASE j \in Calls /\ call[OnMqRegister] = "done"
    <3>1. j # OnMqRegister /\ j # OnMqClose
      BY <2>2
    <3> QED BY <1>0, <2>2, <3>1 DEF Session!Before, Phase
  <2>3. CASE j = OnMqStopSubscribe /\ \E k \in Closers : closer[k] = "subscribed"
    <3>1. PICK k \in Closers : closer[k] = "subscribed"
      BY <2>3
    <3>2. call[OnMqRegister] = "done"
      BY <1>0, <3>1 DEF RegisterInv, Regular, Closers
    <3>3. j # OnMqRegister /\ j # OnMqClose
      BY <2>3 DEF OnMqRegister, OnMqClose, OnMqStopSubscribe
    <3> QED BY <1>0, <3>2, <3>3 DEF Session!Before, Phase
  <2>4. CASE j = OnMqClose /\ mqClose # "none"
    <3>1. call[OnMqStopSubscribe] = "done" /\ j # OnMqRegister
      BY <1>0, <2>4 DEF HangUpInv, OnMqRegister, OnMqClose
    <3> QED BY <1>0, <2>4, <3>1 DEF Session!Before, Phase
  <2> QED BY <2>1, <2>2, <2>3, <2>4 DEF Prompted
<1> QED BY <1>1, <1>2, <1>3 DEF Session!Issue

LEMMA ReturnIsReturn ==
  ASSUME ClientInv, NEW j \in Jobs, Return(j), conn' = conn
  PROVE  \E i \in Jobs : Session!Return(i)
<1>0. TypeOK /\ NumberInv
  BY DEF ClientInv
<1>1. /\ call[j] = "waiting" /\ answer[j] = j /\ answer' = answer
      /\ call' = [call EXCEPT ![j] = "done"]
  BY <1>0 DEF Return, NumberInv
<1>2. Phase[j] = "issued" /\ Phase' = [Phase EXCEPT ![j] = "done"]
  BY <1>0, <1>1, PhaseMoves DEF Phase
<1> QED BY <1>1, <1>2 DEF Session!Return

LEMMA ReplyIsAnswer ==
  ASSUME ClientInv, Read, ReadReply, conn' = conn
  PROVE  \E i \in Jobs : Session!Answer(i)
<1>0. TypeOK /\ WayInv /\ NumberInv
  BY DEF ClientInv
<1>1. PICK j \in Jobs : /\ Head(in).of = j /\ answer[j] = None
                        /\ answer' = [answer EXCEPT ![j] = j]
  BY ReplyFound
<1>2. InIn(j)
  BY <1>0, <1>1, TailOf DEF Read, TypeOK, InIn
<1>3. call[j] = "waiting" /\ call' = call
  BY <1>0, <1>1, <1>2 DEF WayInv, Sent, NumberInv, ReadReply
<1>4. Phase[j] = "issued" /\ Phase' = Phase
  BY <1>3 DEF Phase
<1> QED BY <1>1, <1>4 DEF Session!Answer

\* What the writer does with a message is not seen.
LEMMA HandledIsStutter ==
  ASSUME ClientInv, Handled, conn' = conn
  PROVE  UNCHANGED <<Phase, answer, conn>>
<1>0. TypeOK /\ WayInv
  BY DEF ClientInv
<1>1. answer' = answer
  BY DEF Handled
<1>2. CASE cur \notin Jobs
  BY <1>1, <1>2 DEF Handled, Phase
<1>3. CASE cur \in Jobs
  <2>1. call[cur] = "queued" /\ call' = [call EXCEPT ![cur] = "waiting"]
    BY <1>0, <1>3 DEF Handled, WayInv
  <2>2. Phase' = [Phase EXCEPT ![cur] = "issued"] /\ Phase[cur] = "issued"
    BY <1>0, <1>3, <2>1, PhaseMoves DEF Phase
  <2>3. Phase' = Phase
    BY <2>2 DEF Phase
  <2> QED BY <1>1, <2>3
<1> QED BY <1>2, <1>3

LEMMA SessionStep ==
  ClientInv /\ SessionInv /\ [Next]_vars => [Session!Next]_(Session!vars)
<1> SUFFICES ASSUME ClientInv, SessionInv, [Next]_vars
             PROVE  Session!Next \/ UNCHANGED <<Phase, answer, conn>>
  BY DEF Session!vars
<1>0. TypeOK /\ HangUpInv /\ Session!Jobs = Jobs /\ OnMqStopSubscribe \in Jobs
  BY DEF ClientInv, SessionInv, Session!Jobs, Jobs
<1>1. CASE UNCHANGED vars \/ UNCHANGED <<calls, conn>>
  BY <1>1 DEF vars, Phase
<1>2. CASE UNCHANGED calls /\ conn' = FALSE /\ \E k \in Closers : closer[k] = "conn"
  <2>1. Phase' = Phase /\ answer' = answer /\ Phase[OnMqStopSubscribe] = "done"
    BY <1>0, <1>2 DEF HangUpInv, Phase
  <2>2. conn \in BOOLEAN
    BY <1>0 DEF TypeOK
  <2> QED BY <1>2, <2>1, <2>2 DEF Session!Next, Session!HangUp
<1>3. ASSUME NEW j \in Jobs, Begin(j), Prompted(j), conn' = conn PROVE Session!Next
  BY <1>0, <1>3, BeginIsIssue DEF Session!Next
<1>4. ASSUME NEW j \in Jobs, Queue(j), conn' = conn PROVE UNCHANGED <<Phase, answer, conn>>
  <2>1. Phase' = [Phase EXCEPT ![j] = "issued"] /\ Phase[j] = "issued" /\ answer' = answer
    BY <1>0, <1>4, PhaseMoves DEF Queue, Phase
  <2>2. Phase' = Phase
    BY <2>1 DEF Phase
  <2> QED BY <1>4, <2>1, <2>2
<1>5. ASSUME NEW j \in Jobs, Return(j), conn' = conn PROVE Session!Next
  BY <1>0, <1>5, ReturnIsReturn DEF Session!Next
<1>6. ASSUME Handled, conn' = conn PROVE UNCHANGED <<Phase, answer, conn>>
  BY <1>0, <1>6, HandledIsStutter
<1>7. ASSUME Read, ReadReply, conn' = conn PROVE Session!Next
  BY <1>0, <1>7, ReplyIsAnswer DEF Session!Next
<1> QED BY <1>1, <1>2, <1>3, <1>4, <1>5, <1>6, <1>7, SessionChanges

(* Registration comes before everything else, and the connection is not    *)
(* given up by a client that may still be sent requests: what the promise  *)
(* of MqSession rests on, next to ClientInv.                               *)
THEOREM SessionInvariance == Spec => []SessionInv
<1>1. ClientInv /\ SessionInv /\ [Next]_vars => SessionInv'
  <2>1. CASE Next
    BY <2>1, RegisterStep, HangUpStep DEF SessionInv
  <2>2. CASE UNCHANGED vars
    BY <2>2 DEF vars, SessionInv, RegisterInv, HangUpInv
  <2> QED BY <2>1, <2>2
<1> QED BY <1>1, SessionBegins, Invariance, PTL DEF Spec

(* Every behaviour of the library is one of MqSession: whatever Calls,     *)
(* Closes, errors and requests of peers come together, each Call takes its *)
(* own answer once, nothing is asked before the registration is confirmed, *)
(* and OnMqClose is not sent, nor the connection given up, before          *)
(* OnMqStopSubscribe has returned.                                         *)
THEOREM SessionImplemented == Spec => ImplementsSession
  BY SessionInitially, SessionStep, Invariance, SessionInvariance, PTL
     DEF Spec, ImplementsSession, Session!Spec
================================================================================
