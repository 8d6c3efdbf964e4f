----------------------------- MODULE RpcCall_proofs -----------------------------
(***************************************************************************)
(* Proofs about RpcCall, for every set of requests, Msg objects and        *)
(* goroutines, every capacity of the channel, and every choice of          *)
(* packages.                                                               *)
(*                                                                         *)
(* The inductive invariant follows a Msg from MsgPool.Get to MsgPool.Put.  *)
(* SlotInv: who uses it is the request in its body, so that two requests   *)
(* never share one.  PlaceInv: a queued Msg is in the channel, with one    *)
(* goroutine, or answered, and in one of these places only.  ReportInv:    *)
(* what the Msg says of how its handler ended, in each package.            *)
(***************************************************************************)
EXTENDS RpcCall, SequenceTheorems, TLAPS

\* A request that uses a Msg is the one whose Method and Args are in it.
SlotInv ==
    \A o \in Ops : Using(o) =>
       /\ slot[o] \in Slots /\ slot[o] \notin pool
       /\ body[slot[o]] = o /\ typ[slot[o]] = kind[o]

\* m carries a request that waits for the server.
Carried(m) ==
    /\ body[m] \in Ops /\ opc[body[m]] = "queued" /\ slot[body[m]] = m

Ended(m) == ended[body[m]] # "no"

CacheInv ==
    \A i \in 1..Len(cache) :
       /\ Carried(cache[i]) /\ ~Ended(cache[i]) /\ ~pending[cache[i]]
       /\ \A j \in 1..Len(cache) : cache[j] = cache[i] => j = i
       /\ \A w \in Workers : wslot[w] # cache[i]

WorkInv ==
    \A w \in Workers : wslot[w] # None =>
       /\ Carried(wslot[w]) /\ ~pending[wslot[w]]
       /\ wdone[w] <=> Ended(wslot[w])
       /\ \A v \in Workers : wslot[v] = wslot[w] => v = w

PendingInv ==
    \A m \in Slots : pending[m] => Carried(m) /\ Ended(m) /\ typ[m] \in Waiting

PlaceInv == CacheInv /\ WorkInv /\ PendingInv

\* Whether the Msg of a request that has ended says how: its error in rpcD and
\* rpcE, its reply in rpcE and rpcU.
Reports(o) ==
    LET m == slot[o] IN
    ended[o] # "panic" =>
       CASE flavour = "rpcD" -> err[m] = (ended[o] # "ok")
         [] flavour = "rpcE" -> /\ err[m] = (ended[o] # "ok")
                                /\ ended[o] = "ok" => reply[m] = [of |-> o, ok |-> TRUE]
         [] flavour = "rpcU" -> ~err[m] /\ reply[m] = [of |-> o, ok |-> ended[o] = "ok"]

ReportInv ==
    \A o \in Ops :
       /\ ended[o] \in Ends \cup {"no"}
       /\ opc[o] \in {"idle", "filled"} => ended[o] = "no"
       /\ opc[o] \in {"answered", "crashed"} => ended[o] # "no"
       /\ Using(o) /\ ended[o] = "no" => ~err[slot[o]]
       /\ opc[o] = "queued" /\ ended[o] # "no" /\ kind[o] \in Waiting => Reports(o)

CInv == TypeOK /\ SlotInv /\ PlaceInv /\ ReportInv /\ OwnAnswer /\ CallbackOnce

USE CallAssumption DEF msgVars, callVars, workVars, histVars

-----------------------------------------------------------------------------
\* No request has begun, and no Msg is anywhere.
LEMMA Initially == Init => CInv
<1> SUFFICES ASSUME Init PROVE CInv
  OBVIOUS
<1>1. TypeOK
  <2>1. /\ flavour \in Flavours /\ pool \subseteq Slots
        /\ typ \in [Slots -> {"send", "sendReq", "call", "callReq"}]
        /\ body \in [Slots -> Ops \union {None}]
        /\ err \in [Slots -> BOOLEAN] /\ pending \in [Slots -> BOOLEAN]
    BY DEF Init
  <2>2. reply \in [Slots -> Replies] /\ result \in [Ops -> Replies]
    BY DEF Init, NoReply, Replies
  <2>3. cache \in Seq(Slots) /\ Len(cache) <= Capacity
    BY DEF Init
  <2>4. /\ opc \in [Ops -> {"idle", "filled", "queued", "answered", "crashed", "done"}]
        /\ kind \in [Ops -> Kinds] /\ slot \in [Ops -> Slots \union {None}]
    BY DEF Init
  <2>5. /\ wslot \in [Workers -> Slots \union {None}] /\ wdone \in [Workers -> BOOLEAN]
        /\ ended \in [Ops -> {"no", "ok", "err", "badReply", "panic"}]
        /\ called \in [Ops -> Seq(Replies)]
    BY DEF Init
  <2> QED BY <2>1, <2>2, <2>3, <2>4, <2>5 DEF TypeOK
<1>2. SlotInv
  BY DEF Init, SlotInv, Using
<1>3. PlaceInv
  BY DEF Init, PlaceInv, CacheInv, WorkInv, PendingInv
<1>4. ReportInv
  BY DEF Init, ReportInv, Using
<1>5. OwnAnswer /\ CallbackOnce
  BY DEF Init, OwnAnswer, CallbackOnce
<1> QED BY <1>1, <1>2, <1>3, <1>4, <1>5 DEF CInv

-----------------------------------------------------------------------------
\* What is in the channel is a Msg, and so is what a busy goroutine has.
LEMMA QueuedAreSlots ==
  ASSUME TypeOK
  PROVE  /\ Len(cache) \in Nat
         /\ \A i \in 1..Len(cache) : cache[i] \in Slots
         /\ \A w \in Workers : wslot[w] # None => wslot[w] \in Slots
  BY DEF TypeOK

\* The first message of the channel and the rest of it.
LEMMA TakeFirst ==
  ASSUME TypeOK, cache # <<>>
  PROVE  /\ Head(cache) \in Slots /\ Head(cache) = cache[1] /\ 1 \in 1..Len(cache)
         /\ Tail(cache) \in Seq(Slots) /\ Len(Tail(cache)) = Len(cache) - 1
         /\ \A i \in 1..Len(Tail(cache)) :
               Tail(cache)[i] = cache[i + 1] /\ i + 1 \in 1..Len(cache)
<1>1. cache \in Seq(Slots) /\ Len(cache) \in Nat /\ Len(cache) >= 1
  BY DEF TypeOK
<1>2. /\ Head(cache) \in Slots /\ Tail(cache) \in Seq(Slots)
      /\ Len(Tail(cache)) = Len(cache) - 1
      /\ \A i \in 1..Len(Tail(cache)) : Tail(cache)[i] = cache[i + 1]
  BY <1>1, HeadTailProperties
<1>3. Head(cache) = cache[1]
  BY <1>1
<1> QED BY <1>1, <1>2, <1>3

\* The channel with one more message.
LEMMA AddLast ==
  ASSUME TypeOK, NEW m \in Slots
  PROVE  /\ Append(cache, m) \in Seq(Slots)
         /\ Len(Append(cache, m)) = Len(cache) + 1
         /\ Append(cache, m)[Len(cache) + 1] = m
         /\ \A i \in 1..Len(cache) : Append(cache, m)[i] = cache[i]
<1>1. cache \in Seq(Slots)
  BY DEF TypeOK
<1> QED BY <1>1, AppendProperties

\* Two requests never use the same Msg: its body says whose it is.
LEMMA Unshared ==
  ASSUME SlotInv, NEW o \in Ops, NEW p \in Ops, Using(o), Using(p), slot[o] = slot[p]
  PROVE  o = p
  BY DEF SlotInv

\* A Msg that the server has in hand or in the channel is that of a queued request.
LEMMA CarriedUsed ==
  ASSUME SlotInv, NEW m, Carried(m)
  PROVE  /\ m \in Slots \ pool /\ typ[m] = kind[body[m]]
         /\ \A o \in Ops : Using(o) /\ slot[o] = m => o = body[m]
  BY DEF SlotInv, Carried, Using

-----------------------------------------------------------------------------
\* The types are preserved by every step of callers and goroutines.
LEMMA TypeStep == TypeOK /\ SlotInv /\ PlaceInv /\ [Next]_vars => TypeOK'
<1> SUFFICES ASSUME TypeOK, SlotInv, PlaceInv, [Next]_vars PROVE TypeOK'
  OBVIOUS
<1>1. ASSUME NEW o \in Ops, Begin(o) PROVE TypeOK'
  <2>1. PICK m \in Slots :
          /\ pool' = pool \ {m}
          /\ slot' = [slot EXCEPT ![o] = m]
          /\ typ' = [typ EXCEPT ![m] = kind[o]]
          /\ body' = [body EXCEPT ![m] = o]
          /\ err' = [err EXCEPT ![m] = m \in pool /\ InitErr(@)]
          /\ reply' = [reply EXCEPT ![m] = IF m \in pool THEN @ ELSE NoReply]
          /\ pending' = [pending EXCEPT ![m] = m \in pool /\ @]
    BY <1>1 DEF Begin
  <2>2. kind[o] \in {"send", "sendReq", "call", "callReq"}
    BY DEF TypeOK, Kinds
  <2>3. reply' \in [Slots -> Replies]
    <3>1. NoReply \in Replies
      BY DEF Replies, NoReply
    <3> QED BY <2>1, <3>1 DEF TypeOK
  <2>4. err' \in [Slots -> BOOLEAN] /\ pending' \in [Slots -> BOOLEAN]
    BY <2>1 DEF TypeOK
  <2>5. /\ opc' = [opc EXCEPT ![o] = "filled"]
        /\ UNCHANGED <<cache, flavour, kind, result, workVars, histVars>>
    BY <1>1 DEF Begin
  <2> QED BY <2>1, <2>2, <2>3, <2>4, <2>5 DEF TypeOK, Kinds
<1>2. ASSUME NEW o \in Ops, Enqueue(o) PROVE TypeOK'
  <2>1. slot[o] \in Slots
    BY <1>2 DEF Enqueue, SlotInv, Using
  <2>2. cache' \in Seq(Slots) /\ Len(cache') <= Capacity
    BY <1>2, <2>1, AddLast, QueuedAreSlots DEF Enqueue, HasRoom
  <2> QED BY <1>2, <2>2 DEF Enqueue, TypeOK, Kinds
<1>3. ASSUME NEW o \in Ops, Return(o) PROVE TypeOK'
  <2>1. slot[o] \in Slots
    BY <1>3 DEF Return, SlotInv, Using
  <2>2. Answer(slot[o]) \in Replies
    BY <2>1 DEF Answer, Failed, Replies, TypeOK
  <2>3. result' \in [Ops -> Replies]
    <3>1. result' = result \/ result' = [result EXCEPT ![o] = Answer(slot[o])]
      BY <1>3 DEF Return
    <3>2. result \in [Ops -> Replies]
      BY DEF TypeOK
    <3> QED BY <2>2, <3>1, <3>2
  <2> QED BY <1>3, <2>3, ZenonT(60) DEF Return, TakeAnswer, TypeOK, Kinds
<1>4. ASSUME NEW o \in Ops, ReturnReq(o) PROVE TypeOK'
  <2>1. slot[o] \in Slots /\ reply[slot[o]] \in Replies
    BY <1>4 DEF ReturnReq, SlotInv, Using, TypeOK
  <2>2. called[o] \in Seq(Replies) /\ Append(called[o], reply[slot[o]]) \in Seq(Replies)
    BY <2>1 DEF TypeOK
  <2>3. called' \in [Ops -> Seq(Replies)]
    BY <1>4, <2>2 DEF ReturnReq, TypeOK
  <2>4. PICK panics \in BOOLEAN :
          /\ err' = [err EXCEPT ![slot[o]] = panics]
          /\ result' = [result EXCEPT ![o] = [of |-> reply[slot[o]].of, ok |-> ~panics]]
    BY <1>4 DEF ReturnReq
  <2>5. [of |-> reply[slot[o]].of, ok |-> ~panics] \in Replies
    BY <2>1 DEF Replies
  <2> QED BY <1>4, <2>3, <2>4, <2>5 DEF ReturnReq, TakeAnswer, TypeOK, Kinds
<1>5. ASSUME NEW o \in Ops, GiveBack(o) PROVE TypeOK'
  <2>1. slot[o] \in Slots
    BY <1>5 DEF GiveBack, SlotInv, Using
  <2> QED BY <1>5, <2>1 DEF GiveBack, TypeOK, Kinds
<1>6. CASE Collect
  BY <1>6 DEF Collect, TypeOK, Kinds
<1>7. ASSUME NEW w \in Workers, Take(w) PROVE TypeOK'
  BY <1>7, TakeFirst DEF Take, TypeOK, Kinds
<1>8. ASSUME NEW w \in Workers, NEW end \in Ends, Handle(w, end) PROVE TypeOK'
  <2> DEFINE m == wslot[w]
             o == body[m]
  <2>1. m \in Slots /\ o \in Ops
    BY <1>8, CarriedUsed DEF Handle, PlaceInv, WorkInv, Carried
  <2>2. end \in {"ok", "err", "badReply", "panic"}
    BY DEF Ends
  <2>3. called' \in [Ops -> Seq(Replies)]
    <3>1. GivenToCallback(o, end) \in Seq(Replies)
      <4>1. [of |-> o, ok |-> end = "ok"] \in Replies
        BY <2>1 DEF Replies
      <4> QED BY <4>1 DEF GivenToCallback
    <3>2. called[o] \o GivenToCallback(o, end) \in Seq(Replies)
      BY <2>1, <3>1 DEF TypeOK
    <3> QED BY <1>8, <3>2 DEF Handle, TypeOK
  <2>4. reply' \in [Slots -> Replies]
    BY <1>8, <2>1 DEF Handle, TypeOK, Replies
  <2> QED BY <1>8, <2>1, <2>2, <2>3, <2>4 DEF Handle, TypeOK, Kinds
<1>9. ASSUME NEW w \in Workers, Release(w) PROVE TypeOK'
  <2>1. wslot[w] \in Slots
    BY <1>9, QueuedAreSlots DEF Release
  <2>2. pool' \subseteq Slots /\ wslot' \in [Workers -> Slots \union {None}]
    BY <1>9, <2>1 DEF Release, TypeOK
  <2>4. pending' \in [Slots -> BOOLEAN]
    <3>1. pending' = pending \/ pending' = [pending EXCEPT ![wslot[w]] = TRUE]
      BY <1>9 DEF Release, SendAnswer
    <3> QED BY <3>1 DEF TypeOK
  <2>3. opc' \in [Ops -> {"idle", "filled", "queued", "answered", "crashed", "done"}]
    BY <1>9 DEF Release, TypeOK
  <2> QED BY <1>9, <2>2, <2>3, <2>4 DEF Release, TypeOK, Kinds
<1>10. CASE UNCHANGED vars
  BY <1>10 DEF vars, TypeOK, Kinds
<1> QED BY <1>1, <1>2, <1>3, <1>4, <1>5, <1>6, <1>7, <1>8, <1>9, <1>10
        DEF Next, Caller, Worker

-----------------------------------------------------------------------------
\* MsgPool.Get gives a Msg that nobody uses.
LEMMA BeginTakesFree ==
  ASSUME TypeOK, SlotInv, NEW o \in Ops, Begin(o)
  PROVE  \E m \in Slots :
            /\ \A p \in Ops : Using(p) => slot[p] # m
            /\ \A n : Carried(n) => n # m /\ body[n] # o
            /\ pool' = pool \ {m} /\ slot' = [slot EXCEPT ![o] = m]
            /\ typ' = [typ EXCEPT ![m] = kind[o]] /\ body' = [body EXCEPT ![m] = o]
            /\ err' = [err EXCEPT ![m] = FALSE]
            /\ \A n \in Slots \ {m} : reply'[n] = reply[n] /\ pending'[n] = pending[n]
            /\ pending'[m] => m \in pool /\ pending[m]
            /\ opc[o] = "idle" /\ opc' = [opc EXCEPT ![o] = "filled"]
            /\ UNCHANGED <<cache, flavour, kind, result, workVars, histVars>>
<1>1. PICK m \in Slots :
        /\ m \in pool \/ m \notin InUse
        /\ pool' = pool \ {m} /\ slot' = [slot EXCEPT ![o] = m]
        /\ typ' = [typ EXCEPT ![m] = kind[o]] /\ body' = [body EXCEPT ![m] = o]
        /\ err' = [err EXCEPT ![m] = m \in pool /\ InitErr(@)]
        /\ reply' = [reply EXCEPT ![m] = IF m \in pool THEN @ ELSE NoReply]
        /\ pending' = [pending EXCEPT ![m] = m \in pool /\ @]
  BY DEF Begin
<1>2. /\ opc[o] = "idle" /\ opc' = [opc EXCEPT ![o] = "filled"]
      /\ UNCHANGED <<cache, flavour, kind, result, workVars, histVars>>
  BY DEF Begin
<1>3. \A p \in Ops : Using(p) => slot[p] # m
  BY <1>1 DEF SlotInv, InUse
<1>4. \A n : Carried(n) => n # m /\ body[n] # o
  BY <1>2, <1>3 DEF Carried, Using
<1>5. err' = [err EXCEPT ![m] = FALSE]
  BY <1>1 DEF InitErr
<1>6. \A n \in Slots \ {m} : reply'[n] = reply[n] /\ pending'[n] = pending[n]
  BY <1>1 DEF TypeOK
<1>7. pending'[m] => m \in pool /\ pending[m]
  BY <1>1 DEF TypeOK
<1> QED BY <1>1, <1>2, <1>3, <1>4, <1>5, <1>6, <1>7

\* A request keeps its Msg to itself: nobody gets it before it is given back, and
\* that is done once, by the caller or by the server.
LEMMA SlotStep == TypeOK /\ SlotInv /\ PlaceInv /\ [Next]_vars => SlotInv'
<1> SUFFICES ASSUME TypeOK, SlotInv, PlaceInv, [Next]_vars PROVE SlotInv'
  OBVIOUS
<1>a. ASSUME UNCHANGED <<pool, slot, body, typ, kind>>,
             \A p \in Ops : Using(p)' => Using(p)
      PROVE  SlotInv'
  BY <1>a DEF SlotInv
<1>1. ASSUME NEW o \in Ops, Begin(o) PROVE SlotInv'
  <2>1. PICK m \in Slots :
          /\ \A p \in Ops : Using(p) => slot[p] # m
          /\ pool' = pool \ {m} /\ slot' = [slot EXCEPT ![o] = m]
          /\ typ' = [typ EXCEPT ![m] = kind[o]] /\ body' = [body EXCEPT ![m] = o]
          /\ opc' = [opc EXCEPT ![o] = "filled"] /\ kind' = kind
    BY <1>1, BeginTakesFree
  <2>2. \A p \in Ops \ {o} : Using(p)' => Using(p) /\ slot'[p] = slot[p] /\ slot[p] # m
    BY <2>1 DEF TypeOK, Using
  <2>3. slot'[o] = m /\ body'[m] = o /\ typ'[m] = kind[o]
    BY <2>1 DEF TypeOK
  <2>4. \A n \in Slots \ {m} : body'[n] = body[n] /\ typ'[n] = typ[n]
    BY <2>1 DEF TypeOK
  <2> QED BY <2>1, <2>2, <2>3, <2>4 DEF SlotInv
<1>2. ASSUME NEW o \in Ops, Enqueue(o) \/ Return(o) \/ ReturnReq(o) PROVE SlotInv'
  BY <1>2, <1>a DEF Enqueue, Return, ReturnReq, Using, TypeOK
<1>3. ASSUME NEW o \in Ops, GiveBack(o) PROVE SlotInv'
  <2>1. Using(o) /\ \A p \in Ops : Using(p)' => Using(p) /\ p # o
    BY <1>3 DEF GiveBack, Using, TypeOK
  <2>2. \A p \in Ops : Using(p)' => slot[p] # slot[o]
    BY <2>1, Unshared
  <2> QED BY <1>3, <2>1, <2>2 DEF GiveBack, SlotInv
<1>4. CASE Collect
  BY <1>4 DEF Collect, SlotInv, Using
<1>5. ASSUME NEW w \in Workers, Take(w) PROVE SlotInv'
  BY <1>5, <1>a DEF Take, Using
<1>6. ASSUME NEW w \in Workers, NEW end \in Ends, Handle(w, end) PROVE SlotInv'
  BY <1>6, <1>a DEF Handle, Using
<1>7. ASSUME NEW w \in Workers, Release(w) PROVE SlotInv'
  <2> DEFINE m == wslot[w]
  <2>1. Carried(m)
    BY <1>7 DEF Release, PlaceInv, WorkInv
  <2>2. CASE typ[m] \in Waiting
    BY <1>7, <2>2, <1>a DEF Release, PutHere, Using
  <2>3. CASE typ[m] \notin Waiting
    <3>1. pool' = pool \union {m} /\ opc' = [opc EXCEPT ![body[m]] = "done"]
      BY <1>7, <2>3 DEF Release, PutHere
    <3>2. \A p \in Ops : Using(p)' => Using(p) /\ p # body[m]
      BY <2>1, <3>1 DEF Using, Carried, TypeOK
    <3>3. \A p \in Ops : Using(p)' => slot[p] # m
      BY <2>1, <3>2, CarriedUsed
    <3> QED BY <1>7, <3>1, <3>2, <3>3 DEF Release, SlotInv
  <2> QED BY <2>2, <2>3
<1>8. CASE UNCHANGED vars
  BY <1>8, <1>a DEF vars, Using
<1> QED BY <1>1, <1>2, <1>3, <1>4, <1>5, <1>6, <1>7, <1>8 DEF Next, Caller, Worker

-----------------------------------------------------------------------------
\* An answer that is there is that of the request which waits for it.
LEMMA AnswerIsMine ==
  ASSUME TypeOK, SlotInv, PlaceInv, NEW o \in Ops, Using(o), pending[slot[o]]
  PROVE  body[slot[o]] = o /\ slot[o] \in Slots /\ ended[o] # "no"
<1>1. slot[o] \in Slots /\ body[slot[o]] = o
  BY DEF SlotInv
<1>2. Ended(slot[o])
  BY <1>1 DEF PlaceInv, PendingInv
<1> QED BY <1>1, <1>2 DEF Ended

\* A message is in one place at a time, in the channel, with a goroutine, or
\* answered; the handler runs between the second and the third.
LEMMA PlaceStep == TypeOK /\ SlotInv /\ PlaceInv /\ ReportInv /\ [Next]_vars => PlaceInv'
<1> SUFFICES ASSUME TypeOK, SlotInv, PlaceInv, ReportInv, [Next]_vars PROVE PlaceInv'
  OBVIOUS
\* What is carried stays so if its request and its Msg are left alone.
<1>a. ASSUME UNCHANGED <<cache, wslot, wdone>>,
             \A n : Carried(n) =>
                \/ Carried(n)' /\ Ended(n)' = Ended(n) /\ pending'[n] = pending[n]
                               /\ typ'[n] = typ[n]
                \/ pending[n] /\ ~pending'[n],
             \A n \in Slots : pending'[n] => pending[n]
      PROVE  PlaceInv'
  <2>1. CacheInv'
    BY <1>a DEF PlaceInv, CacheInv
  <2>2. WorkInv'
    BY <1>a DEF PlaceInv, WorkInv
  <2>3. PendingInv'
    BY <1>a DEF PlaceInv, PendingInv
  <2> QED BY <2>1, <2>2, <2>3 DEF PlaceInv
<1>1. ASSUME NEW o \in Ops, Begin(o) PROVE PlaceInv'
  <2>1. PICK m \in Slots :
          /\ \A n : Carried(n) => n # m /\ body[n] # o
          /\ slot' = [slot EXCEPT ![o] = m]
          /\ typ' = [typ EXCEPT ![m] = kind[o]] /\ body' = [body EXCEPT ![m] = o]
          /\ \A n \in Slots \ {m} : pending'[n] = pending[n]
          /\ pending'[m] => m \in pool /\ pending[m]
          /\ opc' = [opc EXCEPT ![o] = "filled"]
          /\ UNCHANGED <<cache, workVars, histVars>>
    BY <1>1, BeginTakesFree
  <2>2. ASSUME NEW n, Carried(n)
        PROVE  Carried(n)' /\ Ended(n)' = Ended(n) /\ pending'[n] = pending[n] /\ typ'[n] = typ[n]
    <3>1. n \in Slots /\ n # m /\ body[n] \in Ops /\ body[n] # o
      BY <2>1, <2>2, CarriedUsed DEF Carried
    <3>2. body'[n] = body[n] /\ typ'[n] = typ[n] /\ pending'[n] = pending[n]
      BY <2>1, <3>1 DEF TypeOK
    <3>3. opc'[body[n]] = opc[body[n]] /\ slot'[body[n]] = slot[body[n]] /\ ended' = ended
      BY <2>1, <3>1 DEF TypeOK
    <3> QED BY <2>2, <3>1, <3>2, <3>3 DEF Carried, Ended
  <2>3. \A n \in Slots : pending'[n] => pending[n]
    BY <2>1
  <2> QED BY <2>1, <2>2, <2>3, <1>a
<1>2. ASSUME NEW o \in Ops, Enqueue(o) PROVE PlaceInv'
  <2> DEFINE m == slot[o]
  <2>1. /\ opc[o] = "filled" /\ cache' = Append(cache, m) /\ opc' = [opc EXCEPT ![o] = "queued"]
        /\ UNCHANGED <<body, typ, slot, pending, wslot, wdone, ended>>
    BY <1>2 DEF Enqueue
  <2>2. m \in Slots /\ body[m] = o /\ ended[o] = "no"
    BY <2>1 DEF SlotInv, Using, ReportInv
  <2>3. \A n : Carried(n) => n # m /\ Carried(n)' /\ Ended(n)' = Ended(n)
    BY <2>1, <2>2 DEF Carried, Ended, TypeOK
  <2>4. Carried(m)' /\ ~Ended(m)'
    BY <2>1, <2>2 DEF Carried, Ended, TypeOK
  <2>5. ~pending[m] /\ (\A w \in Workers : wslot[w] # m)
        /\ \A i \in 1..Len(cache) : cache[i] # m
    <3>1. ~Carried(m)
      BY <2>3
    <3> QED BY <2>2, <3>1 DEF PlaceInv, PendingInv, WorkInv, CacheInv, TypeOK
  <2>6. /\ Len(cache') = Len(cache) + 1 /\ Len(cache) \in Nat /\ cache'[Len(cache) + 1] = m
        /\ \A i \in 1..Len(cache) : cache'[i] = cache[i]
    BY <2>1, <2>2, AddLast, QueuedAreSlots
  <2>7. CacheInv'
    <3>1. \A i \in 1..Len(cache') : i \in 1..Len(cache) \/ i = Len(cache) + 1
      BY <2>6
    <3>2. ASSUME NEW i \in 1..Len(cache)
          PROVE  /\ cache[i] \in Slots
                 /\ body'[cache[i]] \in Ops /\ opc'[body'[cache[i]]] = "queued"
                 /\ slot'[body'[cache[i]]] = cache[i] /\ ended'[body'[cache[i]]] = "no"
                 /\ ~pending[cache[i]]
                 /\ \A w \in Workers : wslot[w] # cache[i]
                 /\ \A j \in 1..Len(cache) : cache[j] = cache[i] => j = i
      <4>1. CacheInv
        BY DEF PlaceInv
      <4>2. /\ Carried(cache[i]) /\ ~Ended(cache[i]) /\ ~pending[cache[i]]
            /\ \A j \in 1..Len(cache) : cache[j] = cache[i] => j = i
            /\ \A w \in Workers : wslot[w] # cache[i]
        BY <4>1 DEF CacheInv
      <4>3. \A n : Carried(n) /\ ~Ended(n)
                     => body'[n] = body[n] /\ opc'[body[n]] = "queued"
                        /\ slot'[body[n]] = n /\ body[n] \in Ops /\ ended'[body[n]] = "no"
        BY <2>1, <2>3 DEF Carried, Ended
      <4>4. /\ body'[cache[i]] = body[cache[i]] /\ opc'[body[cache[i]]] = "queued"
            /\ slot'[body[cache[i]]] = cache[i] /\ body[cache[i]] \in Ops
            /\ ended'[body[cache[i]]] = "no"
        BY <4>2, <4>3
      <4> QED BY <2>1, <4>2, <4>4, QueuedAreSlots
    <3> QED BY <2>1, <2>4, <2>5, <2>6, <3>1, <3>2 DEF CacheInv, Carried, Ended
  <2>8. WorkInv' /\ PendingInv'
    BY <2>1, <2>3 DEF PlaceInv, WorkInv, PendingInv
  <2> QED BY <2>7, <2>8 DEF PlaceInv
<1>3. ASSUME NEW o \in Ops, Return(o) \/ ReturnReq(o) PROVE PlaceInv'
  <2> DEFINE m == slot[o]
  <2>1. /\ opc[o] = "queued" /\ pending[m] /\ pending' = [pending EXCEPT ![m] = FALSE]
        /\ UNCHANGED <<body, typ, slot, cache, wslot, wdone, ended>>
    BY <1>3 DEF Return, ReturnReq, TakeAnswer
  <2>2. \A p \in Ops \ {o} : opc'[p] = opc[p]
    <3>1. \/ opc' = [opc EXCEPT ![o] = "crashed"]
          \/ opc' = [opc EXCEPT ![o] = "answered"]
      BY <1>3 DEF Return, ReturnReq
    <3> QED BY <3>1 DEF TypeOK
  <2>3. m \in Slots /\ body[m] = o
    BY <2>1, AnswerIsMine DEF Using
  <2>4. ~pending'[m] /\ \A n \in Slots \ {m} : pending'[n] = pending[n]
    BY <2>1, <2>3 DEF TypeOK
  <2>5. \A n : Carried(n) => n = m \/ (Carried(n)' /\ Ended(n)' = Ended(n))
    BY <2>1, <2>2, <2>3 DEF Carried, Ended
  <2> QED BY <2>1, <2>4, <2>5, <1>a, CarriedUsed
<1>4. ASSUME NEW o \in Ops, GiveBack(o) PROVE PlaceInv'
  <2>1. /\ opc[o] # "queued" /\ opc' = [opc EXCEPT ![o] = "done"]
        /\ UNCHANGED <<body, typ, slot, pending, cache, wslot, wdone, ended>>
    BY <1>4 DEF GiveBack
  <2>2. \A n : Carried(n) => Carried(n)' /\ Ended(n)' = Ended(n)
    BY <2>1 DEF Carried, Ended, TypeOK
  <2> QED BY <2>1, <2>2, <1>a
<1>5. CASE Collect
  BY <1>5, <1>a DEF Collect, Carried, Ended
<1>6. ASSUME NEW w \in Workers, Take(w) PROVE PlaceInv'
  <2> DEFINE h == Head(cache)
  <2>1. /\ wslot[w] = None /\ cache # <<>> /\ wslot' = [wslot EXCEPT ![w] = h]
        /\ wdone' = [wdone EXCEPT ![w] = FALSE] /\ cache' = Tail(cache)
        /\ UNCHANGED <<body, typ, slot, opc, pending, ended>>
    BY <1>6 DEF Take
  <2>2. /\ h \in Slots /\ h = cache[1] /\ 1 \in 1..Len(cache) /\ Len(cache) \in Nat
        /\ Len(cache') = Len(cache) - 1
        /\ \A i \in 1..Len(cache') : cache'[i] = cache[i + 1] /\ i + 1 \in 1..Len(cache)
    BY <2>1, TakeFirst, QueuedAreSlots
  <2>3. Carried(h) /\ ~Ended(h) /\ ~pending[h] /\ (\A v \in Workers : wslot[v] # h)
        /\ \A j \in 1..Len(cache) : cache[j] = h => j = 1
    BY <2>2 DEF PlaceInv, CacheInv
  <2>4. \A n : Carried(n)' = Carried(n) /\ Ended(n)' = Ended(n)
    BY <2>1 DEF Carried, Ended
  <2>5. /\ wslot'[w] = h /\ ~wdone'[w]
        /\ \A v \in Workers \ {w} : wslot'[v] = wslot[v] /\ wdone'[v] = wdone[v]
    BY <2>1 DEF TypeOK
  <2>6. \A i \in 1..Len(cache') : cache'[i] # h
    BY <2>2, <2>3
  <2>7. CacheInv'
    <3>1. CacheInv
      BY DEF PlaceInv
    <3>2. ASSUME NEW i \in 1..Len(cache')
          PROVE  /\ Carried(cache'[i]) /\ ~Ended(cache'[i]) /\ ~pending[cache'[i]]
                 /\ \A v \in Workers : wslot[v] # cache'[i]
      BY <2>2, <3>1 DEF CacheInv
    <3>3. ASSUME NEW i \in 1..Len(cache'), NEW j \in 1..Len(cache'), cache'[j] = cache'[i]
          PROVE  j = i
      <4>1. i + 1 = j + 1
        BY <2>2, <3>1, <3>3, ZenonT(60) DEF CacheInv
      <4> QED BY <4>1, <2>2
    <3>4. \A i \in 1..Len(cache') : \A v \in Workers : wslot'[v] # cache'[i]
      BY <2>5, <2>6, <3>2
    <3> QED BY <2>1, <2>4, <3>2, <3>3, <3>4 DEF CacheInv, Carried, Ended
  <2>8. WorkInv'
    BY <2>1, <2>3, <2>4, <2>5 DEF PlaceInv, WorkInv
  <2>9. PendingInv'
    BY <2>1, <2>4 DEF PlaceInv, PendingInv
  <2> QED BY <2>7, <2>8, <2>9 DEF PlaceInv
<1>7. ASSUME NEW w \in Workers, NEW end \in Ends, Handle(w, end) PROVE PlaceInv'
  <2> DEFINE m == wslot[w]
             o == body[m]
  <2>1. /\ m # None /\ wdone' = [wdone EXCEPT ![w] = TRUE]
        /\ ended' = [ended EXCEPT ![o] = end]
        /\ UNCHANGED <<body, typ, slot, opc, pending, cache, wslot>>
    BY <1>7 DEF Handle
  <2>2. Carried(m) /\ ~pending[m] /\ \A v \in Workers : wslot[v] = m => v = w
    BY <2>1 DEF PlaceInv, WorkInv
  <2>3. o \in Ops /\ end # "no" /\ ended'[o] = end
    BY <2>1, <2>2 DEF Carried, TypeOK, Ends
  <2>4. \A n : Carried(n)' = Carried(n) /\ (Carried(n) /\ n # m => Ended(n)' = Ended(n))
    BY <2>1, <2>2 DEF Carried, Ended, TypeOK
  <2>5. Ended(m)'
    BY <2>1, <2>3 DEF Ended
  <2>6. CacheInv'
    BY <2>1, <2>4 DEF PlaceInv, CacheInv
  <2>7. WorkInv'
    <3>1. wdone'[w] /\ \A v \in Workers \ {w} : wdone'[v] = wdone[v]
      BY <2>1 DEF TypeOK
    <3> QED BY <2>1, <2>2, <2>4, <2>5, <3>1 DEF PlaceInv, WorkInv
  <2>8. PendingInv'
    BY <2>1, <2>2, <2>4 DEF PlaceInv, PendingInv
  <2> QED BY <2>6, <2>7, <2>8 DEF PlaceInv
<1>8. ASSUME NEW w \in Workers, Release(w) PROVE PlaceInv'
  <2>0. PICK m \in Slots : m = wslot[w]
    BY <1>8, QueuedAreSlots DEF Release
  <2>1. /\ m # None /\ wdone[w] /\ wslot' = [wslot EXCEPT ![w] = None]
        /\ UNCHANGED <<body, typ, slot, cache, wdone, ended>>
    BY <1>8, <2>0 DEF Release
  <2>2. /\ Carried(m) /\ Ended(m) /\ \A v \in Workers : wslot[v] = m => v = w
    BY <2>0, <2>1 DEF PlaceInv, WorkInv
  <2>4. \A n : Ended(n)' = Ended(n)
    BY <2>1 DEF Ended
  <2>5. wslot'[w] = None /\ \A v \in Workers \ {w} : wslot'[v] = wslot[v]
    BY <2>1 DEF TypeOK
  <2>6. \A n : Carried(n) /\ n # m => Carried(n)' /\ pending'[n] = pending[n]
    <3>1. \A n : Carried(n) /\ n # m => opc'[body[n]] = opc[body[n]]
      BY <1>8, <2>0, <2>2 DEF Release, Carried, TypeOK
    <3>2. \A n \in Slots \ {m} : pending'[n] = pending[n]
      <4>1. pending' = pending \/ pending' = [pending EXCEPT ![m] = TRUE]
        BY <1>8, <2>0 DEF Release, SendAnswer
      <4> QED BY <4>1 DEF TypeOK
    <3> QED BY <2>1, <3>1, <3>2, CarriedUsed DEF Carried
  <2>7. typ[m] \in Waiting => Carried(m)'
    BY <1>8, <2>0, <2>1, <2>2 DEF Release, Carried
  <2>8. typ[m] \notin Waiting => pending' = pending /\ ~pending[m]
    BY <1>8, <2>0, <2>1 DEF Release, PlaceInv, WorkInv
  <2>9. \A n \in Slots : pending'[n] => n = m \/ pending[n]
    BY <1>8, <2>0 DEF Release, SendAnswer, TypeOK
  <2>10. CacheInv'
    <3>1. \A i \in 1..Len(cache) : cache[i] # m /\ cache[i] # None
      BY <2>0, <2>2, QueuedAreSlots DEF PlaceInv, CacheInv
    <3> QED BY <2>1, <2>4, <2>5, <2>6, <3>1 DEF PlaceInv, CacheInv
  <2>11. WorkInv'
    BY <2>0, <2>1, <2>2, <2>4, <2>5, <2>6 DEF PlaceInv, WorkInv
  <2>12. PendingInv'
    BY <2>1, <2>2, <2>4, <2>6, <2>7, <2>8, <2>9 DEF PlaceInv, PendingInv
  <2> QED BY <2>10, <2>11, <2>12 DEF PlaceInv
<1>9. CASE UNCHANGED vars
  BY <1>9, <1>a DEF vars, Carried, Ended
<1> QED BY <1>1, <1>2, <1>3, <1>4, <1>5, <1>6, <1>7, <1>8, <1>9 DEF Next, Caller, Worker

-----------------------------------------------------------------------------
\* An action that leaves the outcome of o and its Msg alone.
Untouched(o) ==
    /\ ended'[o] = ended[o] /\ opc'[o] = opc[o] /\ slot'[o] = slot[o]
    /\ Using(o) => err'[slot[o]] = err[slot[o]] /\ reply'[slot[o]] = reply[slot[o]]

\* What holds of one request in ReportInv.
Told(o) ==
    /\ ended[o] \in Ends \cup {"no"}
    /\ opc[o] \in {"idle", "filled"} => ended[o] = "no"
    /\ opc[o] \in {"answered", "crashed"} => ended[o] # "no"
    /\ Using(o) /\ ended[o] = "no" => ~err[slot[o]]
    /\ opc[o] = "queued" /\ ended[o] # "no" /\ kind[o] \in Waiting => Reports(o)

LEMMA ToldUntouched ==
  ASSUME NEW o \in Ops, Told(o), Untouched(o), UNCHANGED <<flavour, kind>>
  PROVE  Told(o)'
  BY DEF Told, Untouched, Reports, Using, Ends

\* The Msg of a request that waits for its answer says how the handler ended, and
\* nobody else writes to it meanwhile.
LEMMA ReportStep ==
  TypeOK /\ SlotInv /\ PlaceInv /\ ReportInv /\ [Next]_vars => ReportInv'
<1> SUFFICES ASSUME TypeOK, SlotInv, PlaceInv, ReportInv, [Next]_vars PROVE ReportInv'
  OBVIOUS
<1>a. \A o \in Ops : Told(o)
  BY DEF ReportInv, Told
<1>b. (\A o \in Ops : Told(o)') => ReportInv'
  BY DEF ReportInv, Told
<1>c. ASSUME UNCHANGED <<flavour, kind>>, NEW o \in Ops, Told(o)',
             \A p \in Ops \ {o} : Untouched(p)
      PROVE  ReportInv'
  BY <1>a, <1>b, <1>c, ToldUntouched
<1>1. ASSUME NEW o \in Ops, Begin(o) PROVE ReportInv'
  <2>1. PICK m \in Slots :
          /\ \A p \in Ops : Using(p) => slot[p] # m
          /\ slot' = [slot EXCEPT ![o] = m] /\ err' = [err EXCEPT ![m] = FALSE]
          /\ \A n \in Slots \ {m} : reply'[n] = reply[n]
          /\ opc[o] = "idle" /\ opc' = [opc EXCEPT ![o] = "filled"]
          /\ UNCHANGED <<flavour, kind, histVars>>
    BY <1>1, BeginTakesFree
  <2>2. ASSUME NEW p \in Ops \ {o} PROVE Untouched(p)
    <3>1. Using(p) => slot[p] \in Slots \ {m}
      BY <2>1 DEF SlotInv
    <3> QED BY <2>1, <3>1 DEF Untouched, TypeOK
  <2>3. ended'[o] = "no" /\ opc'[o] = "filled" /\ slot'[o] = m /\ ~err'[m]
    BY <2>1 DEF ReportInv, TypeOK
  <2> QED BY <2>1, <2>2, <2>3, <1>c DEF Told
<1>2. ASSUME NEW o \in Ops, Enqueue(o) PROVE ReportInv'
  <2>1. /\ opc[o] = "filled" /\ opc' = [opc EXCEPT ![o] = "queued"]
        /\ UNCHANGED <<err, reply, slot, ended, flavour, kind>>
    BY <1>2 DEF Enqueue
  <2>2. ended[o] = "no" /\ ~err[slot[o]] /\ opc'[o] = "queued"
    BY <2>1 DEF ReportInv, Using, TypeOK
  <2>3. \A p \in Ops \ {o} : Untouched(p)
    BY <2>1 DEF Untouched, TypeOK
  <2> QED BY <2>1, <2>2, <2>3, <1>c DEF Told
<1>3. ASSUME NEW o \in Ops, Return(o) \/ ReturnReq(o) PROVE ReportInv'
  <2>1. /\ opc[o] = "queued" /\ pending[slot[o]]
        /\ UNCHANGED <<slot, reply, ended, flavour, kind>>
        /\ \/ opc' = [opc EXCEPT ![o] = "crashed"]
           \/ opc' = [opc EXCEPT ![o] = "answered"]
        /\ err' = err \/ \E panics \in BOOLEAN : err' = [err EXCEPT ![slot[o]] = panics]
    BY <1>3 DEF Return, ReturnReq, TakeAnswer
  <2>2. Using(o) /\ ended[o] # "no"
    BY <2>1, AnswerIsMine DEF Using
  <2>3. ASSUME NEW p \in Ops \ {o} PROVE Untouched(p)
    <3>1. Using(p) => slot[p] # slot[o] /\ slot[p] \in Slots
      BY <2>2, Unshared DEF SlotInv
    <3>2. Using(p) => err'[slot[p]] = err[slot[p]]
      BY <2>1, <3>1 DEF TypeOK
    <3>3. opc'[p] = opc[p]
      BY <2>1 DEF TypeOK
    <3> QED BY <2>1, <3>2, <3>3 DEF Untouched
  <2>4. Told(o)'
    <3>1. opc'[o] \in {"answered", "crashed"}
      BY <2>1 DEF TypeOK
    <3> QED BY <1>a, <2>1, <2>2, <3>1 DEF Told, Ends
  <2> QED BY <2>1, <2>3, <2>4, <1>c
<1>4. ASSUME NEW o \in Ops, GiveBack(o) PROVE ReportInv'
  <2>1. /\ opc' = [opc EXCEPT ![o] = "done"]
        /\ UNCHANGED <<err, reply, slot, ended, flavour, kind>>
    BY <1>4 DEF GiveBack
  <2>2. \A p \in Ops \ {o} : Untouched(p)
    BY <2>1 DEF Untouched, TypeOK
  <2>3. Told(o)'
    BY <1>a, <2>1 DEF Told, Using, Ends, TypeOK
  <2> QED BY <2>1, <2>2, <2>3, <1>c
<1>5. CASE Collect \/ UNCHANGED vars \/ \E w \in Workers : Take(w)
  <2>1. UNCHANGED <<opc, err, reply, slot, ended, flavour, kind>>
    BY <1>5 DEF Collect, vars, Take
  <2>2. \A p \in Ops : Untouched(p)
    BY <2>1 DEF Untouched
  <2> QED BY <1>a, <1>b, <2>1, <2>2, ToldUntouched
<1>6. ASSUME NEW w \in Workers, NEW end \in Ends, Handle(w, end) PROVE ReportInv'
  <2> DEFINE m == wslot[w]
             o == body[m]
  <2>1. /\ m # None /\ ~wdone[w] /\ ended' = [ended EXCEPT ![o] = end]
        /\ UNCHANGED <<opc, slot, flavour, kind, typ, body, wslot>>
    BY <1>6 DEF Handle
  <2>2. Carried(m) /\ ~Ended(m) /\ m \in Slots
    BY <2>1, QueuedAreSlots DEF PlaceInv, WorkInv
  <2>3. o \in Ops /\ slot[o] = m /\ opc[o] = "queued" /\ ended[o] = "no" /\ typ[m] = kind[o]
        /\ Using(o)
    BY <2>2, CarriedUsed DEF Carried, Ended, Using
  <2>4. ~err[m] /\ err \in [Slots -> BOOLEAN] /\ reply \in [Slots -> Replies]
    BY <2>3 DEF ReportInv, TypeOK
  <2>5. ASSUME NEW p \in Ops \ {o} PROVE Untouched(p)
    <3>1. Using(p) => slot[p] \in Slots /\ slot[p] # m
      BY <2>3, Unshared DEF SlotInv
    <3>2. Using(p) => err'[slot[p]] = err[slot[p]]
      <4>1. err' = err \/ err' = [err EXCEPT ![m] = TRUE]
        BY <1>6 DEF Handle
      <4> QED BY <3>1, <4>1, <2>4
    <3>3. Using(p) => reply'[slot[p]] = reply[slot[p]]
      <4>1. reply' = reply \/ \E r : reply' = [reply EXCEPT ![m] = r]
        BY <1>6 DEF Handle
      <4> QED BY <3>1, <4>1, <2>4
    <3> QED BY <2>1, <3>2, <3>3 DEF Untouched, TypeOK
  <2>6. ended'[o] = end /\ end \in Ends /\ end # "no"
    BY <2>1, <2>3 DEF TypeOK, Ends
  <2>7. kind[o] \in Waiting => Reports(o)'
    <3> SUFFICES ASSUME kind[o] \in Waiting, end # "panic"
                 PROVE  Reports(o)'
      BY <2>1, <2>6 DEF Reports
    <3>1. end \in {"ok", "err", "badReply"} /\ (end = "badReply" => flavour = "rpcE")
      BY DEF Ends
    <3>2. kind[o] = "call" \/ flavour = "rpcU"
      BY <2>3 DEF Waiting, TypeOK, Kinds
    <3>3. CASE flavour = "rpcD"
      <4>1. err'[m] = (end # "ok")
        BY <1>6, <2>2, <2>3, <2>4, <3>1, <3>2, <3>3 DEF Handle
      <4> QED BY <2>1, <2>3, <2>6, <3>3, <4>1 DEF Reports
    <3>4. CASE flavour = "rpcE"
      <4>1. err'[m] = (end # "ok")
        BY <1>6, <2>2, <2>3, <2>4, <3>1, <3>2, <3>4 DEF Handle
      <4>2. end = "ok" => reply'[m] = [of |-> o, ok |-> TRUE]
        BY <1>6, <2>2, <2>3, <2>4, <3>2, <3>4 DEF Handle
      <4> QED BY <2>1, <2>3, <2>6, <3>4, <4>1, <4>2 DEF Reports
    <3>5. CASE flavour = "rpcU"
      <4>1. ~err'[m]
        BY <1>6, <2>4, <3>5 DEF Handle
      <4>2. reply'[m] = [of |-> o, ok |-> end = "ok"]
        BY <1>6, <2>2, <2>3, <2>4, <3>5 DEF Handle
      <4> QED BY <2>1, <2>3, <2>6, <3>5, <4>1, <4>2 DEF Reports
    <3> QED BY <3>3, <3>4, <3>5 DEF TypeOK
  <2>8. ReportInv'
    <3>1. \A p \in Ops \ {o} : Told(p)'
      BY <1>a, <2>1, <2>5, ToldUntouched
    <3>2. Told(o)'
      BY <2>1, <2>3, <2>6, <2>7 DEF Told, Ends
    <3> QED BY <1>b, <2>1, <3>1, <3>2
  <2> QED BY <2>8
<1>7. ASSUME NEW w \in Workers, Release(w) PROVE ReportInv'
  <2> DEFINE o == body[wslot[w]]
  <2>1. /\ UNCHANGED <<err, reply, slot, ended, flavour, kind>>
        /\ opc' = opc \/ opc' = [opc EXCEPT ![o] = "done"]
    BY <1>7 DEF Release
  <2>2. ASSUME NEW p \in Ops PROVE Told(p)'
    <3>1. CASE opc'[p] = opc[p]
      BY <1>a, <2>1, <3>1, ToldUntouched DEF Untouched
    <3>2. CASE opc'[p] = "done"
      BY <1>a, <2>1, <3>2 DEF Told, Using, Ends
    <3> QED BY <2>1, <3>1, <3>2 DEF TypeOK
  <2> QED BY <1>b, <2>2
<1> QED BY <1>1, <1>2, <1>3, <1>4, <1>5, <1>6, <1>7 DEF Next, Caller, Worker

-----------------------------------------------------------------------------
\* What a caller that finds the answer returns is what its Msg reports.
LEMMA AnswerStep ==
  TypeOK /\ SlotInv /\ PlaceInv /\ ReportInv /\ OwnAnswer /\ [Next]_vars => OwnAnswer'
<1> SUFFICES ASSUME TypeOK, SlotInv, PlaceInv, ReportInv, OwnAnswer, [Next]_vars
             PROVE  OwnAnswer'
  OBVIOUS
\* Most actions bring no request to "answered" or "crashed".
<1>a. ASSUME UNCHANGED <<flavour, kind>>,
             \A o \in Ops : opc'[o] \in {"answered", "crashed"} =>
                opc'[o] = opc[o] /\ ended'[o] = ended[o] /\ result'[o] = result[o]
      PROVE  OwnAnswer'
  BY <1>a DEF OwnAnswer
<1>1. ASSUME NEW o \in Ops, Begin(o) \/ Enqueue(o) \/ GiveBack(o) PROVE OwnAnswer'
  BY <1>1, <1>a DEF Begin, Enqueue, GiveBack, TypeOK
<1>2. ASSUME NEW o \in Ops, Return(o) \/ ReturnReq(o) PROVE OwnAnswer'
  <2> DEFINE m == slot[o]
  <2>1. /\ opc[o] = "queued" /\ pending[m] /\ kind[o] \in Waiting
        /\ UNCHANGED <<ended, flavour, kind, reply>>
    BY <1>2 DEF Return, ReturnReq, TakeAnswer, Waiting
  <2>2. ended[o] # "no" /\ m \in Slots /\ Reports(o)
    BY <2>1, AnswerIsMine DEF Using, ReportInv
  <2>3. \A p \in Ops \ {o} : opc'[p] = opc[p] /\ result'[p] = result[p]
    <3>1. \A p \in Ops \ {o} : opc'[p] = opc[p]
      <4>1. opc' = [opc EXCEPT ![o] = "crashed"] \/ opc' = [opc EXCEPT ![o] = "answered"]
        BY <1>2 DEF Return, ReturnReq
      <4> QED BY <4>1 DEF TypeOK
    <3>2. \A p \in Ops \ {o} : result'[p] = result[p]
      <4>1. result' = result \/ \E r : result' = [result EXCEPT ![o] = r]
        BY <1>2 DEF Return, ReturnReq
      <4> QED BY <4>1 DEF TypeOK
    <3> QED BY <3>1, <3>2
  <2>4. CASE Return(o)
    <3>1. CASE flavour # "rpcD" /\ ~err[m] /\ reply[m] = NoReply
      <4>1. opc'[o] = "crashed"
        BY <2>4, <3>1 DEF Return, TypeOK
      <4>2. ended[o] = "panic"
        <5>1. [of |-> o, ok |-> TRUE] # NoReply /\ [of |-> o, ok |-> FALSE] # NoReply
          BY DEF NoReply
        <5>2. flavour \in {"rpcE", "rpcU"}
          BY <3>1 DEF TypeOK
        <5> QED BY <2>2, <3>1, <5>1, <5>2 DEF Reports
      <4> QED BY <2>1, <2>3, <4>1, <4>2 DEF OwnAnswer
    <3>2. CASE ~(flavour # "rpcD" /\ ~err[m] /\ reply[m] = NoReply)
      <4>1. opc'[o] = "answered" /\ result'[o] = Answer(m)
        BY <2>4, <3>2 DEF Return, TypeOK
      <4>2. ended[o] # "panic" =>
               /\ Answer(m).ok = (ended[o] = "ok")
               /\ flavour = "rpcE" /\ Answer(m).ok => Answer(m).of = o
               /\ flavour = "rpcU" => Answer(m).of = o
        <5>1. CASE flavour = "rpcD"
          BY <2>2, <5>1 DEF Reports, Answer
        <5>4. flavour # "rpcD" => Answer(m) = IF err[m] THEN Failed ELSE reply[m]
          BY <2>2 DEF Answer, TypeOK
        <5>2. CASE flavour = "rpcE"
          <6>1. ended[o] # "panic" =>
                   err[m] = (ended[o] # "ok") /\ (ended[o] = "ok" => reply[m] = [of |-> o, ok |-> TRUE])
            BY <2>2, <5>2 DEF Reports
          <6>2. CASE ended[o] = "ok"
            <7>1. Answer(m) = [of |-> o, ok |-> TRUE]
              <8>1. ended[o] # "panic"
                BY <6>2
              <8>2. ~err[m] /\ reply[m] = [of |-> o, ok |-> TRUE]
                BY <6>1, <6>2, <8>1
              <8> QED BY <5>2, <5>4, <8>2
            <7>2. Answer(m).of = o /\ Answer(m).ok = TRUE
              BY <7>1
            <7> QED BY <5>2, <6>2, <7>2
          <6>3. CASE ended[o] # "ok" /\ ended[o] # "panic"
            <7>1. Answer(m) = Failed
              BY <5>2, <5>4, <6>1, <6>3
            <7>2. Failed.ok = FALSE
              BY DEF Failed
            <7> QED BY <5>2, <6>3, <7>1, <7>2
          <6> QED BY <6>2, <6>3
        <5>3. CASE flavour = "rpcU"
          <6>1. ended[o] # "panic" => ~err[m] /\ reply[m] = [of |-> o, ok |-> ended[o] = "ok"]
            BY <2>2, <5>3 DEF Reports
          <6> QED BY <5>3, <5>4, <6>1
        <5> QED BY <5>1, <5>2, <5>3 DEF TypeOK
      <4> QED BY <2>1, <2>2, <2>3, <4>1, <4>2 DEF OwnAnswer
    <3> QED BY <3>1, <3>2
  <2>5. CASE ReturnReq(o)
    <3>1. kind[o] = "callReq" /\ opc'[o] = "answered" /\ flavour = "rpcU"
      BY <2>5 DEF ReturnReq, TypeOK, Kinds
    <3>2. result'[o].of = reply[m].of
      <4>1. PICK panics \in BOOLEAN :
               result' = [result EXCEPT ![o] = [of |-> reply[m].of, ok |-> ~panics]]
        BY <2>5 DEF ReturnReq
      <4> QED BY <4>1 DEF TypeOK
    <3>3. ended[o] # "panic" => reply[m].of = o
      BY <2>2, <3>1 DEF Reports
    <3> QED BY <2>1, <2>2, <2>3, <3>1, <3>2, <3>3 DEF OwnAnswer
  <2> QED BY <1>2, <2>4, <2>5
<1>3. ASSUME NEW w \in Workers, NEW end \in Ends, Handle(w, end) PROVE OwnAnswer'
  <2>1. Carried(wslot[w])
    BY <1>3 DEF Handle, PlaceInv, WorkInv
  <2>2. \A p \in Ops : opc[p] # "queued" => ended'[p] = ended[p]
    BY <1>3, <2>1 DEF Handle, Carried, TypeOK
  <2> QED BY <1>3, <2>2, <1>a DEF Handle
<1>4. ASSUME NEW w \in Workers, Release(w) PROVE OwnAnswer'
  <2>1. opc' = opc \/ opc' = [opc EXCEPT ![body[wslot[w]]] = "done"]
    BY <1>4 DEF Release
  <2>2. UNCHANGED <<flavour, kind, ended, result>>
    BY <1>4 DEF Release
  <2> QED BY <2>1, <2>2, <1>a DEF TypeOK
<1>5. CASE Collect \/ UNCHANGED vars \/ \E w \in Workers : Take(w)
  BY <1>5, <1>a DEF Collect, vars, Take
<1> QED BY <1>1, <1>2, <1>3, <1>4, <1>5 DEF Next, Caller, Worker

\* The handler of a SendReq runs once, and its callback with it.
LEMMA CallbackStep ==
  TypeOK /\ SlotInv /\ PlaceInv /\ CallbackOnce /\ [Next]_vars => CallbackOnce'
<1> SUFFICES ASSUME TypeOK, SlotInv, PlaceInv, CallbackOnce, [Next]_vars
             PROVE  CallbackOnce'
  OBVIOUS
<1>a. ASSUME UNCHANGED kind,
             \A o \in Ops : kind[o] = "sendReq" => called'[o] = called[o] /\ ended'[o] = ended[o]
      PROVE  CallbackOnce'
  BY <1>a DEF CallbackOnce
<1>1. ASSUME NEW w \in Workers, NEW end \in Ends, Handle(w, end) PROVE CallbackOnce'
  <2> DEFINE m == wslot[w]
             o == body[m]
  <2>1. Carried(m) /\ ~Ended(m)
    BY <1>1 DEF Handle, PlaceInv, WorkInv
  <2>2. o \in Ops /\ typ[m] = kind[o] /\ ended[o] = "no"
    BY <2>1, CarriedUsed DEF Carried, Ended
  <2>3. \A p \in Ops \ {o} : ended'[p] = ended[p] /\ called'[p] = called[p]
    <3>1. /\ ended' = [ended EXCEPT ![o] = end]
          /\ called' = called \/ called' = [called EXCEPT ![o] = @ \o GivenToCallback(o, end)]
      BY <1>1 DEF Handle
    <3> QED BY <3>1 DEF TypeOK
  <2>4. ended'[o] = end /\ kind' = kind /\ end # "no"
    BY <1>1, <2>2 DEF Handle, TypeOK, Ends
  <2>5. ASSUME kind[o] = "sendReq" PROVE called'[o] = GivenToCallback(o, end)
    <3>1. called' = [called EXCEPT ![o] = @ \o GivenToCallback(o, end)]
      BY <1>1, <2>2, <2>5 DEF Handle
    <3>2. called[o] = <<>>
      BY <2>2, <2>5 DEF CallbackOnce
    <3>3. GivenToCallback(o, end) \in Seq(Replies)
      <4>1. [of |-> o, ok |-> end = "ok"] \in Replies
        BY <2>2 DEF Replies
      <4> QED BY <4>1 DEF GivenToCallback
    <3>4. <<>> \o GivenToCallback(o, end) = GivenToCallback(o, end)
      BY <3>3, ConcatEmptySeq
    <3>5. called'[o] = called[o] \o GivenToCallback(o, end)
      BY <2>2, <3>1 DEF TypeOK
    <3> QED BY <3>2, <3>4, <3>5
  <2> QED BY <2>2, <2>3, <2>4, <2>5 DEF CallbackOnce, GivenToCallback
<1>2. ASSUME NEW o \in Ops, ReturnReq(o) PROVE CallbackOnce'
  <2>1. kind[o] = "callReq" /\ UNCHANGED <<kind, ended>>
    BY <1>2 DEF ReturnReq
  <2>2. \A p \in Ops \ {o} : called'[p] = called[p]
    BY <1>2 DEF ReturnReq, TypeOK
  <2> QED BY <2>1, <2>2, <1>a
<1>3. ASSUME NEW o \in Ops, Begin(o) \/ Enqueue(o) \/ Return(o) \/ GiveBack(o)
      PROVE  CallbackOnce'
  BY <1>3, <1>a DEF Begin, Enqueue, Return, GiveBack
<1>4. ASSUME NEW w \in Workers, Take(w) \/ Release(w) PROVE CallbackOnce'
  BY <1>4, <1>a DEF Take, Release
<1>5. CASE Collect \/ UNCHANGED vars
  BY <1>5, <1>a DEF Collect, vars
<1> QED BY <1>1, <1>2, <1>3, <1>4, <1>5 DEF Next, Caller, Worker

-----------------------------------------------------------------------------
\* The invariant holds in every reachable state.
THEOREM Invariance == Spec => []CInv
<1>1. CInv /\ [Next]_vars => CInv'
  BY TypeStep, SlotStep, PlaceStep, ReportStep, AnswerStep, CallbackStep DEF CInv
<1> QED BY Initially, <1>1, PTL DEF Spec

\* Every variable of callers and goroutines keeps its type, and the channel its
\* capacity.
THEOREM TypeCorrect == Spec => []TypeOK
<1>1. CInv => TypeOK
  BY DEF CInv
<1> QED BY Invariance, <1>1, PTL

\* A Msg from MsgPool serves one request at a time, and one in the pool is neither
\* queued nor answered (rpc/server.go:40-45 and the Put of each package).
THEOREM MsgsExclusive == Spec => []MsgExclusive
<1>1. ASSUME CInv PROVE MsgExclusive
  <2> USE <1>1 DEF CInv
  <2>1. \A o \in Ops : Using(o) =>
          /\ slot[o] \notin pool /\ body[slot[o]] = o
          /\ \A p \in Ops : Using(p) /\ slot[p] = slot[o] => p = o
    BY Unshared DEF SlotInv
  <2>2. \A n : Carried(n) => n \notin pool
    BY CarriedUsed
  <2>3. \A m \in pool :
          /\ ~pending[m]
          /\ \A i \in 1..Len(cache) : cache[i] # m
          /\ \A w \in Workers : wslot[w] # m
    BY <2>2 DEF TypeOK, PlaceInv, CacheInv, WorkInv, PendingInv
  <2> QED BY <2>1, <2>3 DEF MsgExclusive
<1> QED BY Invariance, <1>1, PTL

\* Call and CallReq return the outcome of their own handler, unless it panicked
\* (rpcD:92-108, rpcE:260-290, rpcU:181-227).
THEOREM AnswersOwn == Spec => []OwnAnswer
<1>1. CInv => OwnAnswer
  BY DEF CInv
<1> QED BY Invariance, <1>1, PTL

\* The callback of SendReq runs once with the outcome of its own handler, unless
\* this panicked (rpcE/server.go:221-259).
THEOREM CallbacksOnce == Spec => []CallbackOnce
<1>1. CInv => CallbackOnce
  BY DEF CInv
<1> QED BY Invariance, <1>1, PTL
=============================================================================
