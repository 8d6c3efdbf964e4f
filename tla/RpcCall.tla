------------------------------- MODULE RpcCall -------------------------------
(***************************************************************************)
(* One request through a running rpc server: Send, SendReq, Call and       *)
(* CallReq of rpcD, rpcE and rpcU fill a Msg taken from MsgPool, queue it, *)
(* and RPC_DoMsg runs the handler under recover().  For Send and SendReq   *)
(* the goroutine of the server gives the Msg back to the pool; for Call    *)
(* and CallReq it answers on msg.Pending and the caller gives it back.     *)
(* Msg.Init (rpc/server.go:40-45) does not clear Reply.                    *)
(*                                                                         *)
(* flavour is the package, whose handlers report differently: rpcD         *)
(* returns only an error, rpcE a reply string and an error, rpcU the Go    *)
(* values the method returned, an error among them.  A reply is the pair   *)
(* of the request it answers and whether that method succeeded.            *)
(* Starting and stopping the server is the subject of RpcServer.           *)
(***************************************************************************)
EXTENDS Integers, Sequences, FiniteSets

CONSTANTS Ops,       \* requests
          Slots,     \* Msg objects the pool may ever hold or make
          Workers,   \* goroutines running Server.run
          Capacity,  \* size of Cache
          Flavours,  \* the packages: "rpcD", "rpcE", "rpcU"
          Outcomes,  \* how handlers may end
          None       \* no request: the nil Reply

ASSUME CallAssumption ==
    /\ IsFiniteSet(Ops) /\ IsFiniteSet(Slots)
    /\ Cardinality(Slots) >= Cardinality(Ops)
    /\ Capacity \in Nat \ {0}
    /\ Flavours \subseteq {"rpcD", "rpcE", "rpcU"}
    /\ Outcomes \subseteq {"ok", "err", "badReply", "panic"}
    /\ None \notin Ops \union Slots

Waiting == {"call", "callReq"}   \* kinds whose caller waits on msg.Pending

NoReply  == [of |-> None, ok |-> FALSE]   \* msg.Reply = nil
Failed   == [of |-> None, ok |-> FALSE]   \* an error and nothing else
Replies  == [of : Ops \union {None}, ok : BOOLEAN]

VARIABLES
    flavour,  \* the package of this server
    pool,     \* the Msg objects in MsgPool
    typ,      \* msg.Typ
    body,     \* the request whose Method, Args and callback are in the Msg
    err,      \* msg.Err is not nil
    reply,    \* msg.Reply
    pending,  \* msg.Pending holds the answer
    cache,    \* server.Cache
    opc,      \* how far a request has come on the caller's side
    kind,     \* which of the four operations a request is
    slot,     \* the Msg a request uses
    result,   \* what the caller got
    wslot,    \* the Msg a goroutine is working on, None when idle
    wdone,    \* the goroutine has run the handler of its Msg
    ended,    \* history: how the handler of a request ended
    called    \* history: what the callback of a request was given, in order

msgVars  == <<typ, body, err, reply>>
callVars == <<opc, flavour, kind, slot, result>>
workVars == <<wslot, wdone>>
histVars == <<ended, called>>
vars == <<pool, msgVars, pending, cache, callVars, workVars, histVars>>

\* CallReq is there in rpcU only.
Kinds == {"send", "sendReq", "call"} \cup (IF flavour = "rpcU" THEN {"callReq"} ELSE {})

\* How a method may end in this flavour: only rpcE encodes a reply, and may
\* fail to.
Ends == IF flavour = "rpcE" THEN Outcomes ELSE Outcomes \ {"badReply"}

Init ==
    /\ flavour \in Flavours
    /\ pool = {}
    /\ typ = [m \in Slots |-> "call"]
    /\ body = [m \in Slots |-> None]
    /\ err = [m \in Slots |-> FALSE]
    /\ reply = [m \in Slots |-> NoReply]
    /\ pending = [m \in Slots |-> FALSE]
    /\ cache = <<>>
    /\ opc = [o \in Ops |-> "idle"]
    /\ kind \in [Ops -> Kinds]
    /\ slot = [o \in Ops |-> None]
    /\ result = [o \in Ops |-> NoReply]
    /\ wslot = [w \in Workers |-> None] /\ wdone = [w \in Workers |-> FALSE]
    /\ ended = [o \in Ops |-> "no"]
    /\ called = [o \in Ops |-> <<>>]

\* Requests between taking a Msg and giving it back, by whichever side does.
Using(o) == opc[o] \notin {"idle", "done"}
InUse == {slot[o] : o \in {p \in Ops : Using(p)}}

-----------------------------------------------------------------------------
(* The caller.                                                             *)

\* Msg.Init: Typ, Method and Encode are set again at once, Reply stays.
InitKeepingErr(e) == e                      \* mutant: Err stays as well
InitErr(e) == FALSE

\* MsgPool.Get() returns a pooled Msg or makes a new one, whose Reply is nil;
\* Init and the assignments after it.
Begin(o) ==
    /\ opc[o] = "idle"
    /\ \E m \in Slots :
          /\ m \in pool \/ m \notin InUse
          /\ pool' = pool \ {m}
          /\ slot' = [slot EXCEPT ![o] = m]
          /\ typ' = [typ EXCEPT ![m] = kind[o]]
          /\ body' = [body EXCEPT ![m] = o]
          /\ err' = [err EXCEPT ![m] = m \in pool /\ InitErr(@)]
          /\ reply' = [reply EXCEPT ![m] = IF m \in pool THEN @ ELSE NoReply]
          /\ pending' = [pending EXCEPT ![m] = m \in pool /\ @]
    /\ opc' = [opc EXCEPT ![o] = "filled"]
    /\ UNCHANGED <<cache, flavour, kind, result, workVars, histVars>>

HasRoom == Len(cache) < Capacity

\* server.Cache <- msg: a Send returns, the Msg now belongs to the server.
Enqueue(o) ==
    /\ opc[o] = "filled"
    /\ HasRoom
    /\ cache' = Append(cache, slot[o])
    /\ opc' = [opc EXCEPT ![o] = "queued"]
    /\ UNCHANGED <<pool, msgVars, pending, flavour, kind, slot, result, workVars, histVars>>

\* <-msg.Pending takes the answer out of the channel.
PeekAnswer(m) == pending[m] /\ UNCHANGED pending       \* mutant: it stays there
TakeAnswer(m) == pending[m] /\ pending' = [pending EXCEPT ![m] = FALSE]

\* What Call returns once the answer is there: the error, else the reply;
\* the assertion on a nil Reply panics in the caller ("crash").
Answer(m) ==
    CASE flavour = "rpcD" -> [of |-> None, ok |-> ~err[m]]
      [] flavour # "rpcD" /\ err[m] -> Failed
      [] OTHER -> reply[m]

\* <-msg.Pending and the code after it.
Return(o) ==
    /\ opc[o] = "queued" /\ kind[o] = "call"
    /\ TakeAnswer(slot[o])
    /\ IF flavour # "rpcD" /\ ~err[slot[o]] /\ reply[slot[o]] = NoReply
       THEN opc' = [opc EXCEPT ![o] = "crashed"] /\ UNCHANGED result
       ELSE /\ opc' = [opc EXCEPT ![o] = "answered"]
            /\ result' = [result EXCEPT ![o] = Answer(slot[o])]
    /\ UNCHANGED <<pool, msgVars, cache, flavour, kind, slot, workVars, histVars>>

\* CallReq of rpcU hands the reply to the callback under recover(): a nil
\* Reply or a panic in the callback becomes the error CallReq returns.
ReturnReq(o) ==
    /\ opc[o] = "queued" /\ kind[o] = "callReq"
    /\ TakeAnswer(slot[o])
    /\ \E panics \in (IF reply[slot[o]] = NoReply THEN {TRUE} ELSE BOOLEAN) :
          /\ err' = [err EXCEPT ![slot[o]] = panics]
          /\ result' = [result EXCEPT ![o] = [of |-> reply[slot[o]].of, ok |-> ~panics]]
    /\ called' = [called EXCEPT ![o] =
                     IF reply[slot[o]] = NoReply THEN @ ELSE Append(@, reply[slot[o]])]
    /\ opc' = [opc EXCEPT ![o] = "answered"]
    /\ UNCHANGED <<pool, typ, body, reply, cache, flavour, kind, slot, workVars, ended>>

\* defer server.MsgPool.Put(msg), which runs after a panic too.
GiveBack(o) ==
    /\ opc[o] \in {"answered", "crashed"}
    /\ pool' = pool \union {slot[o]}
    /\ opc' = [opc EXCEPT ![o] = "done"]
    /\ UNCHANGED <<msgVars, pending, cache, flavour, kind, slot, result, workVars, histVars>>

\* The garbage collector empties pools.
Collect ==
    /\ pool # {}
    /\ pool' = {}
    /\ UNCHANGED <<msgVars, pending, cache, callVars, workVars, histVars>>

-----------------------------------------------------------------------------
(* The goroutines of the server: RPC_DoMsg.                                *)

Take(w) ==
    /\ wslot[w] = None /\ cache # <<>>
    /\ wslot' = [wslot EXCEPT ![w] = Head(cache)]
    /\ wdone' = [wdone EXCEPT ![w] = FALSE]
    /\ cache' = Tail(cache)
    /\ UNCHANGED <<pool, msgVars, pending, callVars, histVars>>

\* Mutant: after an error the callback is called with the reply as well.
GivenTwice(o, end) ==
    IF end = "panic" THEN <<>>
    ELSE IF end = "ok" THEN <<[of |-> o, ok |-> TRUE]>>
    ELSE <<[of |-> o, ok |-> FALSE], [of |-> o, ok |-> FALSE]>>
\* What the callback of SendReq is given: nothing when the handler panicked.
GivenToCallback(o, end) ==
    IF end = "panic" THEN <<>> ELSE <<[of |-> o, ok |-> end = "ok"]>>

\* The handler, up to the recover(), and the callback of SendReq.
Handle(w, end) ==
    LET m == wslot[w]
        o == body[m]
    IN  /\ m # None /\ ~wdone[w]
        /\ wdone' = [wdone EXCEPT ![w] = TRUE]
        /\ ended' = [ended EXCEPT ![o] = end]
        /\ called' = IF typ[m] = "sendReq"
                     THEN [called EXCEPT ![o] = @ \o GivenToCallback(o, end)]
                     ELSE called
        /\ err' = IF typ[m] # "send" /\ end \in {"err", "badReply"} /\ flavour # "rpcU"
                     /\ (typ[m] = "call" \/ flavour = "rpcE")
                  THEN [err EXCEPT ![m] = TRUE] ELSE err
        /\ reply' = CASE typ[m] \in Waiting /\ flavour = "rpcU" /\ end # "panic" ->
                           [reply EXCEPT ![m] = [of |-> o, ok |-> end = "ok"]]
                      [] typ[m] \in {"call", "sendReq"} /\ flavour = "rpcE"
                            /\ end \in {"ok", "badReply"} ->
                           [reply EXCEPT ![m] = [of |-> o, ok |-> end = "ok"]]
                      [] OTHER -> reply
        /\ UNCHANGED <<pool, typ, body, pending, cache, callVars, wslot>>

\* Who gives the Msg back: MsgPool.Put(msg) here, or the caller later.
PutHere(m) == typ[m] \notin Waiting

\* msg.Pending <- msg, a channel of size 1.
AnswerNot(m) == UNCHANGED pending                \* mutant: nobody is told
SendAnswer(m) == ~pending[m] /\ pending' = [pending EXCEPT ![m] = TRUE]

Release(w) ==
    LET m == wslot[w]
    IN  /\ m # None /\ wdone[w]
        /\ pool' = IF PutHere(m) THEN pool \union {m} ELSE pool
        /\ opc' = IF typ[m] \in Waiting THEN opc ELSE [opc EXCEPT ![body[m]] = "done"]
        /\ IF typ[m] \in Waiting THEN SendAnswer(m) ELSE UNCHANGED pending
        /\ wslot' = [wslot EXCEPT ![w] = None]
        /\ UNCHANGED <<msgVars, cache, flavour, kind, slot, result, wdone, histVars>>

-----------------------------------------------------------------------------
Caller(o) == Begin(o) \/ Enqueue(o) \/ Return(o) \/ ReturnReq(o) \/ GiveBack(o)

Worker(w) == Take(w) \/ Release(w) \/ \E end \in Ends : Handle(w, end)

Next == \/ \E o \in Ops : Caller(o)
        \/ \E w \in Workers : Worker(w)
        \/ Collect

Spec == Init /\ [][Next]_vars

(* A request that was begun is carried on, goroutines of the server run and *)
(* handlers end.  Nothing makes anyone begin a request.                     *)
Fairness ==
    /\ \A o \in Ops : WF_vars(Return(o)) /\ WF_vars(ReturnReq(o)) /\ SF_vars(Enqueue(o))
    /\ \A w \in Workers : WF_vars(Worker(w))

FairSpec == Spec /\ Fairness
-----------------------------------------------------------------------------
(* Properties.                                                             *)

\* The type of every variable, and the size of the channel.
TypeOK ==
    /\ flavour \in Flavours
    /\ pool \subseteq Slots
    /\ typ \in [Slots -> {"send", "sendReq", "call", "callReq"}]
    /\ body \in [Slots -> Ops \union {None}]
    /\ err \in [Slots -> BOOLEAN] /\ reply \in [Slots -> Replies]
    /\ pending \in [Slots -> BOOLEAN]
    /\ cache \in Seq(Slots) /\ Len(cache) <= Capacity
    /\ opc \in [Ops -> {"idle", "filled", "queued", "answered", "crashed", "done"}]
    /\ kind \in [Ops -> Kinds]
    /\ slot \in [Ops -> Slots \union {None}]
    /\ result \in [Ops -> Replies]
    /\ wslot \in [Workers -> Slots \union {None}] /\ wdone \in [Workers -> BOOLEAN]
    /\ ended \in [Ops -> {"no", "ok", "err", "badReply", "panic"}]
    /\ called \in [Ops -> Seq(Replies)]

\* A Msg serves one request at a time and is not in the pool meanwhile, though
\* the server gives it back for Send and SendReq and the caller for Call and
\* CallReq (rpcE/server.go:220, 259, 339); and a Msg in the pool has an empty
\* Pending channel and is not queued: otherwise the next Call that gets it would
\* take a stale answer.
MsgExclusive ==
    /\ \A o \in Ops : Using(o) =>
          /\ slot[o] \notin pool
          /\ body[slot[o]] = o
          /\ \A p \in Ops : Using(p) /\ slot[p] = slot[o] => p = o
    /\ \A m \in pool :
          /\ ~pending[m]
          /\ \A i \in 1..Len(cache) : cache[i] # m
          /\ \A w \in Workers : wslot[w] # m

\* Call and CallReq return the outcome of their own handler, as long as that
\* handler did not panic (rpcD:92-108, rpcE:260-290, rpcU:181-227); a handler
\* that did may leave a CallReq the reply of an earlier request, and is the only
\* one that makes its caller panic.
OwnAnswer ==
    \A o \in Ops :
        /\ opc[o] = "answered" =>
              /\ ended[o] # "no"
              /\ ended[o] # "panic" /\ kind[o] = "call" => result[o].ok = (ended[o] = "ok")
              /\ ended[o] # "panic" /\ flavour = "rpcE" /\ result[o].ok => result[o].of = o
              /\ ended[o] # "panic" /\ flavour = "rpcU" => result[o].of = o
        /\ opc[o] = "crashed" => ended[o] = "panic"

\* The callback of SendReq runs once, with the outcome of its own handler,
\* unless the handler panicked, and then never (rpcE/server.go:221-259).
CallbackOnce ==
    \A o \in Ops : kind[o] = "sendReq" =>
        called[o] = IF ended[o] \in {"no", "panic"} THEN <<>>
                    ELSE <<[of |-> o, ok |-> ended[o] = "ok"]>>

\* What was queued is handled, and a Call comes back, however its handler ends.
CallReturns ==
    \A o \in Ops : opc[o] = "queued" ~> opc[o] \in {"answered", "crashed", "done"}

\* What the tests of rpcD expect of Call with a handler that fails
\* (rpcD/server_test.go:196-199): the call reports it.
FailureReported ==
    \A o \in Ops : opc[o] = "answered" /\ result[o].ok => ended[o] = "ok"
==============================================================================
