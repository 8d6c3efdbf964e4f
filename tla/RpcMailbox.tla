------------------------------ MODULE RpcMailbox ------------------------------
(***************************************************************************)
(* What a rpc.Server promises to the goroutines that use it, with no       *)
(* counter, no channel and no goroutine of its own: messages are accepted  *)
(* at any time, performed while the server is not stopped, and a Stop that *)
(* waits ends only when what was accepted before it has been performed.    *)
(* The promise holds for a server that was started with nothing            *)
(* outstanding ("sound"); otherwise the server may keep it or not.         *)
(***************************************************************************)
CONSTANT Msgs

VARIABLES phase,      \* "start", "stopping", "stop"
          accepted,   \* messages accepted so far
          performed,  \* messages performed so far
          old,        \* what was accepted before the last Restart
          due,        \* what the stop in progress waits for
          sound       \* the promise of a waiting stop holds

vars == <<phase, accepted, performed, old, due, sound>>

Init == /\ phase = "start"
        /\ accepted = {} /\ performed = {} /\ old = {} /\ due = {}
        /\ sound = TRUE

Accept(m) == /\ m \notin accepted
             /\ accepted' = accepted \union {m}
             /\ UNCHANGED <<phase, performed, old, due, sound>>

Perform(m) == /\ m \in accepted \ performed
              /\ phase # "stop"
              /\ performed' = performed \union {m}
              /\ UNCHANGED <<phase, accepted, old, due, sound>>

BeginStop(wait) ==
    /\ phase = "start"
    /\ phase' = "stopping"
    /\ due' = IF wait /\ sound THEN accepted \ old ELSE {}
    /\ UNCHANGED <<accepted, performed, old, sound>>

EndStop == /\ phase = "stopping"
           /\ due \subseteq performed
           /\ phase' = "stop"
           /\ UNCHANGED <<accepted, performed, old, due, sound>>

Restart == /\ phase = "stop"
           /\ phase' = "start"
           /\ old' = accepted
           /\ sound' \in BOOLEAN
           /\ accepted = performed => sound'
           /\ UNCHANGED <<accepted, performed, due>>

Next == \/ \E m \in Msgs : Accept(m) \/ Perform(m)
        \/ \E wait \in BOOLEAN : BeginStop(wait)
        \/ EndStop
        \/ Restart

Spec == Init /\ [][Next]_vars
===============================================================================
