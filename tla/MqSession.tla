------------------------------ MODULE MqSession ------------------------------
(***************************************************************************)
(* What the client library promises of its requests to the broker, with no *)
(* numbers, caches, goroutines or locks: it registers first and stops      *)
(* subscribing before it says that it closes, each request takes its own   *)
(* answer and no second one, and comes back with it or not at all, and the *)
(* client gives up its connection only after it has stopped subscribing.   *)
(***************************************************************************)
CONSTANTS Calls, OnMqRegister, OnMqStopSubscribe, OnMqClose, None

VARIABLES phase,   \* "none", "issued" or "done"
          reply,   \* the request whose answer a request has got
          open     \* the client has its connection

vars == <<phase, reply, open>>
Jobs == Calls \cup {OnMqRegister, OnMqStopSubscribe, OnMqClose}

Init == /\ phase = [j \in Jobs |-> "none"]
        /\ reply = [j \in Jobs |-> None]
        /\ open = TRUE

\* What has to be done before j.
Before(j) == CASE j = OnMqRegister -> {}
               [] j = OnMqClose -> {OnMqStopSubscribe}
               [] OTHER -> {OnMqRegister}

Issue(j) == /\ phase[j] = "none" /\ \A b \in Before(j) : phase[b] = "done"
            /\ phase' = [phase EXCEPT ![j] = "issued"]
            /\ UNCHANGED <<reply, open>>

Answer(j) == /\ phase[j] = "issued" /\ reply[j] = None
             /\ reply' = [reply EXCEPT ![j] = j]
             /\ UNCHANGED <<phase, open>>

Return(j) == /\ phase[j] = "issued" /\ reply[j] = j
             /\ phase' = [phase EXCEPT ![j] = "done"]
             /\ UNCHANGED <<reply, open>>

HangUp == /\ open /\ phase[OnMqStopSubscribe] = "done"
          /\ open' = FALSE
          /\ UNCHANGED <<phase, reply>>

Next == HangUp \/ \E j \in Jobs : Issue(j) \/ Answer(j) \/ Return(j)

Spec == Init /\ [][Next]_vars
===============================================================================
