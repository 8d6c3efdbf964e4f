------------------------------- MODULE MCMqBroker -------------------------------
(* A small instance of MqBroker: a subscriber that sends, and leaves, and  *)
(* another client that may take its place.                                 *)
EXTENDS MqBroker, TLC

CONSTANTS c1, c2, t1, i1, i2

MCTopicOf == [q \in Queues |-> t1]
MCInstanceOf == (c1 :> i1) @@ (c2 :> i2)
MCEarly == c1 :> t1
MCMaxMessages == (c1 :> 2) @@ (c2 :> 1)
=============================================================================
