----------------------------- MODULE MCMqRegistry -----------------------------
(* Small instances of MqRegistry.                                          *)
EXTENDS MqRegistry, TLC

CONSTANTS t1, t2

\* Every queue carries the first topic.
MCTopicOf == [q \in Queues |-> t1]

\* Clients of one kind are not told apart; neither are queues.
Symmetric == Permutations(Clients \ Unruly) \cup Permutations(Queues) \cup Permutations(Instances)
=============================================================================
