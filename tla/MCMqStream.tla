----------------------------- MODULE MCMqStream -----------------------------
(* A small instance of MqStream for TLC: bodies shorter and longer than a  *)
(* read.                                                                   *)
EXTENDS MqStream, TLC

CONSTANTS p1, p2, m1, m2

MCProducers == {p1, p2}
MCMsgs == {m1, m2}
MCBodySize == (m1 :> 1) @@ (m2 :> 3)
=============================================================================
