----------------------------- MODULE MCMqClient -----------------------------
(* A small instance of MqClient for TLC. *)
EXTENDS MqClient

CONSTANTS c1, r1, u1, u2

MCCalls == {c1}
MCRequests == {r1}
MCUsers == {u1, u2}
MCLocalUsers == {u1}
=============================================================================
