---------------------------- MODULE MCRpcServer ----------------------------
(* A small instance of RpcServer for TLC. *)
EXTENDS RpcServer

CONSTANTS m1, m2, w1, w2

MCMsgs == {m1, m2}
MCWorkers == {w1, w2}
=============================================================================
