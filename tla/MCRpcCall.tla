----------------------------- MODULE MCRpcCall -----------------------------
(* Small instances of RpcCall for TLC. *)
EXTENDS RpcCall

CONSTANTS o1, o2, s1, s2, w1, w2

MCOps == {o1, o2}
MCSlots == {s1, s2}
MCWorkers == {w1, w2}
MCWorker == {w1}
============================================================================
