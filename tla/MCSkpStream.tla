---------------------------- MODULE MCSkpStream ----------------------------
(* A small instance of SkpStream for TLC: a packet that is all head, one   *)
(* that is longer than a read, and arrays that are too short for two.      *)
EXTENDS SkpStream

MCSize == <<3, 5, 3, 4>>
MCHeadSize == [kind \in {"conn", "data"} |-> IF kind = "conn" THEN 2 ELSE 3]
============================================================================
