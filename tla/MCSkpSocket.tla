----------------------------- MODULE MCSkpSocket ------------------------------
(* Small instances of SkpSocket.                                           *)
EXTENDS SkpSocket, TLC

CONSTANTS s1,   \* a socket of the listener
          o1,   \* a socket that is dialled
          a1    \* the server ID that both are listed under
=============================================================================
