------------------------------- MODULE MCEcho -------------------------------
(* Echo for TLC: two clients that may type two lines, so that one recv()   *)
(* may return both or the first of them only.                              *)
EXTENDS Echo

CONSTANTS c1, c2
MCClients == {c1, c2}
MCLines == [c \in MCClients |-> 2]
=============================================================================
