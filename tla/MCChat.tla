------------------------------- MODULE MCChat -------------------------------
(* Chat for TLC: four clients over a table of three, so that two hear what *)
(* a third says, and one may come when the table is full, or later. Two of *)
(* them speak and leave, two only listen.                                  *)
EXTENDS Chat
=============================================================================
