---------------------------- MODULE MCPollServer ----------------------------
(***************************************************************************)
(* Bounds for PollServer: the connections are interchangeable when all of  *)
(* them may be reset.                                                      *)
(***************************************************************************)
EXTENDS PollServer, TLC

Symmetry == Permutations(Conns)
=============================================================================
