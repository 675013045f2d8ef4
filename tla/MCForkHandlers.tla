--------------------------- MODULE MCForkHandlers ---------------------------
(***************************************************************************)
(* Bounds for ForkHandlers: see forks.cfg.                                 *)
(***************************************************************************)
EXTENDS ForkHandlers
=============================================================================
