----------------------------- MODULE MCClients -----------------------------
(***************************************************************************)
(* Bounds for Clients: every program, with up to two answers unread when   *)
(* the user chooses the next operation. See clients.cfg.                   *)
(***************************************************************************)
EXTENDS Clients
=============================================================================
