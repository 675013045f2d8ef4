---------------------------- MODULE MCUdpGreeting ----------------------------
(***************************************************************************)
(* Bounds for UdpGreeting: more clients than entries, so that the table is *)
(* full while others wait.                                                 *)
(***************************************************************************)
EXTENDS UdpGreeting
=============================================================================
