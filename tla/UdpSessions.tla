---------------------------- MODULE UdpSessions ----------------------------
(***************************************************************************)
(* What the UDP greeting server keeps of its clients, whatever its table   *)
(* looks like: the set of those it has greeted and not yet said goodbye    *)
(* to, never more than MaxClient, and the last thing it told each.         *)
(***************************************************************************)
EXTENDS Integers, FiniteSets

CONSTANTS Clients, MaxClient

VARIABLES sessions, last

Init == sessions = {} /\ last = [c \in Clients |-> "nothing"]

Greet(c) ==
  /\ c \notin sessions
  /\ Cardinality(sessions) < MaxClient
  /\ sessions' = sessions \cup {c}
  /\ last' = [last EXCEPT ![c] = "question"]

Farewell(c) ==
  /\ c \in sessions
  /\ sessions' = sessions \ {c}
  /\ last' = [last EXCEPT ![c] = "goodbye"]

Forget ==
  /\ \E gone \in SUBSET sessions : sessions' = sessions \ gone
  /\ UNCHANGED last

Next == Forget \/ \E c \in Clients : Greet(c) \/ Farewell(c)

Spec == Init /\ [][Next]_<<sessions, last>>
=============================================================================
