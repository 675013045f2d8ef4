----------------------------- MODULE ForkServer -----------------------------
(* The parent process of HTTP/server.c, Ontap/Bai1/server.c and            *)
(* Chuong 4/thuchanh/bai2_serv.c: a child for each connection, and, in all *)
(* but the last, a handler of SIGCHLD that collects those that have ended. *)
EXTENDS Naturals, FiniteSets

CONSTANTS Clients,
          Limits        \* what the system may allow of children not yet collected
ASSUME LimitsAssumption == Limits \subseteq Nat
ASSUME ClientsAssumption == IsFiniteSet(Clients) /\ "none" \notin Clients

VARIABLES prog,         \* http | registration | quiz
          limit,        \* how many children the system allows
          parent,       \* accept | fork | close
          current,      \* the connection the parent holds, if it is not at accept()
          backlog,      \* connections not yet accepted
          kid,          \* the child of a connection: none | run | zombie | gone
          sigchld,      \* SIGCHLD is pending
          handling      \* the handler is running

procs == <<prog, limit, parent, current, backlog, kid, sigchld, handling>>

ProcTypeOK ==
  /\ prog \in {"http", "registration", "quiz"} /\ limit \in Limits
  /\ parent \in {"accept", "fork", "close"}
  /\ current \in Clients \cup {"none"} /\ (parent = "accept" <=> current = "none")
  /\ backlog \subseteq Clients
  /\ kid \in [Clients -> {"none", "run", "zombie", "gone"}]
  /\ {sigchld, handling} \subseteq BOOLEAN
  /\ Cardinality({c \in Clients : kid[c] \in {"run", "zombie"}}) <= limit

ProcInit ==
  /\ prog \in {"http", "registration", "quiz"} /\ limit \in Limits
  /\ parent = "accept" /\ current = "none" /\ backlog = {}
  /\ kid = [c \in Clients |-> "none"] /\ sigchld = FALSE /\ handling = FALSE

Reaps == prog # "quiz"
Uncollected == {c \in Clients : kid[c] \in {"run", "zombie"}}
Zombies == {c \in Clients : kid[c] = "zombie"}

\* accept() goes on after the handler: signal() of glibc restarts it.
Accept ==
  /\ parent = "accept" /\ ~handling
  /\ \E c \in backlog : current' = c /\ backlog' = backlog \ {c}
  /\ parent' = "fork"
  /\ UNCHANGED <<prog, limit, kid, sigchld, handling>>

\* A fork() that fails is not looked at.
Fork ==
  /\ parent = "fork" /\ ~handling
  /\ kid' = IF Cardinality(Uncollected) < limit THEN [kid EXCEPT ![current] = "run"] ELSE kid
  /\ parent' = "close"
  /\ UNCHANGED <<prog, limit, current, backlog, sigchld, handling>>

CloseCopy ==
  /\ parent = "close" /\ ~handling
  /\ parent' = "accept" /\ current' = "none"
  /\ UNCHANGED <<prog, limit, backlog, kid, sigchld, handling>>

Handler ==
  /\ Reaps /\ sigchld /\ ~handling
  /\ handling' = TRUE /\ sigchld' = FALSE
  /\ UNCHANGED <<prog, limit, parent, current, backlog, kid>>

\* Wrong: "if" for "while".
CollectOnce ==
  /\ handling /\ handling' = FALSE
  /\ IF Zombies = {} THEN UNCHANGED kid
     ELSE \E c \in Zombies : kid' = [kid EXCEPT ![c] = "gone"]
  /\ UNCHANGED <<prog, limit, parent, current, backlog, sigchld>>
\* One call of waitpid(). Signals that come meanwhile are one pending signal.
Collect ==
  /\ handling
  /\ \/ Zombies = {} /\ handling' = FALSE /\ UNCHANGED kid
     \/ \E c \in Zombies : kid' = [kid EXCEPT ![c] = "gone"] /\ UNCHANGED handling
  /\ UNCHANGED <<prog, limit, parent, current, backlog, sigchld>>

Parent == Accept \/ Fork \/ CloseCopy \/ Handler \/ Collect

\* A client connects; a child ends.
Enqueue(c) ==
  /\ backlog' = backlog \cup {c}
  /\ UNCHANGED <<prog, limit, parent, current, kid, sigchld, handling>>
Exit(c) ==
  /\ kid' = [kid EXCEPT ![c] = "zombie"] /\ sigchld' = TRUE
  /\ UNCHANGED <<prog, limit, parent, current, backlog, handling>>
\* Wrong: the parent never closes its copy.
KeptOpen(c) == FALSE
\* The client sees the end of its connection when neither process has it any more.
Closed(c) == current # c /\ kid[c] # "run"
=============================================================================
