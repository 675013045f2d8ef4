-------------------------------- MODULE Echo --------------------------------
(***************************************************************************)
(* The echo of "Chapter 5": tcpserv01.c answers what its clients send, in  *)
(* capitals; tcpcli01.c sends its input, closes its half of the connection *)
(* at the end of the input and prints until the server closes the other.   *)
(*                                                                         *)
(* Abstractions.  What is sent is counted: TCP keeps the order, so that    *)
(* what has arrived is a prefix.  A descriptor is named by its connection, *)
(* and select() sees all of them: maxfd never falls below one.             *)
(* Descriptors reach FD_SETSIZE before the table is full, the standard     *)
(* ones and the listening socket being four of them: line 73 is true in no *)
(* run that is defined.                                                    *)
(***************************************************************************)
EXTENDS Integers, FiniteSets

CONSTANTS
  Clients,
  Size,     \* FD_SETSIZE
  Lines     \* bound: how much each client's user may type

Nobody == "nobody"   \* the -1 of an entry
Listen == "listen"

ASSUME SizeAssumption ==
  /\ IsFiniteSet(Clients) /\ Size \in Nat /\ Cardinality(Clients) + 4 <= Size
  /\ Lines \in [Clients -> Nat]
  /\ Nobody \notin Clients /\ Listen \notin Clients

VARIABLES
  pc,        \* the server's place in main()
  client,    \* client[]
  maxi,
  i,         \* the entry the loop over the clients has reached
  allset, rset,
  state,     \* of each connection
  link,      \* what has reached the server after the data of a client
  unread,    \* what the server has not read
  echo,      \* what the client has not read
  run,       \* of each client: how far it has come
  stdineof,
  typed, got \* of each client: what it has sent and printed

table == <<client, maxi, allset>>
kernel == <<state, link, unread, echo>>
cli == <<run, stdineof, typed, got>>
vars == <<pc, i, rset, table, kernel, cli>>

Slots == 0 .. (Size - 1)

TypeOK ==
  /\ pc \in {"select", "accept", "clients", "dead"}
  /\ client \in [Slots -> Clients \cup {Nobody}]
  /\ maxi \in Slots \cup {-1}
  /\ i \in 0 .. Size
  /\ allset \subseteq Clients \cup {Listen} /\ rset \subseteq Clients \cup {Listen}
  /\ state \in [Clients -> {"new", "backlog", "open", "closed"}]
  /\ link \in [Clients -> {"up", "eof", "broken", "reset"}]
  /\ run \in [Clients -> {"idle", "running", "done", "failed", "killed"}]
  /\ stdineof \in [Clients -> BOOLEAN]
  /\ unread \in [Clients -> Nat] /\ echo \in [Clients -> Nat]
  /\ typed \in [Clients -> Nat] /\ got \in [Clients -> Nat]
  /\ \A c \in Clients : {unread[c], echo[c], typed[c], got[c]} \subseteq 0 .. Lines[c]

Init ==
  /\ pc = "select"
  /\ client = [j \in Slots |-> Nobody]
  /\ maxi = -1
  /\ i = 0
  /\ allset = {Listen}
  /\ rset = {}
  /\ state = [c \in Clients |-> "new"]
  /\ link = [c \in Clients |-> "up"]
  /\ unread = [c \in Clients |-> 0] /\ echo = [c \in Clients |-> 0]
  /\ run = [c \in Clients |-> "idle"]
  /\ stdineof = [c \in Clients |-> FALSE]
  /\ typed = [c \in Clients |-> 0] /\ got = [c \in Clients |-> 0]

----------------------------------------------------------------------------
(* The server.                                                             *)

Readable(c) == unread[c] > 0 \/ link[c] # "up"

Ready ==
  {c \in allset \cap Clients : Readable(c)}
    \cup {l \in {Listen} : \E c \in Clients : state[c] = "backlog"}

Select ==
  /\ pc = "select"
  /\ Ready # {}
  /\ rset' = Ready
  /\ pc' = IF Listen \in Ready THEN "accept" ELSE "clients"
  /\ UNCHANGED <<i, table, kernel, cli>>

Highest(j) == IF j > maxi THEN j ELSE maxi

(* Lines 61-84.  Unless another descriptor is ready, nready has come down  *)
(* to 0.                                                                   *)
Accept(c) ==
  /\ pc = "accept"
  /\ state[c] = "backlog"
  /\ state' = [state EXCEPT ![c] = "open"]
  /\ \E j \in Slots :
       /\ client[j] = Nobody
       /\ \A k \in Slots : client[k] = Nobody => j <= k
       /\ client' = [client EXCEPT ![j] = c]
       /\ maxi' = Highest(j)
  /\ allset' = allset \cup {c}
  /\ pc' = IF rset = {Listen} THEN "select" ELSE "clients"
  /\ rset' = IF rset = {Listen} THEN {} ELSE rset
  /\ UNCHANGED <<i, link, unread, echo, cli>>

(* In the loop nready has no effect: line 107 continues either way.        *)
AtClient == pc = "clients" /\ i <= maxi /\ client[i] \in rset

(* Wrong: sends more of buf than was received. *)
AnswerTooMuch ==
  LET c == client[i]
  IN  /\ AtClient
      /\ unread[c] > 0
      /\ unread' = [unread EXCEPT ![c] = 0]
      /\ echo' = [echo EXCEPT ![c] = @ + unread[c] + 1]
      /\ i' = i + 1
      /\ UNCHANGED <<pc, rset, table, state, link, cli>>

(* Lines 96-101.  What is sent to a client that has ended makes its system *)
(* reset the connection.                                                   *)
Answer ==
  LET c == client[i]
  IN  /\ AtClient
      /\ link[c] \in {"up", "eof"}
      /\ \E n \in 1 .. unread[c] :
           /\ unread' = [unread EXCEPT ![c] = @ - n]
           /\ echo' = IF run[c] = "killed" THEN echo ELSE [echo EXCEPT ![c] = @ + n]
      /\ \/ UNCHANGED link
         \/ run[c] = "killed" /\ link' = [link EXCEPT ![c] = "broken"]
      /\ i' = i + 1
      /\ UNCHANGED <<pc, rset, table, state, cli>>

(* Line 101 raises SIGPIPE.                                                *)
AnswerFails ==
  /\ AtClient
  /\ unread[client[i]] > 0
  /\ link[client[i]] \in {"broken", "reset"}
  /\ pc' = "dead"
  /\ UNCHANGED <<i, rset, table, kernel, cli>>

(* Wrong: without FD_CLR(). *)
RecvEndKeepsSet ==
  LET c == client[i]
  IN  /\ AtClient
      /\ unread[c] = 0
      /\ link[c] \in {"eof", "broken"}
      /\ state' = [state EXCEPT ![c] = "closed"]
      /\ client' = [client EXCEPT ![i] = Nobody]
      /\ i' = i + 1
      /\ UNCHANGED <<pc, rset, maxi, allset, link, unread, echo, cli>>

(* Wrong: without close(). *)
RecvEndLeaks ==
  LET c == client[i]
  IN  /\ AtClient
      /\ unread[c] = 0
      /\ link[c] \in {"eof", "broken"}
      /\ allset' = allset \ {c}
      /\ client' = [client EXCEPT ![i] = Nobody]
      /\ i' = i + 1
      /\ UNCHANGED <<pc, rset, maxi, kernel, cli>>

(* Lines 91-95.                                                            *)
RecvEnd ==
  LET c == client[i]
  IN  /\ AtClient
      /\ unread[c] = 0
      /\ link[c] \in {"eof", "broken"}
      /\ state' = [state EXCEPT ![c] = "closed"]
      /\ allset' = allset \ {c}
      /\ client' = [client EXCEPT ![i] = Nobody]
      /\ i' = i + 1
      /\ UNCHANGED <<pc, rset, maxi, link, unread, echo, cli>>

(* recv() returns -1, and modify() takes it for a length: it runs out of   *)
(* the stack (lines 16-22 and 100).                                        *)
RecvFails ==
  /\ AtClient
  /\ unread[client[i]] = 0
  /\ link[client[i]] = "reset"
  /\ pc' = "dead"
  /\ UNCHANGED <<i, rset, table, kernel, cli>>

NextClient ==
  /\ pc = "clients"
  /\ i <= maxi
  /\ client[i] \notin rset
  /\ i' = i + 1
  /\ UNCHANGED <<pc, rset, table, kernel, cli>>

ClientsEnd ==
  /\ pc = "clients"
  /\ i > maxi
  /\ pc' = "select"
  /\ i' = 0 /\ rset' = {}   \* set again before they are read
  /\ UNCHANGED <<table, kernel, cli>>

ServerStep ==
  \/ Select \/ (\E c \in Clients : Accept(c))
  \/ Answer \/ AnswerFails \/ RecvEnd \/ RecvFails \/ NextClient \/ ClientsEnd

----------------------------------------------------------------------------
(* The clients.  A turn of the loop in str_cli() that finds both           *)
(* descriptors ready is a Receive followed by an Input.                    *)

Connect(c) ==
  /\ run[c] = "idle"
  /\ pc # "dead"
  /\ run' = [run EXCEPT ![c] = "running"]
  /\ state' = [state EXCEPT ![c] = "backlog"]
  /\ UNCHANGED <<pc, i, rset, table, link, unread, echo, stdineof, typed, got>>

Input(c) ==
  /\ run[c] = "running"
  /\ ~stdineof[c]
  /\ typed[c] < Lines[c]
  /\ typed' = [typed EXCEPT ![c] = @ + 1]
  /\ unread' = [unread EXCEPT ![c] = @ + 1]
  /\ UNCHANGED <<pc, i, rset, table, state, link, echo, run, stdineof, got>>

(* send() to a server that has ended may raise SIGPIPE.                    *)
InputFails(c) ==
  /\ run[c] = "running"
  /\ ~stdineof[c]
  /\ typed[c] < Lines[c]
  /\ pc = "dead"
  /\ run' = [run EXCEPT ![c] = "failed"]
  /\ UNCHANGED <<pc, i, rset, table, kernel, stdineof, typed, got>>

(* Wrong: returns at the end of the input. *)
InputEndReturns(c) ==
  /\ run[c] = "running"
  /\ ~stdineof[c]
  /\ stdineof' = [stdineof EXCEPT ![c] = TRUE]
  /\ link' = [link EXCEPT ![c] = "eof"]
  /\ run' = [run EXCEPT ![c] = "done"]
  /\ UNCHANGED <<pc, i, rset, table, state, unread, echo, typed, got>>

(* Wrong: closes the connection and not its half. *)
InputEndCloses(c) ==
  /\ run[c] = "running"
  /\ ~stdineof[c]
  /\ stdineof' = [stdineof EXCEPT ![c] = TRUE]
  /\ link' = [link EXCEPT ![c] = "broken"]
  /\ UNCHANGED <<pc, i, rset, table, state, unread, echo, run, typed, got>>

(* tcpcli01.c:70-75.                                                       *)
InputEnd(c) ==
  /\ run[c] = "running"
  /\ ~stdineof[c]
  /\ stdineof' = [stdineof EXCEPT ![c] = TRUE]
  /\ link' = [link EXCEPT ![c] = "eof"]
  /\ UNCHANGED <<pc, i, rset, table, state, unread, echo, run, typed, got>>

Receive(c) ==
  /\ run[c] = "running"
  /\ \E n \in 1 .. echo[c] :
       /\ echo' = [echo EXCEPT ![c] = @ - n]
       /\ got' = [got EXCEPT ![c] = @ + n]
  /\ UNCHANGED <<pc, i, rset, table, state, link, unread, run, stdineof, typed>>

(* tcpcli01.c:55-62.  A reset makes recv() return -1 and then 0, which     *)
(* only delays this.                                                       *)
ReceiveEnd(c) ==
  /\ run[c] = "running"
  /\ echo[c] = 0
  /\ (state[c] = "closed" \/ pc = "dead")
  /\ run' = [run EXCEPT ![c] = IF stdineof[c] THEN "done" ELSE "failed"]
  /\ UNCHANGED <<pc, i, rset, table, kernel, stdineof, typed, got>>

(* The user stops the client.  Its system resets the connection if it has  *)
(* not read everything, and closes it otherwise.                           *)
Kill(c) ==
  /\ run[c] = "running"
  /\ run' = [run EXCEPT ![c] = "killed"]
  /\ link' = [link EXCEPT ![c] =
       IF echo[c] = 0 THEN "eof" ELSE IF stdineof[c] THEN "broken" ELSE "reset"]
  /\ UNCHANGED <<pc, i, rset, table, state, unread, echo, stdineof, typed, got>>

ClientStep ==
  \E c \in Clients : \/ Connect(c) \/ Input(c) \/ InputFails(c) \/ InputEnd(c)
                     \/ Receive(c) \/ ReceiveEnd(c) \/ Kill(c)

(* The server has ended, or waits in select().                             *)
Rest ==
  /\ \/ pc = "dead"
     \/ pc = "select" /\ Ready = {}
  /\ UNCHANGED vars

Next == ServerStep \/ ClientStep \/ Rest
Spec == Init /\ [][Next]_vars

(* The server runs, and a client reads what it is sent.  Nobody has to     *)
(* type, to end or to be stopped.                                          *)
FairSpec ==
  Spec /\ WF_vars(ServerStep) /\ \A c \in Clients : WF_vars(Receive(c) \/ ReceiveEnd(c))

----------------------------------------------------------------------------
(* Properties.                                                             *)

Running == pc # "dead"

(* client[], allset and the connections agree: an open connection has one  *)
(* entry, which the loop reaches, and select() waits for it (lines 65-81   *)
(* and 92-95).                                                             *)
TableSound ==
  /\ allset = {Listen} \cup {c \in Clients : state[c] = "open"}
  /\ \A c \in Clients : state[c] = "open" => \E j \in 0 .. maxi : client[j] = c
  /\ \A j, k \in Slots : client[j] = client[k] /\ client[j] # Nobody => j = k
  /\ \A j \in Slots : client[j] # Nobody => state[client[j]] = "open"

(* tcpcli01.c:36 says that the client handles the end of its input         *)
(* correctly: when it ends normally it has printed the answer to all it    *)
(* sent, unless the server has died; and "server terminated prematurely"   *)
(* is true when it is said (tcpcli01.c:56-61).                             *)
CompleteEcho ==
  /\ Running => \A c \in Clients : run[c] = "done" => got[c] = typed[c] /\ state[c] = "closed"
  /\ (\E c \in Clients : run[c] = "failed") => pc = "dead"

(* The server dies only of a client that was stopped before it had read    *)
(* its answers (lines 91-101), and never of one that ended by itself.      *)
DiesOfKilled ==
  pc = "dead" => \E c \in Clients : run[c] = "killed" /\ got[c] < typed[c]

(* The invariant behind them.  What a client has sent waits for the server *)
(* or for the client, or has been printed; only a client that was stopped  *)
(* may lose some of it.                                                    *)
Accounted ==
  \A c \in Clients :
    /\ got[c] + echo[c] + unread[c] <= typed[c]
    /\ run[c] # "killed" => got[c] + echo[c] + unread[c] = typed[c]

(* What the server finds after the data of a client is what the client has *)
(* done, and the connection of one that lives breaks under nobody.         *)
LinksTrue ==
  \A c \in Clients :
    /\ run[c] = "idle" <=> state[c] = "new"
    /\ link[c] # "up" <=> stdineof[c] \/ run[c] = "killed"
    /\ link[c] \in {"broken", "reset"} => run[c] = "killed" /\ got[c] < typed[c]
    /\ state[c] = "closed" => link[c] # "up" /\ unread[c] = 0
    /\ run[c] = "done" => stdineof[c]

EchoInv ==
  TypeOK /\ TableSound /\ Accounted /\ LinksTrue /\ CompleteEcho /\ DiesOfKilled

(* A client whose input has ended ends, however busy the others are.       *)
InputEndsClient ==
  \A c \in Clients : stdineof[c] ~> run[c] # "running"
=============================================================================
