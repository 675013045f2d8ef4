---------------------------- MODULE UdpGreeting ----------------------------
(***************************************************************************)
(* The UDP greeting server and its clients ("Chuong 6/serv.c" and          *)
(* "Chuong 6/cli.c").  A client says hello, is asked a question, answers   *)
(* it and is told goodbye.  Datagrams may be lost, delayed, reordered and  *)
(* duplicated; nobody sends one again, but a new client may come from the  *)
(* address of one that is gone, any number of times.                       *)
(*                                                                         *)
(* Abstractions.  A client process stands for its address.  The server     *)
(* looks at the sender of a datagram and not at its content, so datagrams  *)
(* on their way to it are counted per sender; what it sends is a question  *)
(* or a goodbye.  A datagram that is never delivered is lost.  Clocks tick *)
(* in seconds: age is time(NULL) - last_sent, idle says that a tick passed *)
(* since the server's last turn, and wait is what is left of the client's  *)
(* tv, which Linux's select() counts down and the second call uses as the  *)
(* first has left it (cli.c:83).                                           *)
(***************************************************************************)
EXTENDS Integers, Sequences

CONSTANTS
  Clients,
  MaxClient,   \* MAXCLIENT
  Timeout,     \* TIMEOUT: seconds the server keeps a client
  Patience,    \* seconds a client waits for the server, altogether
  MayCopy,     \* clients of whose datagrams the network may duplicate one
  Regulars,    \* addresses new clients keep coming from
  MaxPending   \* bound: datagrams an address has under way when one comes

NoClient == "none"

ASSUME ClientsAssumption ==
  MayCopy \subseteq Clients /\ Regulars \subseteq Clients /\ NoClient \notin Clients
ASSUME NumbersAssumption == MaxClient \in Nat /\ Timeout \in Nat /\ Patience \in Nat

VARIABLES
  clients,   \* the server's table
  maxi,      \* the highest entry ever used
  age,       \* seconds since last_sent, counted up to Timeout
  idle,      \* the server's select() has waited a second without a datagram
  inbox,     \* senders of the datagrams in the server's socket buffer
  toServer,  \* datagrams on their way, by sender
  toClient,  \* datagrams on their way or in its socket buffer, by kind
  cpc,       \* each client's place in main()
  wait,      \* each client's tv
  heard,     \* what each client has printed after "Server : "
  last,      \* history: what the server told each client last
  expired,   \* history: clients the server has timed out
  repeated   \* history: clients of whose datagrams one was duplicated, or
             \* whose address was used again

table == <<clients, maxi, age>>
server == <<table, idle>>
network == <<inbox, toServer, toClient>>
processes == <<cpc, wait, heard>>
vars == <<server, network, processes, last, expired, repeated>>

Slots == 0 .. (MaxClient - 1)
Kinds == {"question", "goodbye"}
Nothing == [k \in Kinds |-> 0]
ClientPlaces == {"start", "first", "typing", "second", "done", "timeout"}

TypeOK ==
  /\ clients \in [Slots -> Clients \cup {NoClient}]
  /\ maxi \in -1 .. (MaxClient - 1)
  /\ age \in [Slots -> 0 .. Timeout]
  /\ idle \in BOOLEAN
  /\ inbox \in Seq(Clients)
  /\ toServer \in [Clients -> Nat]
  /\ toClient \in [Clients -> [Kinds -> Nat]]
  /\ cpc \in [Clients -> ClientPlaces]
  /\ wait \in [Clients -> 0 .. Patience]
  /\ heard \in [Clients -> Seq(Kinds)]
  /\ last \in [Clients -> {"nothing"} \cup Kinds]
  /\ expired \subseteq Clients
  /\ repeated \subseteq MayCopy \cup Regulars

Init ==
  /\ clients = [i \in Slots |-> NoClient]
  /\ maxi = -1
  /\ age = [i \in Slots |-> 0]
  /\ idle = FALSE
  /\ inbox = <<>>
  /\ toServer = [c \in Clients |-> 0]
  /\ toClient = [c \in Clients |-> Nothing]
  /\ cpc = [c \in Clients |-> "start"]
  /\ wait = [c \in Clients |-> Patience]
  /\ heard = [c \in Clients |-> <<>>]
  /\ last = [c \in Clients |-> "nothing"]
  /\ expired = {}
  /\ repeated = {}

----------------------------------------------------------------------------
(* The network and the clocks.                                             *)

Deliver(c) ==
  /\ toServer[c] > 0
  /\ toServer' = [toServer EXCEPT ![c] = @ - 1]
  /\ inbox' = Append(inbox, c)
  /\ UNCHANGED <<server, toClient, processes, last, expired, repeated>>

Duplicate(c) ==
  /\ c \in MayCopy \ repeated
  /\ repeated' = repeated \cup {c}
  /\ \/ /\ toServer[c] > 0
        /\ toServer' = [toServer EXCEPT ![c] = @ + 1]
        /\ UNCHANGED toClient
     \/ /\ \E k \in Kinds :
             /\ toClient[c][k] > 0
             /\ toClient' = [toClient EXCEPT ![c][k] = @ + 1]
        /\ UNCHANGED toServer
  /\ UNCHANGED <<server, inbox, processes, last, expired>>

Waiting(c) == cpc[c] \in {"first", "second"}

(* Wrong variant: the client waits without a time limit.                   *)
TickWithoutWait ==
  /\ idle' = TRUE
  /\ age' = [i \in Slots |-> IF clients[i] # NoClient /\ age[i] < Timeout
                               THEN age[i] + 1 ELSE age[i]]
  /\ UNCHANGED <<clients, maxi, network, processes, last, expired, repeated>>

Tick ==
  /\ idle' = TRUE
  /\ age' = [i \in Slots |-> IF clients[i] # NoClient /\ age[i] < Timeout
                               THEN age[i] + 1 ELSE age[i]]
  /\ wait' = [c \in Clients |-> IF Waiting(c) /\ wait[c] > 0
                                  THEN wait[c] - 1 ELSE wait[c]]
  /\ UNCHANGED <<clients, maxi, network, cpc, heard, last, expired, repeated>>

----------------------------------------------------------------------------
(* The server: one action is one turn of its loop.                         *)

Used == {i \in Slots : clients[i] # NoClient}

(* Wrong variant: the search for a client ends before maxi.                *)
EntriesBelow(c) == {i \in Slots : i < maxi /\ clients[i] = c}

EntriesOf(c) == {i \in Slots : i <= maxi /\ clients[i] = c}
First(S) == CHOOSE i \in S : \A j \in S : i <= j

(* recvfrom(), lines 86-95, and the answer sent to a client that is there. *)
(* The next select() waits its second from the start (line 80).            *)
Take(c) ==
  /\ inbox # <<>>
  /\ Head(inbox) = c
  /\ inbox' = Tail(inbox)
  /\ idle' = FALSE
  /\ UNCHANGED <<toServer, processes, repeated>>

Tell(c, k) ==
  /\ last' = [last EXCEPT ![c] = k]
  /\ toClient' = IF cpc[c] \in {"done", "timeout"} THEN toClient
                 ELSE [toClient EXCEPT ![c][k] = @ + 1]

(* Wrong variant: the entry is not cleared.                                *)
GoodbyeKeeps(c) ==
  /\ Take(c)
  /\ EntriesOf(c) # {}
  /\ Tell(c, "goodbye")
  /\ UNCHANGED <<table, expired>>

(* A datagram of a client in the table, lines 99-113.                      *)
Goodbye(c) ==
  /\ Take(c)
  /\ EntriesOf(c) # {}
  /\ LET i == First(EntriesOf(c))
     IN  /\ clients' = [clients EXCEPT ![i] = NoClient]
         /\ age' = [age EXCEPT ![i] = 0]
  /\ Tell(c, "goodbye")
  /\ UNCHANGED <<maxi, expired>>

(* Wrong variants: maxi follows the entry just used, or counts entries.    *)
LastUsed(i) == i
CountUsed(i) == IF i >= maxi THEN i + 1 ELSE maxi

(* Line 128.                                                               *)
Top(i) == IF i > maxi THEN i ELSE maxi

(* A datagram of any other client takes the first free entry, lines        *)
(* 115-137, or is refused without a word when there is none.               *)
Greet(c) ==
  /\ Take(c)
  /\ EntriesOf(c) = {}
  /\ Used # Slots
  /\ LET i == First(Slots \ Used)
     IN  /\ clients' = [clients EXCEPT ![i] = c]
         /\ age' = [age EXCEPT ![i] = 0]
         /\ maxi' = Top(i)
  /\ Tell(c, "question")
  /\ UNCHANGED expired

Refuse(c) ==
  /\ Take(c)
  /\ EntriesOf(c) = {}
  /\ Used = Slots
  /\ UNCHANGED <<table, toClient, last, expired>>

(* Lines 138-150: only a second without any datagram gets here.            *)
(* Wrong variant of Stale: the check ends before maxi.                     *)
StaleBelow == {i \in Slots : i < maxi /\ clients[i] # NoClient /\ age[i] >= Timeout}

Stale == {i \in Slots : i <= maxi /\ clients[i] # NoClient /\ age[i] >= Timeout}

Expire ==
  /\ idle
  /\ inbox = <<>>
  /\ idle' = FALSE
  /\ clients' = [i \in Slots |-> IF i \in Stale THEN NoClient ELSE clients[i]]
  /\ age' = [i \in Slots |-> IF i \in Stale THEN 0 ELSE age[i]]
  /\ expired' = expired \cup {clients[i] : i \in Stale}
  /\ UNCHANGED <<maxi, network, processes, last, repeated>>

ServerStep == Expire \/ \E c \in Clients : Goodbye(c) \/ Greet(c) \/ Refuse(c)

----------------------------------------------------------------------------
(* The clients.                                                            *)

SendTo(c, next) ==
  /\ toServer' = [toServer EXCEPT ![c] = @ + 1]
  /\ cpc' = [cpc EXCEPT ![c] = next]
  /\ UNCHANGED <<server, inbox, toClient, wait, heard, last, expired, repeated>>

Hello(c) == cpc[c] = "start" /\ SendTo(c, "first")

(* fgets() returns the user's answer, however late.                        *)
Reply(c) == cpc[c] = "typing" /\ SendTo(c, "second")

(* Any datagram of the server's is taken for the one waited for.           *)
Hear(c) ==
  /\ Waiting(c)
  /\ \E k \in Kinds :
       /\ toClient[c][k] > 0
       /\ heard' = [heard EXCEPT ![c] = Append(@, k)]
       /\ IF cpc[c] = "first"
            THEN /\ cpc' = [cpc EXCEPT ![c] = "typing"]
                 /\ toClient' = [toClient EXCEPT ![c][k] = @ - 1]
            ELSE /\ cpc' = [cpc EXCEPT ![c] = "done"]
                 /\ toClient' = [toClient EXCEPT ![c] = Nothing]
  /\ UNCHANGED <<server, inbox, toServer, wait, last, expired, repeated>>

(* select() returns 0: the client exits, and what is sent to it is lost.   *)
GiveUp(c) ==
  /\ Waiting(c)
  /\ wait[c] = 0
  /\ cpc' = [cpc EXCEPT ![c] = "timeout"]
  /\ toClient' = [toClient EXCEPT ![c] = Nothing]
  /\ UNCHANGED <<server, inbox, toServer, wait, heard, last, expired, repeated>>

(* A new client at the address of one that has exited.                     *)
Pending(c) == toServer[c] + Len(SelectSeq(inbox, LAMBDA d : d = c))

Again(c) ==
  /\ c \in Regulars
  /\ cpc[c] \in {"done", "timeout"}
  /\ Pending(c) < MaxPending
  /\ cpc' = [cpc EXCEPT ![c] = "start"]
  /\ wait' = [wait EXCEPT ![c] = Patience]
  /\ heard' = [heard EXCEPT ![c] = <<>>]
  /\ repeated' = repeated \cup {c}
  /\ UNCHANGED <<server, network, last, expired>>

----------------------------------------------------------------------------

Next ==
  \/ ServerStep
  \/ Tick
  \/ \E c \in Clients :
       \/ Hello(c) \/ Reply(c) \/ Hear(c) \/ GiveUp(c) \/ Again(c)
       \/ Deliver(c) \/ Duplicate(c)

Spec == Init /\ [][Next]_vars

(* The processes run and time passes; the network owes nothing, and a user *)
(* may never type.                                                         *)
Fairness ==
  /\ WF_vars(ServerStep)
  /\ WF_vars(Tick)
  /\ \A c \in Clients : WF_vars(Hear(c) \/ GiveUp(c))

FairSpec == Spec /\ Fairness

----------------------------------------------------------------------------
(* Properties.                                                             *)

(* The search for a client stops at maxi (line 99) while the search for a  *)
(* free entry does not (line 116), and entries are freed and taken again   *)
(* in any order: no entry in use is out of reach of the first search, and  *)
(* no client has two.                                                      *)
WithinReach == \A i \in Slots : clients[i] # NoClient => i <= maxi
OneEntryEach ==
  \A i, j \in Slots : clients[i] # NoClient /\ clients[i] = clients[j] => i = j
TableSound == WithinReach /\ OneEntryEach

(* The table is the set of the clients greeted and not yet told goodbye.   *)
Sessions ==
  INSTANCE UdpSessions WITH sessions <- {clients[i] : i \in Slots} \ {NoClient}
KeepsSessions == Sessions!Spec

(* The conversation of the header comment (lines 22-27), when nothing went *)
(* wrong on the way: a client that was not timed out by the server, of     *)
(* whose datagrams none was duplicated and whose address no other client   *)
(* used before is told a question, then goodbye.                           *)
Conversation == <<"question", "goodbye">>
PromptGoodbye ==
  \A c \in Clients :
    cpc[c] = "done" /\ c \notin expired \cup repeated => heard[c] = Conversation

InTable(c) == \E i \in Slots : clients[i] = c

(* Every second a datagram comes before select() has waited that second:   *)
(* lines 80-83 start it anew each time, and line 138 is never reached.     *)
Crowded == []<><<\E c \in Clients : Take(c)>>_vars /\ <>[][~Expire]_vars

(* No client stays in the table for ever, even if every datagram of its    *)
(* own is lost (serv.c:138-150), unless datagrams never stop coming often  *)
(* enough to put the check off for ever.                                   *)
TableDrains == (\A c \in Clients : InTable(c) ~> ~InTable(c)) \/ Crowded

(* No client waits for ever, whatever becomes of the datagrams (cli.c:52-  *)
(* 55 and 83-86).                                                          *)
WaitsEnd == \A c \in Clients : Waiting(c) ~> ~Waiting(c)

(* The header comment (serv.c:22-27): a client that responds gets the      *)
(* message "Goodbye, see you again!".  This does not hold for a response   *)
(* that comes after the server's time limit (line 143).                    *)
RespondersHearGoodbye == \A c \in Clients : cpc[c] = "done" => heard[c] = Conversation

----------------------------------------------------------------------------
(* The inductive invariant behind PromptGoodbye.                           *)

Absent(c) == \A i \in 1 .. Len(inbox) : inbox[i] # c
Once(c) == \E i \in 1 .. Len(inbox) : \A j \in 1 .. Len(inbox) : inbox[j] = c <=> j = i

(* What is under way between the server and a client: n datagrams of the   *)
(* client's, and what it has been told and not heard.                      *)
Between(c, n, present, questions, goodbyes) ==
  /\ n = 0 => toServer[c] = 0 /\ Absent(c)
  /\ n = 1 => \/ toServer[c] = 1 /\ Absent(c)
              \/ toServer[c] = 0 /\ Once(c)
  /\ InTable(c) <=> present
  /\ toClient[c]["question"] = questions /\ toClient[c]["goodbye"] = goodbyes

(* In a conversation without faults the two take turns (a hello may be     *)
(* refused).                                                               *)
Turn(c) ==
  /\ cpc[c] \in {"start", "first"} => heard[c] = <<>>
  /\ cpc[c] \in {"typing", "second"} => heard[c] = <<"question">>
  /\ cpc[c] = "start" => Between(c, 0, FALSE, 0, 0)
  /\ cpc[c] = "first" =>
       \/ Between(c, 1, FALSE, 0, 0)
       \/ Between(c, 0, TRUE, 1, 0)
       \/ Between(c, 0, FALSE, 0, 0)
  /\ cpc[c] = "typing" => Between(c, 0, TRUE, 0, 0)
  /\ cpc[c] = "second" => Between(c, 1, TRUE, 0, 0) \/ Between(c, 0, FALSE, 0, 1)
  /\ cpc[c] = "done" => heard[c] = Conversation
TakeTurns == \A c \in Clients \ (expired \cup repeated) : Turn(c)
=============================================================================
