----------------------------- MODULE EchoProofs -----------------------------
(***************************************************************************)
(* Theorems about Echo, for any finite set of clients, any size of the     *)
(* table that is large enough for them, and any number of lines.           *)
(***************************************************************************)
EXTENDS Echo, TLAPS

LEMMA InitInv == Init => EchoInv
<1> SUFFICES ASSUME Init PROVE EchoInv
  OBVIOUS
<1>1. TypeOK
  BY SizeAssumption DEF Init, TypeOK
<1>2. TableSound
  BY SizeAssumption DEF Init, TableSound
<1>3. Accounted /\ LinksTrue
  BY DEF Init, Accounted, LinksTrue
<1>4. CompleteEcho /\ DiesOfKilled
  BY DEF Init, CompleteEcho, DiesOfKilled, Running
<1>5. QED BY <1>1, <1>2, <1>3, <1>4 DEF EchoInv

LEMMA StutterInv == EchoInv /\ UNCHANGED vars => EchoInv'
BY DEF EchoInv, TypeOK, TableSound, Accounted, LinksTrue, CompleteEcho, DiesOfKilled, Running,
       vars, table, kernel, cli

----------------------------------------------------------------------------
(* The types.                                                              *)

(* Where the loop answers or closes, it is at an entry in use: what is in  *)
(* rset and in client[] is a connection, and an open one.                  *)
LEMMA EntryFacts ==
  ASSUME EchoInv, AtClient
  PROVE  /\ i \in Slots /\ i + 1 \in 0 .. Size
         /\ client[i] \in Clients /\ state[client[i]] = "open"
<1>1. TypeOK /\ TableSound
  BY DEF EchoInv
<1>2. i \in Slots /\ i + 1 \in 0 .. Size
  BY <1>1, SizeAssumption DEF AtClient, TypeOK, Slots
<1>3. client[i] # Nobody
  BY <1>1, SizeAssumption DEF AtClient, TypeOK, Nobody, Listen
<1>4. QED BY <1>1, <1>2, <1>3 DEF TypeOK, TableSound

(* What each client's counts say of each other.                            *)
LEMMA CountFacts ==
  ASSUME EchoInv, NEW c \in Clients
  PROVE  /\ Lines[c] \in Nat
         /\ unread[c] \in Nat /\ echo[c] \in Nat /\ typed[c] \in Nat /\ got[c] \in Nat
         /\ typed[c] <= Lines[c]
         /\ got[c] + echo[c] + unread[c] <= typed[c]
<1>1. TypeOK /\ Accounted
  BY DEF EchoInv
<1>2. QED BY <1>1, SizeAssumption DEF TypeOK, Accounted

(* The server moves what it has read towards the client and does nothing   *)
(* else to what has been sent.                                             *)
LEMMA AnswerCounts ==
  ASSUME EchoInv, Answer
  PROVE  /\ unread' \in [Clients -> Nat] /\ echo' \in [Clients -> Nat]
         /\ \A c \in Clients :
              /\ unread'[c] <= unread[c]
              /\ echo'[c] + unread'[c] <= echo[c] + unread[c]
              /\ run[c] # "killed" => echo'[c] + unread'[c] = echo[c] + unread[c]
         /\ link' \in [Clients -> {"up", "eof", "broken", "reset"}]
         /\ \A c \in Clients :
              \/ link'[c] = link[c]
              \/ /\ run[c] = "killed" /\ unread[c] > 0
                 /\ link[c] \in {"up", "eof"} /\ link'[c] = "broken"
<1>1. TypeOK /\ client[i] \in Clients
  BY EntryFacts DEF EchoInv, Answer
<1> DEFINE e == client[i]
<1>2. PICK n \in 1 .. unread[e] :
        /\ unread' = [unread EXCEPT ![e] = @ - n]
        /\ echo' = IF run[e] = "killed" THEN echo ELSE [echo EXCEPT ![e] = @ + n]
  BY DEF Answer
<1>3. unread[e] \in Nat /\ echo[e] \in Nat /\ n \in Nat /\ 0 < n /\ n <= unread[e]
  BY <1>1, <1>2 DEF TypeOK
<1>4. unread' \in [Clients -> Nat] /\ echo' \in [Clients -> Nat]
  BY <1>1, <1>2, <1>3 DEF TypeOK
<1>5. \A c \in Clients : unread[c] \in Nat /\ echo[c] \in Nat
  BY <1>1 DEF TypeOK
<1>6. \A c \in Clients \ {e} : unread'[c] = unread[c] /\ echo'[c] = echo[c]
  BY <1>1, <1>2 DEF TypeOK
<1>7. unread'[e] = unread[e] - n /\ echo'[e] = IF run[e] = "killed" THEN echo[e] ELSE echo[e] + n
  BY <1>1, <1>2 DEF TypeOK
<1>8. \A c \in Clients :
        /\ unread'[c] <= unread[c]
        /\ echo'[c] + unread'[c] <= echo[c] + unread[c]
        /\ run[c] # "killed" => echo'[c] + unread'[c] = echo[c] + unread[c]
  BY <1>3, <1>5, <1>6, <1>7
<1>9. CASE UNCHANGED link
  BY <1>1, <1>4, <1>8, <1>9 DEF TypeOK
<1>10. CASE run[e] = "killed" /\ link' = [link EXCEPT ![e] = "broken"]
  <2>1. link[e] \in {"up", "eof"} /\ unread[e] > 0
    BY <1>3 DEF Answer
  <2>2. QED BY <1>1, <1>4, <1>8, <1>10, <2>1 DEF TypeOK
<1>11. QED BY <1>9, <1>10 DEF Answer

LEMMA ReceiveCounts ==
  ASSUME EchoInv, NEW c \in Clients, Receive(c)
  PROVE  /\ echo' \in [Clients -> Nat] /\ got' \in [Clients -> Nat]
         /\ \A d \in Clients : got'[d] + echo'[d] = got[d] + echo[d] /\ echo'[d] <= echo[d]
         /\ \A d \in Clients : run[d] # "running" => got'[d] = got[d]
<1>1. TypeOK
  BY DEF EchoInv
<1>2. PICK n \in 1 .. echo[c] :
        /\ echo' = [echo EXCEPT ![c] = @ - n]
        /\ got' = [got EXCEPT ![c] = @ + n]
  BY DEF Receive
<1>3. \A d \in Clients : echo[d] \in Nat /\ got[d] \in Nat
  BY <1>1 DEF TypeOK
<1>4. n \in Nat /\ n <= echo[c]
  BY <1>2, <1>3
<1>5. \A d \in Clients \ {c} : echo'[d] = echo[d] /\ got'[d] = got[d]
  BY <1>1, <1>2 DEF TypeOK
<1>6. echo'[c] = echo[c] - n /\ got'[c] = got[c] + n
  BY <1>1, <1>2 DEF TypeOK
<1>7. echo' \in [Clients -> Nat] /\ got' \in [Clients -> Nat]
  BY <1>1, <1>2, <1>3, <1>4 DEF TypeOK
<1>8. run[c] = "running"
  BY DEF Receive
<1>9. QED BY <1>3, <1>4, <1>5, <1>6, <1>7, <1>8

LEMMA InputCounts ==
  ASSUME EchoInv, NEW c \in Clients, Input(c)
  PROVE  /\ unread' \in [Clients -> Nat] /\ typed' \in [Clients -> Nat]
         /\ typed'[c] = typed[c] + 1 /\ unread'[c] = unread[c] + 1
         /\ \A d \in Clients \ {c} : typed'[d] = typed[d] /\ unread'[d] = unread[d]
         /\ run[c] = "running"
BY DEF EchoInv, TypeOK, Input

(* The counts go with Accounted: neither is preserved without the other.   *)
LEMMA StepCounts ==
  ASSUME EchoInv, Next
  PROVE  /\ Accounted'
         /\ unread' \in [Clients -> Nat] /\ echo' \in [Clients -> Nat]
         /\ typed' \in [Clients -> Nat] /\ got' \in [Clients -> Nat]
         /\ \A c \in Clients : {unread'[c], echo'[c], typed'[c], got'[c]} \subseteq 0 .. Lines[c]
<1> DEFINE Natural == /\ unread' \in [Clients -> Nat] /\ echo' \in [Clients -> Nat]
                      /\ typed' \in [Clients -> Nat] /\ got' \in [Clients -> Nat]
           Typed == \A c \in Clients : typed'[c] <= Lines[c]
<1>1. SUFFICES Accounted' /\ Natural /\ Typed
  <2>1. ASSUME Accounted', Natural, Typed, NEW c \in Clients
        PROVE  {unread'[c], echo'[c], typed'[c], got'[c]} \subseteq 0 .. Lines[c]
    <3>1. /\ unread'[c] \in Nat /\ echo'[c] \in Nat /\ typed'[c] \in Nat /\ got'[c] \in Nat
          /\ got'[c] + echo'[c] + unread'[c] <= typed'[c] /\ typed'[c] <= Lines[c]
          /\ Lines[c] \in Nat
      BY <2>1, SizeAssumption DEF Accounted
    <3>2. QED BY <3>1
  <2>2. QED BY <2>1
<1>2. TypeOK /\ Accounted
  BY DEF EchoInv
<1>3. \A c \in Clients : /\ typed[c] <= Lines[c] /\ Lines[c] \in Nat
                         /\ unread[c] \in Nat /\ echo[c] \in Nat
                         /\ typed[c] \in Nat /\ got[c] \in Nat
  BY CountFacts
<1>4. CASE Answer
  <2>1. UNCHANGED <<run, typed, got>>
    BY <1>4 DEF Answer, cli
  <2>2. Natural /\ Typed
    BY <1>2, <1>3, <1>4, <2>1, AnswerCounts DEF TypeOK
  <2>3. \A c \in Clients : unread'[c] \in Nat /\ echo'[c] \in Nat
    BY <2>2
  <2>4. ASSUME NEW c \in Clients
        PROVE  /\ got'[c] + echo'[c] + unread'[c] <= typed'[c]
               /\ run'[c] # "killed" => got'[c] + echo'[c] + unread'[c] = typed'[c]
    <3>1. /\ echo'[c] + unread'[c] <= echo[c] + unread[c]
          /\ run[c] # "killed" => echo'[c] + unread'[c] = echo[c] + unread[c]
      BY <1>4, AnswerCounts
    <3>2. /\ got[c] + echo[c] + unread[c] <= typed[c]
          /\ run[c] # "killed" => got[c] + echo[c] + unread[c] = typed[c]
      BY <1>2 DEF Accounted
    <3>3. QED BY <1>3, <2>1, <2>3, <3>1, <3>2
  <2>5. QED BY <2>2, <2>4 DEF Accounted
<1>5. ASSUME NEW c \in Clients, Receive(c)
      PROVE  Accounted' /\ Natural /\ Typed
  <2>1. UNCHANGED <<run, typed, unread>>
    BY <1>5 DEF Receive
  <2>2. Natural /\ Typed
    BY <1>2, <1>3, <1>5, <2>1, ReceiveCounts DEF TypeOK
  <2>3. \A d \in Clients : got'[d] \in Nat /\ echo'[d] \in Nat
    BY <2>2
  <2>4. Accounted'
    BY <1>2, <1>3, <1>5, <2>1, <2>3, ReceiveCounts DEF Accounted
  <2>5. QED BY <2>2, <2>4
<1>6. ASSUME NEW c \in Clients, Input(c)
      PROVE  Accounted' /\ Natural /\ Typed
  <2>1. UNCHANGED <<run, echo, got>> /\ typed[c] < Lines[c]
    BY <1>6 DEF Input
  <2>2. Natural /\ Typed
    BY <1>2, <1>3, <1>6, <2>1, InputCounts DEF TypeOK
  <2>3. Accounted'
    BY <1>2, <1>3, <1>6, <2>1, InputCounts DEF Accounted
  <2>4. QED BY <2>2, <2>3
<1>7. ASSUME UNCHANGED <<unread, echo, typed, got>>,
             \A c \in Clients : run[c] = "killed" => run'[c] = "killed"
      PROVE  Accounted' /\ Natural /\ Typed
  <2>1. Natural /\ Typed
    BY <1>2, <1>3, <1>7 DEF TypeOK
  <2>2. Accounted'
    BY <1>2, <1>7 DEF Accounted
  <2>3. QED BY <2>1, <2>2
<1>8. CASE \/ Select \/ (\E c \in Clients : Accept(c)) \/ AnswerFails \/ RecvEnd \/ RecvFails
           \/ NextClient \/ ClientsEnd \/ Rest
  <2>1. UNCHANGED <<unread, echo, typed, got, run>>
    BY <1>8 DEF Select, Accept, AnswerFails, RecvEnd, RecvFails, NextClient, ClientsEnd, Rest,
                vars, kernel, cli
  <2>2. QED BY <1>7, <2>1
<1>9. ASSUME NEW c \in Clients,
             Connect(c) \/ InputFails(c) \/ InputEnd(c) \/ ReceiveEnd(c) \/ Kill(c)
      PROVE  Accounted' /\ Natural /\ Typed
  <2>1. UNCHANGED <<unread, echo, typed, got>>
    BY <1>9 DEF Connect, InputFails, InputEnd, ReceiveEnd, Kill, kernel
  <2>2. \A d \in Clients : run[d] = "killed" => run'[d] = "killed"
    BY <1>2, <1>9 DEF Connect, InputFails, InputEnd, ReceiveEnd, Kill, TypeOK
  <2>3. QED BY <1>7, <2>1, <2>2
<1>10. QED BY <1>4, <1>5, <1>6, <1>8, <1>9 DEF Next, ServerStep, ClientStep

LEMMA StepType ==
  ASSUME EchoInv, Next
  PROVE  TypeOK'
<1> DEFINE Rest1 == /\ pc' \in {"select", "accept", "clients", "dead"}
                    /\ client' \in [Slots -> Clients \cup {Nobody}]
                    /\ maxi' \in Slots \cup {-1}
                    /\ i' \in 0 .. Size
                    /\ allset' \subseteq Clients \cup {Listen}
                    /\ rset' \subseteq Clients \cup {Listen}
                    /\ state' \in [Clients -> {"new", "backlog", "open", "closed"}]
           Rest2 == /\ link' \in [Clients -> {"up", "eof", "broken", "reset"}]
                    /\ run' \in [Clients -> {"idle", "running", "done", "failed", "killed"}]
                    /\ stdineof' \in [Clients -> BOOLEAN]
<1>1. SUFFICES Rest1 /\ Rest2
  BY StepCounts DEF TypeOK
<1>2. TypeOK
  BY DEF EchoInv
<1>3. CASE Select
  BY <1>2, <1>3 DEF Select, Ready, TypeOK, table, kernel, cli
<1>4. ASSUME NEW c \in Clients, Accept(c)
      PROVE  Rest1 /\ Rest2
  <2>1. PICK j \in Slots : client' = [client EXCEPT ![j] = c] /\ maxi' = Highest(j)
    BY <1>4 DEF Accept
  <2>2. QED BY <1>2, <1>4, <2>1 DEF Accept, Highest, TypeOK, cli
<1>5. CASE Answer
  <2>1. UNCHANGED <<pc, rset, table, state, cli>> /\ i' = i + 1
    BY <1>5 DEF Answer
  <2>2. i + 1 \in 0 .. Size
    BY <1>5, EntryFacts DEF Answer
  <2>3. QED BY <1>2, <1>5, <2>1, <2>2, AnswerCounts DEF TypeOK, table, cli
<1>6. CASE AnswerFails \/ RecvFails
  BY <1>2, <1>6 DEF AnswerFails, RecvFails, TypeOK, table, kernel, cli
<1>7. CASE RecvEnd
  <2>1. i + 1 \in 0 .. Size
    BY <1>7, EntryFacts DEF RecvEnd
  <2>2. QED BY <1>2, <1>7, <2>1 DEF RecvEnd, TypeOK, cli
<1>8. CASE NextClient
  <2>1. i + 1 \in 0 .. Size
    BY <1>2, <1>8, SizeAssumption DEF NextClient, TypeOK, Slots
  <2>2. QED BY <1>2, <1>8, <2>1 DEF NextClient, TypeOK, table, kernel, cli
<1>9. CASE ClientsEnd
  BY <1>2, <1>9, SizeAssumption DEF ClientsEnd, TypeOK, table, kernel, cli
<1>10. ASSUME NEW c \in Clients,
              \/ Connect(c) \/ Input(c) \/ InputFails(c) \/ InputEnd(c)
              \/ Receive(c) \/ ReceiveEnd(c) \/ Kill(c)
       PROVE  Rest1 /\ Rest2
  BY <1>2, <1>10 DEF Connect, Input, InputFails, InputEnd, Receive, ReceiveEnd, Kill,
       TypeOK, table, kernel
<1>11. CASE Rest
  BY <1>2, <1>11 DEF Rest, TypeOK, vars, table, kernel, cli
<1>12. QED
  BY <1>3, <1>4, <1>5, <1>6, <1>7, <1>8, <1>9, <1>10, <1>11 DEF Next, ServerStep, ClientStep

----------------------------------------------------------------------------
(* The table.                                                              *)

LEMMA AcceptTable ==
  ASSUME EchoInv, NEW c \in Clients, Accept(c)
  PROVE  TableSound'
<1>1. TypeOK /\ TableSound /\ state[c] = "backlog"
  BY DEF EchoInv, Accept
<1>2. PICK j \in Slots : /\ client[j] = Nobody
                         /\ client' = [client EXCEPT ![j] = c]
                         /\ maxi' = Highest(j)
  BY DEF Accept
<1>3. /\ client'[j] = c /\ \A k \in Slots \ {j} : client'[k] = client[k]
      /\ state'[c] = "open" /\ \A d \in Clients \ {c} : state'[d] = state[d]
      /\ allset' = allset \cup {c}
  BY <1>1, <1>2 DEF Accept, TypeOK
<1>4. \A k \in Slots : client[k] # c
  BY <1>1, SizeAssumption DEF TableSound
<1>5. allset' = {Listen} \cup {d \in Clients : state'[d] = "open"}
  BY <1>1, <1>3 DEF TableSound
<1>6. maxi \in Int /\ maxi' \in Int /\ maxi < Size /\ maxi <= maxi' /\ j <= maxi'
  BY <1>1, <1>2, SizeAssumption DEF Highest, TypeOK, Slots
<1>7. ASSUME NEW d \in Clients, state'[d] = "open"
      PROVE  \E k \in 0 .. maxi' : client'[k] = d
  <2>1. CASE d = c
    BY <1>3, <1>6, <2>1 DEF Slots
  <2>2. CASE d # c
    <3>1. PICK k \in 0 .. maxi : client[k] = d
      BY <1>1, <1>3, <1>7, <2>2 DEF TableSound
    <3>2. k # j /\ k \in Slots /\ k \in 0 .. maxi'
      BY <1>2, <1>6, <3>1, SizeAssumption DEF Slots
    <3>3. QED BY <1>3, <3>1, <3>2
  <2>3. QED BY <2>1, <2>2
<1>8. \A k, m \in Slots : client'[k] = client'[m] /\ client'[k] # Nobody => k = m
  BY <1>1, <1>3, <1>4 DEF TableSound
<1>9. \A k \in Slots : client'[k] # Nobody => state'[client'[k]] = "open"
  BY <1>1, <1>3, <1>4 DEF TableSound, TypeOK
<1>10. QED BY <1>5, <1>7, <1>8, <1>9 DEF TableSound

LEMMA RecvEndTable ==
  ASSUME EchoInv, RecvEnd
  PROVE  TableSound'
<1> DEFINE c == client[i]
<1>1. TypeOK /\ TableSound
  BY DEF EchoInv
<1>2. i \in Slots /\ c \in Clients /\ state[c] = "open"
  BY EntryFacts DEF RecvEnd
<1>3. /\ client'[i] = Nobody /\ \A k \in Slots \ {i} : client'[k] = client[k]
      /\ state'[c] = "closed" /\ \A d \in Clients \ {c} : state'[d] = state[d]
      /\ allset' = allset \ {c} /\ maxi' = maxi
  BY <1>1, <1>2 DEF RecvEnd, TypeOK
<1>4. allset' = {Listen} \cup {d \in Clients : state'[d] = "open"}
  BY <1>1, <1>2, <1>3, SizeAssumption DEF TableSound
<1>5. ASSUME NEW d \in Clients, state'[d] = "open"
      PROVE  \E k \in 0 .. maxi' : client'[k] = d
  <2>1. d # c /\ state[d] = "open"
    BY <1>3, <1>5
  <2>2. PICK k \in 0 .. maxi : client[k] = d
    BY <1>1, <2>1 DEF TableSound
  <2>3. k # i /\ k \in Slots
    BY <1>1, <2>1, <2>2, SizeAssumption DEF TypeOK, Slots
  <2>4. QED BY <1>3, <2>2, <2>3
<1>6. \A k, m \in Slots : client'[k] = client'[m] /\ client'[k] # Nobody => k = m
  BY <1>1, <1>3 DEF TableSound
<1>7. ASSUME NEW k \in Slots, client'[k] # Nobody
      PROVE  state'[client'[k]] = "open"
  <2>1. k # i /\ client'[k] = client[k] /\ client[k] # c
    BY <1>1, <1>2, <1>3, <1>7, SizeAssumption DEF TableSound
  <2>2. QED BY <1>1, <1>3, <1>7, <2>1 DEF TableSound, TypeOK
<1>8. QED BY <1>4, <1>5, <1>6, <1>7 DEF TableSound

LEMMA StepTable ==
  ASSUME EchoInv, Next
  PROVE  TableSound'
<1>1. TypeOK /\ TableSound /\ LinksTrue
  BY DEF EchoInv
<1>2. CASE \/ Select \/ Answer \/ AnswerFails \/ RecvFails \/ NextClient \/ ClientsEnd \/ Rest
  <2>1. UNCHANGED <<table, state>>
    BY <1>2 DEF Select, Answer, AnswerFails, RecvFails, NextClient, ClientsEnd, Rest, vars, kernel
  <2>2. QED BY <1>1, <2>1 DEF TableSound, table
<1>3. ASSUME NEW c \in Clients, Connect(c)
      PROVE  TableSound'
  <2>1. state[c] = "new" /\ UNCHANGED table
    BY <1>1, <1>3 DEF Connect, LinksTrue
  <2>2. state'[c] = "backlog" /\ \A d \in Clients \ {c} : state'[d] = state[d]
    BY <1>1, <1>3 DEF Connect, TypeOK
  <2>3. \A d \in Clients : state'[d] = "open" <=> state[d] = "open"
    BY <2>1, <2>2
  <2>4. QED BY <1>1, <2>1, <2>3, SizeAssumption DEF TableSound, TypeOK, table
<1>4. ASSUME NEW c \in Clients, \/ Input(c) \/ InputFails(c) \/ InputEnd(c)
                                \/ Receive(c) \/ ReceiveEnd(c) \/ Kill(c)
      PROVE  TableSound'
  <2>1. UNCHANGED <<table, state>>
    BY <1>4 DEF Input, InputFails, InputEnd, Receive, ReceiveEnd, Kill, kernel
  <2>2. QED BY <1>1, <2>1 DEF TableSound, table
<1>5. QED
  BY <1>2, <1>3, <1>4, AcceptTable, RecvEndTable DEF Next, ServerStep, ClientStep

----------------------------------------------------------------------------
(* The connections and what ends them.                                     *)

LEMMA StepLinks ==
  ASSUME EchoInv, Next
  PROVE  LinksTrue'
<1>1. TypeOK /\ LinksTrue /\ TableSound
  BY DEF EchoInv
<1>2. CASE \/ Select \/ AnswerFails \/ RecvFails \/ NextClient \/ ClientsEnd \/ Rest
  <2>1. UNCHANGED <<state, link, unread, cli>>
    BY <1>2 DEF Select, AnswerFails, RecvFails, NextClient, ClientsEnd, Rest, vars, kernel
  <2>2. QED BY <1>1, <2>1 DEF LinksTrue, cli
<1>3. ASSUME NEW c \in Clients, Accept(c)
      PROVE  LinksTrue'
  BY <1>1, <1>3 DEF Accept, LinksTrue, TypeOK, cli
<1>4. CASE Answer
  <2>1. UNCHANGED <<state, run, stdineof, typed, got>>
    BY <1>4 DEF Answer, cli
  <2>2. ASSUME NEW c \in Clients
        PROVE  /\ state[c] = "closed" => unread'[c] = 0
               /\ link'[c] # "up" <=> link[c] # "up"
               /\ link'[c] \in {"broken", "reset"} => run[c] = "killed" /\ got[c] < typed[c]
    <3>1. unread'[c] \in Nat /\ unread'[c] <= unread[c] /\ unread[c] \in Nat
      BY <1>1, <1>4, AnswerCounts DEF TypeOK
    <3>2. \/ link'[c] = link[c]
          \/ run[c] = "killed" /\ link[c] \in {"up", "eof"} /\ link'[c] = "broken" /\ unread[c] > 0
      BY <1>4, AnswerCounts
    <3>3. run[c] = "killed" => link[c] # "up"
      BY <1>1 DEF LinksTrue
    <3>4. unread[c] > 0 => got[c] < typed[c]
      BY CountFacts
    <3>5. QED BY <1>1, <3>1, <3>2, <3>3, <3>4 DEF LinksTrue
  <2>3. QED BY <1>1, <2>1, <2>2 DEF LinksTrue
<1>5. CASE RecvEnd
  <2>1. /\ client[i] \in Clients /\ state[client[i]] = "open"
        /\ link[client[i]] # "up" /\ unread[client[i]] = 0
    BY <1>5, EntryFacts DEF RecvEnd
  <2>2. UNCHANGED <<link, unread, cli>> /\ state' = [state EXCEPT ![client[i]] = "closed"]
    BY <1>5 DEF RecvEnd
  <2>3. QED BY <1>1, <2>1, <2>2 DEF LinksTrue, TypeOK, cli
<1>6. ASSUME NEW c \in Clients, Connect(c) \/ InputFails(c) \/ InputEnd(c)
      PROVE  LinksTrue'
  BY <1>1, <1>6 DEF Connect, InputFails, InputEnd, LinksTrue, TypeOK, kernel, table
<1>7. ASSUME NEW c \in Clients, Input(c)
      PROVE  LinksTrue'
  <2>1. UNCHANGED <<state, link, run, stdineof, got>> /\ run[c] = "running" /\ ~stdineof[c]
    BY <1>7 DEF Input
  <2>2. link[c] = "up"
    BY <1>1, <2>1 DEF LinksTrue
  <2>3. QED BY <1>1, <1>7, <2>1, <2>2, InputCounts DEF LinksTrue
<1>8. ASSUME NEW c \in Clients, Receive(c)
      PROVE  LinksTrue'
  <2>1. UNCHANGED <<state, link, unread, run, stdineof, typed>>
    BY <1>8 DEF Receive
  <2>2. QED BY <1>1, <1>8, <2>1, ReceiveCounts DEF LinksTrue
<1>9. ASSUME NEW c \in Clients, ReceiveEnd(c)
      PROVE  LinksTrue'
  BY <1>1, <1>9 DEF ReceiveEnd, LinksTrue, TypeOK, kernel, table
<1>10. ASSUME NEW c \in Clients, Kill(c)
       PROVE  LinksTrue'
  <2>1. echo[c] # 0 => got[c] < typed[c]
    BY CountFacts
  <2>2. UNCHANGED <<state, unread, stdineof, typed, got>> /\ run[c] = "running"
    BY <1>10 DEF Kill
  <2>3. run' = [run EXCEPT ![c] = "killed"] /\ link'[c] \in {"eof", "broken", "reset"}
    BY <1>1, <1>10 DEF Kill, TypeOK
  <2>4. link'[c] # "eof" => got[c] < typed[c]
    BY <1>1, <1>10, <2>1 DEF Kill, TypeOK
  <2>5. \A d \in Clients \ {c} : link'[d] = link[d] /\ run'[d] = run[d]
    BY <1>1, <1>10, <2>3 DEF Kill, TypeOK
  <2>6. run'[c] = "killed"
    BY <1>1, <2>3 DEF TypeOK
  <2>7. QED BY <1>1, <2>2, <2>3, <2>4, <2>5, <2>6 DEF LinksTrue
<1>11. QED
  BY <1>2, <1>3, <1>4, <1>5, <1>6, <1>7, <1>8, <1>9, <1>10 DEF Next, ServerStep, ClientStep

(* A client that the server has closed has ended its input or was stopped. *)
(* So the end of the connection never surprises one that still types: that *)
(* takes a server that has died.                                           *)
LEMMA StepComplete ==
  ASSUME EchoInv, Next
  PROVE  CompleteEcho'
<1>1. TypeOK /\ LinksTrue /\ TableSound /\ CompleteEcho /\ Accounted
  BY DEF EchoInv
<1>2. CASE \/ Select \/ (\E c \in Clients : Accept(c)) \/ Answer \/ AnswerFails \/ RecvEnd
           \/ RecvFails \/ NextClient \/ ClientsEnd \/ Rest
  <2>1. UNCHANGED <<run, got, typed>>
    BY <1>2 DEF Select, Accept, Answer, AnswerFails, RecvEnd, RecvFails, NextClient, ClientsEnd,
                Rest, vars, cli
  <2>2. pc = "dead" => pc' = "dead"
    BY <1>2 DEF Select, Accept, Answer, AnswerFails, RecvEnd, RecvFails, NextClient, ClientsEnd,
                Rest, vars, AtClient
  <2>3. \A c \in Clients : state[c] = "closed" => state'[c] = "closed"
    BY <1>1, <1>2 DEF Select, Accept, Answer, AnswerFails, RecvEnd, RecvFails, NextClient,
         ClientsEnd, Rest, vars, kernel, TypeOK
  <2>4. QED BY <1>1, <2>1, <2>2, <2>3 DEF CompleteEcho, Running
<1>3. ASSUME NEW c \in Clients, Connect(c) \/ Input(c) \/ InputEnd(c) \/ Receive(c) \/ Kill(c)
      PROVE  CompleteEcho'
  <2>1. pc' = pc /\ \A d \in Clients : run'[d] \in {"done", "failed"} => run'[d] = run[d]
    BY <1>1, <1>3 DEF Connect, Input, InputEnd, Receive, Kill, TypeOK
  <2>2. \A d \in Clients : state[d] = "closed" => state'[d] = "closed"
    BY <1>1, <1>3 DEF Connect, Input, InputEnd, Receive, Kill, LinksTrue, TypeOK
  <2>3. \A d \in Clients : run[d] = "done" => got'[d] = got[d] /\ typed'[d] = typed[d]
    BY <1>1, <1>3, ReceiveCounts DEF Connect, Input, InputEnd, Receive, Kill, TypeOK
  <2>4. QED BY <1>1, <2>1, <2>2, <2>3 DEF CompleteEcho, Running
<1>4. ASSUME NEW c \in Clients, InputFails(c)
      PROVE  CompleteEcho'
  BY <1>4 DEF InputFails, CompleteEcho, Running
<1>5. ASSUME NEW c \in Clients, ReceiveEnd(c)
      PROVE  CompleteEcho'
  <2>1. UNCHANGED <<pc, state, typed, got>> /\ run[c] = "running" /\ echo[c] = 0
        /\ (state[c] = "closed" \/ pc = "dead")
    BY <1>5 DEF ReceiveEnd, kernel
  <2>2. \A d \in Clients \ {c} : run'[d] = run[d]
    BY <1>1, <1>5 DEF ReceiveEnd, TypeOK
  <2>3. ASSUME pc # "dead"
        PROVE  stdineof[c] /\ got[c] = typed[c] /\ state[c] = "closed"
    <3>1. state[c] = "closed" /\ stdineof[c] /\ unread[c] = 0
      BY <1>1, <2>1, <2>3 DEF LinksTrue
    <3>2. got[c] + echo[c] + unread[c] = typed[c]
      BY <1>1, <2>1 DEF Accounted
    <3>3. QED BY <2>1, <3>1, <3>2, CountFacts
  <2>4. pc # "dead" => run'[c] = "done"
    BY <1>1, <1>5, <2>3 DEF ReceiveEnd, TypeOK
  <2>5. QED BY <1>1, <2>1, <2>2, <2>3, <2>4 DEF CompleteEcho, Running
<1>6. QED BY <1>2, <1>3, <1>4, <1>5 DEF Next, ServerStep, ClientStep

(* What the server dies of is a connection that broke or was reset; a      *)
(* client that lives does neither, whatever it leaves unread.              *)
LEMMA StepDies ==
  ASSUME EchoInv, Next
  PROVE  DiesOfKilled'
<1>1. TypeOK /\ LinksTrue /\ DiesOfKilled
  BY DEF EchoInv
<1>2. CASE AnswerFails \/ RecvFails
  <2>1. client[i] \in Clients /\ link[client[i]] \in {"broken", "reset"}
    BY <1>2, EntryFacts DEF AnswerFails, RecvFails
  <2>2. run[client[i]] = "killed" /\ got[client[i]] < typed[client[i]]
    BY <1>1, <2>1 DEF LinksTrue
  <2>3. UNCHANGED <<run, got, typed>>
    BY <1>2 DEF AnswerFails, RecvFails, cli
  <2>4. QED BY <2>1, <2>2, <2>3 DEF DiesOfKilled
<1>3. CASE \/ Select \/ (\E c \in Clients : Accept(c)) \/ Answer \/ RecvEnd
           \/ NextClient \/ ClientsEnd \/ Rest
  <2>1. UNCHANGED <<run, got, typed>>
    BY <1>3 DEF Select, Accept, Answer, RecvEnd, NextClient, ClientsEnd, Rest, vars, cli
  <2>2. pc' = "dead" => pc = "dead"
    BY <1>3 DEF Select, Accept, Answer, RecvEnd, NextClient, ClientsEnd, Rest, vars, AtClient
  <2>3. QED BY <1>1, <2>1, <2>2 DEF DiesOfKilled
<1>4. CASE ClientStep
  <2>1. pc' = pc
    BY <1>4 DEF ClientStep, Connect, Input, InputFails, InputEnd, Receive, ReceiveEnd, Kill
  <2>2. ASSUME NEW d \in Clients, run[d] = "killed"
        PROVE  run'[d] = "killed" /\ got'[d] = got[d] /\ typed'[d] = typed[d]
    <3>1. PICK c \in Clients : \/ Connect(c) \/ Input(c) \/ InputFails(c) \/ InputEnd(c)
                               \/ Receive(c) \/ ReceiveEnd(c) \/ Kill(c)
      BY <1>4 DEF ClientStep
    <3>2. c # d
      BY <2>2, <3>1 DEF Connect, Input, InputFails, InputEnd, Receive, ReceiveEnd, Kill
    <3>3. QED BY <1>1, <2>2, <3>1, <3>2
                 DEF Connect, Input, InputFails, InputEnd, Receive, ReceiveEnd, Kill, TypeOK
  <2>3. QED BY <1>1, <2>1, <2>2 DEF DiesOfKilled
<1>5. QED BY <1>2, <1>3, <1>4 DEF Next, ServerStep

----------------------------------------------------------------------------
(* The theorems.                                                           *)

(* The invariant of the server's loop (tcpserv01.c:48-108) together with   *)
(* its clients': the table, the set select() waits for, the connections    *)
(* and the counts of what is under way agree at every step.                *)
THEOREM EchoInvariant == Spec => []EchoInv
<1>1. Init => EchoInv
  BY InitInv
<1>2. EchoInv /\ [Next]_vars => EchoInv'
  <2>1. SUFFICES ASSUME EchoInv, Next PROVE EchoInv'
    BY StutterInv
  <2>2. QED BY <2>1, StepType, StepCounts, StepTable, StepLinks, StepComplete, StepDies DEF EchoInv
<1>3. QED BY <1>1, <1>2, PTL DEF Spec

(* The loop stays in client[], and no more is under way than was typed.    *)
THEOREM TypeCorrect == Spec => []TypeOK
<1>1. EchoInv => TypeOK
  BY DEF EchoInv
<1>2. QED BY <1>1, EchoInvariant, PTL

(* client[], maxi and allset stay those of the open connections, in        *)
(* whatever order clients come and go (lines 65-81 and 91-95).             *)
THEOREM TableSoundHolds == Spec => []TableSound
<1>1. EchoInv => TableSound
  BY DEF EchoInv
<1>2. QED BY <1>1, EchoInvariant, PTL

(* A client that ends normally has printed the answer to all it sent, and  *)
(* one that says the server has terminated is right (tcpcli01.c:36-75).    *)
THEOREM CompleteEchoHolds == Spec => []CompleteEcho
<1>1. EchoInv => CompleteEcho
  BY DEF EchoInv
<1>2. QED BY <1>1, EchoInvariant, PTL

(* Only a client stopped with answers still unread ends the server, with   *)
(* SIGPIPE or in modify() (lines 91-101).                                  *)
THEOREM DiesOfKilledHolds == Spec => []DiesOfKilled
<1>1. EchoInv => DiesOfKilled
  BY DEF EchoInv
<1>2. QED BY <1>1, EchoInvariant, PTL
=============================================================================
