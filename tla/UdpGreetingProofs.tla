------------------------- MODULE UdpGreetingProofs -------------------------
(***************************************************************************)
(* Theorems about UdpGreeting, for any number of clients and entries, any  *)
(* time limits, duplication and reuse: its types, the table's soundness,   *)
(* and that the table implements the set of sessions of UdpSessions.       *)
(***************************************************************************)
EXTENDS UdpGreeting, TLAPS, FiniteSetTheorems, SequenceTheorems, WellFoundedInduction

(* Every non-empty set of naturals has a least element.                    *)
LEMMA LeastElement ==
  ASSUME NEW T, T \subseteq Nat, T # {}
  PROVE  \E m \in T : \A k \in T : m <= k
<1> DEFINE R == {ss \in Nat \X Nat : ss[1] < ss[2]}
<1>1. IsWellFoundedOn(R, Nat)
  BY NatLessThanWellFounded DEF OpToRel
<1> HIDE DEF R
<1>2. PICK m \in T : \A k \in T : ~(<<k, m>> \in R)
  BY <1>1, WFMin
<1>3. \A k \in T : ~(k < m)
  BY <1>2 DEF R
<1>4. QED BY <1>3

(* The two searches of the server stop at an entry that qualifies.         *)
LEMMA FirstIn ==
  ASSUME NEW S, S \subseteq Slots, S # {}
  PROVE  First(S) \in S
<1>1. S \subseteq Nat
  BY NumbersAssumption DEF Slots
<1>2. \E m \in S : \A k \in S : m <= k
  BY <1>1, LeastElement
<1>3. QED BY <1>2 DEF First

UdpInv == TypeOK /\ TableSound

LEMMA InitInv == Init => UdpInv
<1> SUFFICES ASSUME Init PROVE UdpInv
  OBVIOUS
<1>1. Nothing \in [Kinds -> Nat]
  BY DEF Nothing
<1>2. -1 \in -1 .. (MaxClient - 1) /\ 0 \in 0 .. Timeout /\ Patience \in 0 .. Patience
  BY NumbersAssumption
<1>3. <<>> \in Seq(Clients) /\ <<>> \in Seq(Kinds)
  OBVIOUS
<1>4. TypeOK
  BY <1>1, <1>2, <1>3 DEF Init, TypeOK, ClientPlaces
<1>5. TableSound
  BY DEF Init, TableSound, WithinReach, OneEntryEach
<1>6. QED BY <1>4, <1>5 DEF UdpInv

----------------------------------------------------------------------------
(* The types.                                                              *)

LEMMA ServerType ==
  ASSUME TypeOK, NEW c \in Clients, Goodbye(c) \/ Greet(c) \/ Refuse(c)
  PROVE  TypeOK'
<1>1. Take(c)
  BY DEF Goodbye, Greet, Refuse
<1>2. /\ inbox' \in Seq(Clients) /\ idle' \in BOOLEAN
      /\ UNCHANGED <<toServer, cpc, wait, heard, repeated>>
  <2>1. idle' = FALSE
    BY <1>1 DEF Take
  <2>2. inbox' \in Seq(Clients) /\ UNCHANGED <<toServer, cpc, wait, heard, repeated>>
    BY <1>1 DEF Take, processes, TypeOK
  <2>3. QED BY <2>1, <2>2
<1>3. ASSUME NEW k \in Kinds, Tell(c, k)
      PROVE  /\ last' \in [Clients -> {"nothing"} \cup Kinds]
             /\ toClient' \in [Clients -> [Kinds -> Nat]]
  <2>1. last' \in [Clients -> {"nothing"} \cup Kinds]
    BY <1>3 DEF Tell, TypeOK
  <2>2. CASE toClient' = toClient
    BY <2>1, <2>2 DEF TypeOK
  <2>3. CASE toClient' = [toClient EXCEPT ![c][k] = @ + 1]
    <3>1. toClient[c] \in [Kinds -> Nat]
      BY DEF TypeOK
    <3>2. [toClient[c] EXCEPT ![k] = @ + 1] \in [Kinds -> Nat]
      BY <3>1
    <3>3. QED BY <2>1, <2>3, <3>2 DEF TypeOK
  <2>4. QED BY <1>3, <2>1, <2>2, <2>3 DEF Tell
<1>4. CASE Goodbye(c)
  <2>1. First(EntriesOf(c)) \in Slots
    BY <1>4, FirstIn DEF Goodbye, EntriesOf
  <2>2. "goodbye" \in Kinds /\ Tell(c, "goodbye")
    BY <1>4 DEF Goodbye, Kinds
  <2>3. clients' \in [Slots -> Clients \cup {NoClient}] /\ age' \in [Slots -> 0 .. Timeout]
    BY <1>4, <2>1, NumbersAssumption DEF Goodbye, TypeOK
  <2>4. UNCHANGED <<maxi, expired>>
    BY <1>4 DEF Goodbye
  <2>5. QED BY <1>2, <1>3, <2>2, <2>3, <2>4 DEF TypeOK
<1>5. CASE Greet(c)
  <2>1. First(Slots \ Used) \in Slots
    <3>1. Slots \ Used # {}
      BY <1>5 DEF Greet, Used
    <3>2. QED BY <3>1, FirstIn
  <2>2. "question" \in Kinds /\ Tell(c, "question")
    BY <1>5 DEF Greet, Kinds
  <2>3. clients' \in [Slots -> Clients \cup {NoClient}] /\ age' \in [Slots -> 0 .. Timeout]
    BY <1>5, <2>1, NumbersAssumption DEF Greet, TypeOK
  <2>4. maxi' \in -1 .. (MaxClient - 1) /\ expired' = expired
    BY <1>5, <2>1, NumbersAssumption DEF Greet, Top, TypeOK, Slots
  <2>5. QED BY <1>2, <1>3, <2>2, <2>3, <2>4 DEF TypeOK
<1>6. CASE Refuse(c)
  BY <1>2, <1>6 DEF Refuse, table, TypeOK
<1>7. QED BY <1>4, <1>5, <1>6

LEMMA StepType ==
  ASSUME TypeOK, Next
  PROVE  TypeOK'
<1>1. ASSUME NEW c \in Clients, Goodbye(c) \/ Greet(c) \/ Refuse(c)
      PROVE  TypeOK'
  BY <1>1, ServerType
<1>2. CASE Expire
  <2>1. expired' \subseteq Clients
    BY <1>2 DEF Expire, Stale, TypeOK
  <2>2. idle' \in BOOLEAN
    BY <1>2 DEF Expire
  <2>3. clients' \in [Slots -> Clients \cup {NoClient}] /\ age' \in [Slots -> 0 .. Timeout]
    BY <1>2, NumbersAssumption DEF Expire, TypeOK
  <2>4. UNCHANGED <<maxi, inbox, toServer, toClient, cpc, wait, heard, last, repeated>>
    BY <1>2 DEF Expire, network, processes
  <2>5. QED BY <2>1, <2>2, <2>3, <2>4 DEF TypeOK
<1>3. CASE Tick
  BY <1>3, NumbersAssumption DEF Tick, network, TypeOK
<1>4. ASSUME NEW c \in Clients, Hello(c) \/ Reply(c)
      PROVE  TypeOK'
  <2>1. PICK next \in ClientPlaces : SendTo(c, next)
    BY <1>4 DEF Hello, Reply, ClientPlaces
  <2>2. QED BY <2>1 DEF SendTo, server, table, TypeOK
<1>5. ASSUME NEW c \in Clients, Hear(c)
      PROVE  TypeOK'
  <2>1. PICK k \in Kinds :
          /\ toClient[c][k] > 0
          /\ heard' = [heard EXCEPT ![c] = Append(@, k)]
          /\ \/ toClient' = [toClient EXCEPT ![c][k] = @ - 1]
             \/ toClient' = [toClient EXCEPT ![c] = Nothing]
    BY <1>5 DEF Hear
  <2>2. toClient[c] \in [Kinds -> Nat] /\ Nothing \in [Kinds -> Nat]
    BY DEF TypeOK, Nothing
  <2>3. [toClient[c] EXCEPT ![k] = @ - 1] \in [Kinds -> Nat]
    BY <2>1, <2>2
  <2>4. toClient' \in [Clients -> [Kinds -> Nat]]
    BY <2>1, <2>2, <2>3 DEF TypeOK
  <2>5. heard' \in [Clients -> Seq(Kinds)]
    <3>1. heard[c] \in Seq(Kinds)
      BY DEF TypeOK
    <3>2. PICK s \in Seq(Kinds) : s = heard[c]
      BY <3>1
    <3>3. Append(s, k) \in Seq(Kinds)
      OBVIOUS
    <3>4. QED BY <2>1, <3>2, <3>3 DEF TypeOK
  <2>6. cpc' \in [Clients -> ClientPlaces]
    BY <1>5 DEF Hear, TypeOK, ClientPlaces
  <2>7. UNCHANGED <<server, inbox, toServer, wait, last, expired, repeated>>
    BY <1>5 DEF Hear
  <2>8. QED BY <2>4, <2>5, <2>6, <2>7 DEF server, table, TypeOK
<1>6. ASSUME NEW c \in Clients, GiveUp(c)
      PROVE  TypeOK'
  BY <1>6 DEF GiveUp, server, table, Nothing, ClientPlaces, TypeOK
<1>7. ASSUME NEW c \in Clients, Deliver(c)
      PROVE  TypeOK'
  BY <1>7 DEF Deliver, server, table, processes, TypeOK
<1>8. ASSUME NEW c \in Clients, Duplicate(c)
      PROVE  TypeOK'
  <2>1. repeated' \subseteq MayCopy \cup Regulars
    BY <1>8 DEF Duplicate, TypeOK
  <2>2. toServer' \in [Clients -> Nat] /\ toClient' \in [Clients -> [Kinds -> Nat]]
    <3>1. CASE toServer' = [toServer EXCEPT ![c] = @ + 1] /\ toClient' = toClient
      BY <3>1 DEF TypeOK
    <3>2. ASSUME NEW k \in Kinds, toClient' = [toClient EXCEPT ![c][k] = @ + 1],
                 toServer' = toServer
          PROVE  toServer' \in [Clients -> Nat] /\ toClient' \in [Clients -> [Kinds -> Nat]]
      <4>1. toClient[c] \in [Kinds -> Nat]
        BY DEF TypeOK
      <4>2. [toClient[c] EXCEPT ![k] = @ + 1] \in [Kinds -> Nat]
        BY <4>1
      <4>3. QED BY <3>2, <4>2 DEF TypeOK
    <3>3. QED BY <1>8, <3>1, <3>2 DEF Duplicate
  <2>3. QED BY <1>8, <2>1, <2>2 DEF Duplicate, server, table, processes, TypeOK
<1>9. ASSUME NEW c \in Clients, Again(c)
      PROVE  TypeOK'
  <2>1. repeated' \subseteq MayCopy \cup Regulars
    BY <1>9 DEF Again, TypeOK
  <2>2. Patience \in 0 .. Patience /\ <<>> \in Seq(Kinds)
    BY NumbersAssumption
  <2>3. QED BY <1>9, <2>1, <2>2 DEF Again, server, table, network, ClientPlaces, TypeOK
<1>10. QED
  BY <1>1, <1>2, <1>3, <1>4, <1>5, <1>6, <1>7, <1>8, <1>9 DEF Next, ServerStep

----------------------------------------------------------------------------
(* The table.                                                              *)

(* No entry of the client is in use when the search up to maxi finds none. *)
LEMMA AllEntriesFound ==
  ASSUME TypeOK, WithinReach, NEW c \in Clients
  PROVE  EntriesOf(c) = {i \in Slots : clients[i] = c}
BY ClientsAssumption DEF EntriesOf, WithinReach

(* A step that frees entries and takes none leaves the table sound.        *)
LEMMA FreeingIsSound ==
  ASSUME TypeOK, TableSound, maxi' = maxi,
         \A i \in Slots : clients'[i] \in {clients[i], NoClient}
  PROVE  TableSound'
BY DEF TableSound, WithinReach, OneEntryEach

(* A greeting fills a free entry; a goodbye clears the only one there is.  *)
LEMMA GreetTable ==
  ASSUME TypeOK, TableSound, NEW c \in Clients, Greet(c)
  PROVE  \E i \in Slots :
           /\ clients[i] = NoClient /\ maxi' = Top(i)
           /\ \A j \in Slots : clients[j] # c
           /\ \A j \in Slots : clients'[j] = IF j = i THEN c ELSE clients[j]
<1>1. PICK i \in Slots : i = First(Slots \ Used) /\ clients[i] = NoClient
  <2>1. Slots \ Used # {}
    BY DEF Greet, Used
  <2>2. First(Slots \ Used) \in Slots \ Used
    BY <2>1, FirstIn
  <2>3. QED BY <2>2 DEF Used
<1>2. clients' = [clients EXCEPT ![i] = c] /\ maxi' = Top(i)
  BY <1>1 DEF Greet
<1>3. \A j \in Slots : clients[j] # c
  BY AllEntriesFound DEF Greet, TableSound
<1>4. QED BY <1>1, <1>2, <1>3 DEF TypeOK

LEMMA GoodbyeTable ==
  ASSUME TypeOK, TableSound, NEW c \in Clients, Goodbye(c)
  PROVE  \E i \in Slots :
           /\ \A j \in Slots : clients[j] = c <=> j = i
           /\ \A j \in Slots : clients'[j] = IF j = i THEN NoClient ELSE clients[j]
<1>1. PICK i \in Slots : i = First(EntriesOf(c)) /\ clients[i] = c
  <2>1. EntriesOf(c) # {} /\ EntriesOf(c) \subseteq Slots
    BY DEF Goodbye, EntriesOf
  <2>2. First(EntriesOf(c)) \in EntriesOf(c)
    BY <2>1, FirstIn
  <2>3. QED BY <2>2 DEF EntriesOf
<1>2. clients' = [clients EXCEPT ![i] = NoClient]
  BY <1>1 DEF Goodbye
<1>3. \A j \in Slots : clients[j] = c => j = i
  BY <1>1, ClientsAssumption DEF TableSound, OneEntryEach
<1>4. QED BY <1>1, <1>2, <1>3 DEF TypeOK

LEMMA StepTable ==
  ASSUME TypeOK, TableSound, Next
  PROVE  TableSound'
<1>1. ASSUME NEW c \in Clients, Greet(c)
      PROVE  TableSound'
  <2>1. PICK i \in Slots :
          /\ clients[i] = NoClient /\ maxi' = Top(i)
          /\ \A j \in Slots : clients[j] # c
          /\ \A j \in Slots : clients'[j] = IF j = i THEN c ELSE clients[j]
    BY <1>1, GreetTable
  <2>2. Slots \subseteq Int /\ maxi \in Int
    BY NumbersAssumption DEF Slots, TypeOK
  <2>3. WithinReach'
    BY <2>1, <2>2 DEF TableSound, WithinReach, Top
  <2>4. OneEntryEach'
    BY <2>1 DEF TableSound, OneEntryEach
  <2>5. QED BY <2>3, <2>4 DEF TableSound
<1>2. ASSUME NEW c \in Clients, Goodbye(c)
      PROVE  TableSound'
  <2>1. \A i \in Slots : clients'[i] \in {clients[i], NoClient}
    BY <1>2 DEF Goodbye, TypeOK
  <2>2. QED BY <1>2, <2>1, FreeingIsSound DEF Goodbye
<1>3. CASE Expire
  <2>1. \A i \in Slots : clients'[i] \in {clients[i], NoClient}
    BY <1>3 DEF Expire
  <2>2. QED BY <1>3, <2>1, FreeingIsSound DEF Expire
<1>4. CASE UNCHANGED <<clients, maxi>>
  BY <1>4, FreeingIsSound
<1>5. ASSUME NEW c \in Clients,
             \/ Refuse(c) \/ Hello(c) \/ Reply(c) \/ Hear(c) \/ GiveUp(c) \/ Again(c)
             \/ Deliver(c) \/ Duplicate(c)
      PROVE  TableSound'
  BY <1>4, <1>5 DEF Refuse, Hello, Reply, SendTo, Hear, GiveUp, Again, Deliver, Duplicate,
       server, table
<1>6. CASE Tick
  BY <1>4, <1>6 DEF Tick
<1>7. QED BY <1>1, <1>2, <1>3, <1>5, <1>6 DEF Next, ServerStep

LEMMA StutterInv == UdpInv /\ UNCHANGED vars => UdpInv'
BY DEF UdpInv, TypeOK, TableSound, WithinReach, OneEntryEach, vars, server, table, network, processes

(* The types and the table of the server (serv.c:99-149), in every state.  *)
THEOREM UdpInvariant == Spec => []UdpInv
<1>1. Init => UdpInv
  BY InitInv
<1>2. UdpInv /\ [Next]_vars => UdpInv'
  BY StutterInv, StepType, StepTable DEF UdpInv
<1>3. QED BY <1>1, <1>2, PTL DEF Spec

(* maxi is an index of the table or -1, and no count or time limit leaves  *)
(* its range.                                                              *)
THEOREM TypeCorrect == Spec => []TypeOK
<1>1. UdpInv => TypeOK
  BY DEF UdpInv
<1>2. QED BY <1>1, UdpInvariant, PTL

(* However datagrams are lost, repeated and reordered, no entry is beyond  *)
(* the search of line 99 and no client has two.                            *)
THEOREM TableSoundHolds == Spec => []TableSound
<1>1. UdpInv => TableSound
  BY DEF UdpInv
<1>2. QED BY <1>1, UdpInvariant, PTL

----------------------------------------------------------------------------
(* The sessions.                                                           *)

Greeted == {clients[i] : i \in Slots} \ {NoClient}

(* A table with a free entry holds fewer than MaxClient sessions.          *)
LEMMA FreeEntryLeavesRoom ==
  ASSUME TypeOK, Used # Slots
  PROVE  Cardinality(Greeted) < MaxClient
<1>1. PICK free \in Slots : clients[free] = NoClient
  BY DEF Used
<1>2. PICK t \in [Slots -> Clients \cup {NoClient}] : t = clients
  BY DEF TypeOK
<1>3. PICK U \in SUBSET Slots : U = {i \in Slots : t[i] # NoClient}
  OBVIOUS
<1>4. IsFiniteSet(Slots) /\ Cardinality(Slots) = MaxClient
  BY FS_Interval, NumbersAssumption, <1>1 DEF Slots
<1>5. IsFiniteSet(U) /\ Cardinality(U) <= Cardinality(Slots) /\ Cardinality(U) # Cardinality(Slots)
  <2>1. U # Slots
    BY <1>1, <1>2, <1>3
  <2>2. QED BY <1>4, <2>1, FS_Subset
<1>6. PICK G : G = {t[i] : i \in U}
  OBVIOUS
<1>7. G = Greeted
  BY <1>2, <1>3, <1>6 DEF Greeted
<1>8. PICK f : f = [i \in U |-> t[i]]
  OBVIOUS
<1>9. f \in Surjection(U, G)
  BY <1>6, <1>8 DEF Surjection
<1>10. Cardinality(G) <= Cardinality(U) /\ IsFiniteSet(G)
  BY <1>5, <1>9, FS_Surjection
<1>11. Cardinality(G) \in Nat /\ Cardinality(U) \in Nat
  BY <1>5, <1>10, FS_CardinalityType
<1>12. QED BY <1>4, <1>5, <1>7, <1>10, <1>11, NumbersAssumption

LEMMA SessionStep ==
  ASSUME UdpInv, Next
  PROVE  Sessions!Next \/ (Greeted' = Greeted /\ last' = last)
<1>1. TypeOK /\ TableSound
  BY DEF UdpInv
<1>2. ASSUME NEW c \in Clients, Greet(c)
      PROVE  Sessions!Greet(c)
  <2>1. PICK i \in Slots :
          /\ clients[i] = NoClient
          /\ \A j \in Slots : clients[j] # c
          /\ \A j \in Slots : clients'[j] = IF j = i THEN c ELSE clients[j]
    BY <1>1, <1>2, GreetTable
  <2>2. last' = [last EXCEPT ![c] = "question"]
    BY <1>2 DEF Greet, Tell
  <2>3. c \notin Greeted /\ Greeted' = Greeted \cup {c}
    BY <2>1, ClientsAssumption DEF Greeted
  <2>4. Cardinality(Greeted) < MaxClient
    BY <1>1, <1>2, FreeEntryLeavesRoom DEF Greet
  <2>5. Sessions!Cardinality(Greeted) = Cardinality(Greeted)
    BY DEF Sessions!Cardinality, Cardinality
  <2>6. QED BY <2>2, <2>3, <2>4, <2>5 DEF Sessions!Greet, Greeted
<1>3. ASSUME NEW c \in Clients, Goodbye(c)
      PROVE  Sessions!Farewell(c)
  <2>1. PICK i \in Slots :
          /\ \A j \in Slots : clients[j] = c <=> j = i
          /\ \A j \in Slots : clients'[j] = IF j = i THEN NoClient ELSE clients[j]
    BY <1>1, <1>3, GoodbyeTable
  <2>2. last' = [last EXCEPT ![c] = "goodbye"]
    BY <1>3 DEF Goodbye, Tell
  <2>3. c \in Greeted /\ Greeted' = Greeted \ {c}
    BY <2>1, ClientsAssumption DEF Greeted
  <2>4. QED BY <2>2, <2>3 DEF Sessions!Farewell, Greeted
<1>4. CASE Expire
  <2>1. \A i \in Slots : clients'[i] = IF i \in Stale THEN NoClient ELSE clients[i]
    BY <1>4 DEF Expire
  <2>2. Greeted' \subseteq Greeted
    BY <2>1 DEF Greeted
  <2>3. Greeted' = Greeted \ (Greeted \ Greeted')
    BY <2>2
  <2>4. last' = last
    BY <1>4 DEF Expire
  <2>5. Sessions!Forget
    BY <2>3, <2>4 DEF Sessions!Forget, Greeted
  <2>6. QED BY <2>5 DEF Sessions!Next
<1>5. ASSUME UNCHANGED <<clients, last>>
      PROVE  Greeted' = Greeted /\ last' = last
  BY <1>5 DEF Greeted
<1>6. ASSUME NEW c \in Clients,
             \/ Refuse(c) \/ Hello(c) \/ Reply(c) \/ Hear(c) \/ GiveUp(c) \/ Again(c)
             \/ Deliver(c) \/ Duplicate(c)
      PROVE  Greeted' = Greeted /\ last' = last
  <2>1. UNCHANGED <<clients, last>>
    BY <1>6 DEF Refuse, Hello, Reply, SendTo, Hear, GiveUp, Again, Deliver, Duplicate,
       server, table
  <2>2. QED BY <1>5, <2>1
<1>7. CASE Tick
  BY <1>5, <1>7 DEF Tick
<1>8. QED BY <1>2, <1>3, <1>4, <1>6, <1>7 DEF Next, ServerStep, Sessions!Next

(* The table implements the set of sessions: at most MaxClient of them,    *)
(* greeted once, and ended by one goodbye or one timeout (serv.c:86-150).  *)
THEOREM SessionsImplemented == Spec => KeepsSessions
<1>1. Init => Sessions!Init
  BY DEF Init, Sessions!Init
<1>2. UdpInv /\ [Next]_vars => [Sessions!Next]_<<Greeted, last>>
  <2>1. CASE Next /\ UdpInv
    BY <2>1, SessionStep
  <2>2. CASE UNCHANGED vars
    BY <2>2 DEF vars, server, table, Greeted
  <2>3. QED BY <2>1, <2>2
<1>3. QED BY <1>1, <1>2, UdpInvariant, PTL DEF Spec, KeepsSessions, Sessions!Spec, Greeted

----------------------------------------------------------------------------
(* The conversation.                                                       *)

(* recvfrom() takes the first datagram and leaves the others in order.     *)
LEMMA TakeInbox ==
  ASSUME TypeOK, NEW d \in Clients, Take(d), NEW c \in Clients
  PROVE  /\ Absent(c) => c # d /\ Absent(c)'
         /\ Once(c) => IF c = d THEN Absent(c)' ELSE Once(c)'
<1>1. PICK s \in Seq(Clients) : s = inbox
  BY DEF TypeOK
<1>2. PICK n \in Nat : n = Len(s)
  BY LenProperties
<1>3. /\ n # 0 /\ Len(inbox) = n /\ s[1] = d
      /\ inbox' = Tail(s) /\ Tail(s) \in Seq(Clients) /\ Len(Tail(s)) = n - 1
      /\ \A i \in 1 .. n - 1 : Tail(s)[i] = s[i + 1]
  BY <1>1, <1>2, HeadTailProperties, EmptySeq, LenProperties DEF Take
<1>4. Len(inbox') = n - 1 /\ \A i \in 1 .. n - 1 : inbox'[i] = s[i + 1]
  BY <1>3, LenProperties
<1>5. Absent(c) => c # d /\ Absent(c)'
  <2>1. SUFFICES ASSUME \A i \in 1 .. n : s[i] # c PROVE c # d /\ Absent(c)'
    BY <1>1, <1>3 DEF Absent
  <2>2. 1 \in 1 .. n /\ \A i \in 1 .. n - 1 : i + 1 \in 1 .. n
    BY <1>3
  <2>3. QED BY <1>3, <1>4, <2>1, <2>2 DEF Absent
<1>6. ASSUME NEW k \in 1 .. n, \A j \in 1 .. n : s[j] = c <=> j = k
      PROVE  IF c = d THEN Absent(c)' ELSE Once(c)'
  <2>1. \A i \in 1 .. n - 1 : inbox'[i] = c <=> i + 1 = k
    BY <1>4, <1>6
  <2>2. 1 \in 1 .. n
    BY <1>3
  <2>3. CASE c = d
    <3>1. k = 1
      BY <1>3, <1>6, <2>2, <2>3
    <3>2. QED BY <1>4, <2>1, <2>3, <3>1 DEF Absent
  <2>4. CASE c # d
    <3>1. k # 1
      BY <1>3, <1>6, <2>4
    <3>2. PICK m \in 1 .. n - 1 : m = k - 1
      BY <3>1
    <3>3. \A i \in 1 .. n - 1 : inbox'[i] = c <=> i = m
      BY <2>1, <3>2
    <3>4. m \in 1 .. Len(inbox') /\ \A i \in 1 .. Len(inbox') : inbox'[i] = c <=> i = m
      BY <1>4, <3>3
    <3>5. QED BY <2>4, <3>4, Zenon DEF Once
  <2>5. QED BY <2>3, <2>4
<1>7. Once(c) => \E k \in 1 .. n : \A j \in 1 .. n : s[j] = c <=> j = k
  BY <1>1, <1>3 DEF Once
<1>8. QED BY <1>5, <1>6, <1>7

(* A datagram that arrives goes behind the others.                         *)
LEMMA PutInbox ==
  ASSUME TypeOK, NEW d \in Clients, inbox' = Append(inbox, d), NEW c \in Clients
  PROVE  /\ Absent(c) => IF c = d THEN Once(c)' ELSE Absent(c)'
         /\ c # d /\ Once(c) => Once(c)'
<1>1. PICK s \in Seq(Clients) : s = inbox
  BY DEF TypeOK
<1>2. PICK n \in Nat : n = Len(s)
  BY LenProperties
<1>3. /\ Len(inbox) = n /\ inbox' \in Seq(Clients) /\ Len(inbox') = n + 1
      /\ \A i \in 1 .. n : inbox'[i] = s[i]
      /\ inbox'[n + 1] = d
  BY <1>1, <1>2, AppendProperties, LenProperties
<1>4. /\ Len(inbox') = n + 1
      /\ \A i \in 1 .. n + 1 : inbox'[i] = IF i = n + 1 THEN d ELSE s[i]
  BY <1>3, LenProperties
<1>5. ASSUME \A i \in 1 .. n : s[i] # c
      PROVE  IF c = d THEN Once(c)' ELSE Absent(c)'
  <2>1. CASE c = d
    <3>1. n + 1 \in 1 .. n + 1 /\ \A j \in 1 .. n + 1 : inbox'[j] = c <=> j = n + 1
      BY <1>4, <1>5, <2>1
    <3>2. QED BY <1>4, <2>1, <3>1 DEF Once
  <2>2. CASE c # d
    <3>1. \A j \in 1 .. n + 1 : inbox'[j] # c
      BY <1>4, <1>5, <2>2
    <3>2. QED BY <1>4, <2>2, <3>1 DEF Absent
  <2>3. QED BY <2>1, <2>2
<1>6. ASSUME c # d, NEW k \in 1 .. n, \A j \in 1 .. n : s[j] = c <=> j = k
      PROVE  Once(c)'
  <2>1. PICK m \in 1 .. n + 1 : m = k
    OBVIOUS
  <2>2. m \in 1 .. Len(inbox') /\ \A j \in 1 .. Len(inbox') : inbox'[j] = c <=> j = m
    BY <1>4, <1>6, <2>1
  <2>3. QED BY <2>2, Zenon DEF Once
<1>7. /\ Absent(c) => \A i \in 1 .. n : s[i] # c
      /\ Once(c) => \E k \in 1 .. n : \A j \in 1 .. n : s[j] = c <=> j = k
  BY <1>1, <1>3 DEF Absent, Once
<1>8. QED BY <1>5, <1>6, <1>7

(* What does not touch a client leaves it at its turn.                     *)
LEMMA TurnKept ==
  ASSUME NEW c \in Clients, Turn(c),
         cpc'[c] = cpc[c], heard'[c] = heard[c], toServer'[c] = toServer[c], toClient'[c] = toClient[c],
         InTable(c)' <=> InTable(c), Absent(c) => Absent(c)', Once(c) => Once(c)'
  PROVE  Turn(c)'
<1>1. ASSUME NEW n, NEW present, NEW q, NEW g, Between(c, n, present, q, g)
      PROVE  Between(c, n, present, q, g)'
  BY <1>1 DEF Between
<1>2. QED BY <1>1 DEF Turn

LEMMA ServerTurn ==
  ASSUME UdpInv, NEW d \in Clients, Goodbye(d) \/ Greet(d) \/ Refuse(d), NEW c \in Clients, Turn(c)
  PROVE  Turn(c)'
<1>1. /\ TypeOK /\ TableSound /\ Take(d)
      /\ UNCHANGED <<toServer, cpc, heard>>
  BY DEF UdpInv, Goodbye, Greet, Refuse, Take, processes
<1>2. CASE c # d
  <2>1. (Absent(c) => Absent(c)') /\ (Once(c) => Once(c)')
    BY <1>1, <1>2, TakeInbox
  <2>2. toClient'[c] = toClient[c]
    BY <1>1, <1>2 DEF Goodbye, Greet, Refuse, Tell, TypeOK
  <2>3. InTable(c)' <=> InTable(c)
    <3>1. CASE Greet(d)
      BY <1>1, <1>2, <3>1, GreetTable, ClientsAssumption DEF InTable
    <3>2. CASE Goodbye(d)
      BY <1>1, <1>2, <3>2, GoodbyeTable, ClientsAssumption DEF InTable
    <3>3. CASE Refuse(d)
      BY <3>3 DEF Refuse, table, InTable
    <3>4. QED BY <3>1, <3>2, <3>3
  <2>4. QED BY <1>1, <2>1, <2>2, <2>3, TurnKept
<1>3. CASE c = d
  <2>1. ~Absent(c) /\ (Once(c) => Absent(c)')
    BY <1>1, <1>3, TakeInbox
  <2>2. cpc[c] \notin {"start", "typing"}
    BY <2>1 DEF Turn, Between
  <2>3. /\ cpc[c] = "first" => Between(c, 1, FALSE, 0, 0)
        /\ cpc[c] = "second" => Between(c, 1, TRUE, 0, 0)
    BY <2>1 DEF Turn, Between
  <2>4. cpc[c] \in {"first", "second"} => toServer'[c] = 0 /\ Absent(c)'
    BY <1>1, <2>1, <2>3 DEF Between
  <2>5. toClient[c] \in [Kinds -> Nat] /\ {"question", "goodbye"} = Kinds
    BY <1>1 DEF TypeOK, Kinds
  <2>6. CASE Greet(c)
    <3>1. ~InTable(c) /\ InTable(c)'
      BY <1>1, <2>6, GreetTable DEF InTable
    <3>2. cpc[c] \in {"first", "done", "timeout"}
      BY <1>1, <2>2, <2>3, <3>1 DEF Between, TypeOK, ClientPlaces
    <3>3. cpc[c] = "first" => toClient'[c]["question"] = 1 /\ toClient'[c]["goodbye"] = 0
      BY <1>1, <2>3, <2>5, <2>6 DEF Greet, Tell, Between, TypeOK
    <3>4. cpc[c] = "first" => Between(c, 0, TRUE, 1, 0)'
      BY <2>4, <3>1, <3>3 DEF Between
    <3>5. QED BY <1>1, <3>2, <3>4 DEF Turn
  <2>7. CASE Goodbye(c)
    <3>1. InTable(c) /\ ~InTable(c)'
      BY <1>1, <2>7, GoodbyeTable, ClientsAssumption DEF InTable
    <3>2. cpc[c] \in {"second", "done", "timeout"}
      BY <1>1, <2>2, <2>3, <3>1 DEF Between, TypeOK, ClientPlaces
    <3>3. cpc[c] = "second" => toClient'[c]["question"] = 0 /\ toClient'[c]["goodbye"] = 1
      BY <1>1, <2>3, <2>5, <2>7 DEF Goodbye, Tell, Between, TypeOK
    <3>4. cpc[c] = "second" => Between(c, 0, FALSE, 0, 1)'
      BY <2>4, <3>1, <3>3 DEF Between
    <3>5. QED BY <1>1, <3>2, <3>4 DEF Turn
  <2>8. CASE Refuse(c)
    <3>1. ~InTable(c) /\ ~InTable(c)' /\ toClient' = toClient
      <4>1. \A j \in Slots : clients[j] # c
        BY <1>1, <2>8, AllEntriesFound DEF Refuse, TableSound
      <4>2. QED BY <2>8, <4>1 DEF Refuse, table, InTable
    <3>2. cpc[c] \in {"first", "done", "timeout"}
      BY <1>1, <2>2, <2>3, <3>1 DEF Between, TypeOK, ClientPlaces
    <3>3. cpc[c] = "first" => Between(c, 0, FALSE, 0, 0)'
      BY <2>3, <2>4, <3>1 DEF Between
    <3>4. QED BY <1>1, <3>2, <3>3 DEF Turn
  <2>9. QED BY <1>3, <2>6, <2>7, <2>8
<1>4. QED BY <1>2, <1>3

LEMMA ClientTurn ==
  ASSUME UdpInv, NEW d \in Clients,
         NEW c \in Clients, Turn(c),
         \/ Hello(d) \/ Reply(d) \/ Hear(d) \/ GiveUp(d) \/ Deliver(d)
         \/ c # d /\ (Duplicate(d) \/ Again(d))
  PROVE  Turn(c)'
<1>1. TypeOK
  BY DEF UdpInv
<1>2. InTable(c)' <=> InTable(c)
  BY DEF Hello, Reply, SendTo, Hear, GiveUp, Again, Deliver, Duplicate,
     server, table, InTable
<1>3. inbox' = inbox => (Absent(c)' <=> Absent(c)) /\ (Once(c)' <=> Once(c))
  BY DEF Absent, Once
<1>4. CASE c # d
  <2>1. (Absent(c) => Absent(c)') /\ (Once(c) => Once(c)')
    BY <1>1, <1>3, <1>4, PutInbox DEF Hello, Reply, SendTo, Hear, GiveUp, Again, Deliver, Duplicate, network
  <2>2. /\ cpc'[c] = cpc[c] /\ heard'[c] = heard[c]
        /\ toServer'[c] = toServer[c] /\ toClient'[c] = toClient[c]
    BY <1>1, <1>4 DEF Hello, Reply, SendTo, Hear, GiveUp, Again, Deliver, Duplicate, TypeOK,
         processes, network
  <2>3. QED BY <1>2, <2>1, <2>2, TurnKept
<1>5. CASE c = d
  <2>1. toClient[c] \in [Kinds -> Nat] /\ Kinds = {"question", "goodbye"} /\ heard[c] \in Seq(Kinds)
    BY <1>1 DEF TypeOK, Kinds
  <2>2. CASE Hello(c)
    <3>1. Between(c, 0, FALSE, 0, 0) /\ heard'[c] = <<>> /\ cpc'[c] = "first"
      BY <1>1, <2>2 DEF Hello, SendTo, Turn, TypeOK
    <3>2. Between(c, 1, FALSE, 0, 0)'
      BY <1>1, <1>2, <1>3, <1>5, <2>2, <3>1 DEF Hello, SendTo, Between, TypeOK
    <3>3. QED BY <3>1, <3>2 DEF Turn
  <2>3. CASE Reply(c)
    <3>1. Between(c, 0, TRUE, 0, 0) /\ heard'[c] = <<"question">> /\ cpc'[c] = "second"
      BY <1>1, <2>3 DEF Reply, SendTo, Turn, TypeOK
    <3>2. Between(c, 1, TRUE, 0, 0)'
      BY <1>1, <1>2, <1>3, <1>5, <2>3, <3>1 DEF Reply, SendTo, Between, TypeOK
    <3>3. QED BY <3>1, <3>2 DEF Turn
  <2>4. CASE Hear(c)
    <3>1. PICK k \in Kinds : /\ toClient[c][k] > 0
                             /\ heard' = [heard EXCEPT ![c] = Append(@, k)]
      BY <2>4 DEF Hear
    <3>2. CASE cpc[c] = "first"
      <4>1. Between(c, 0, TRUE, 1, 0) /\ k = "question" /\ heard[c] = <<>>
        BY <2>1, <3>1, <3>2 DEF Turn, Between
      <4>2. cpc'[c] = "typing" /\ heard'[c] = <<"question">>
        BY <1>1, <2>1, <2>4, <3>1, <3>2, <4>1 DEF Hear, TypeOK
      <4>3. toClient'[c]["question"] = 0 /\ toClient'[c]["goodbye"] = 0 /\ toServer' = toServer
        BY <1>1, <2>1, <2>4, <3>2, <4>1 DEF Hear, TypeOK, Between
      <4>4. Between(c, 0, TRUE, 0, 0)'
        BY <1>2, <1>3, <1>5, <2>4, <4>1, <4>3 DEF Between, Hear
      <4>5. QED BY <4>2, <4>4 DEF Turn
    <3>3. CASE cpc[c] = "second"
      <4>1. k = "goodbye" /\ heard[c] = <<"question">>
        BY <2>1, <3>1, <3>3 DEF Turn, Between
      <4>2. cpc'[c] = "done" /\ heard'[c] = Append(<<"question">>, "goodbye")
        <5>1. heard'[c] = Append(heard[c], k)
          BY <1>1, <3>1 DEF TypeOK
        <5>2. cpc'[c] = "done"
          BY <1>1, <1>5, <2>4, <3>3 DEF Hear, TypeOK
        <5>3. QED BY <4>1, <5>1, <5>2
      <4>3. Append(<<"question">>, "goodbye") = Conversation
        <5>1. <<"question">> \in Seq(Kinds) /\ "goodbye" \in Kinds
          BY <2>1
        <5>2. PICK s \in Seq(Kinds) : s = <<"question">>
          BY <5>1
        <5>3. Len(s) = 1 /\ s[1] = "question"
          BY <5>2
        <5>4. PICK t : t = Append(s, "goodbye")
          OBVIOUS
        <5>5. t \in Seq(Kinds) /\ Len(t) = 2 /\ t[1] = "question" /\ t[2] = "goodbye"
          <6>1. /\ t \in Seq(Kinds) /\ Len(t) = Len(s) + 1 /\ t[Len(s) + 1] = "goodbye"
                /\ \A i \in 1 .. Len(s) : t[i] = s[i]
            BY <5>1, <5>4, AppendProperties
          <6>2. Len(s) + 1 = 2 /\ 1 \in 1 .. Len(s)
            BY <5>3
          <6>3. QED BY <5>3, <6>1, <6>2
        <5>6. Conversation \in Seq(Kinds) /\ Len(Conversation) = 2
          BY <2>1 DEF Conversation
        <5>7. \A i \in 1 .. 2 : t[i] = Conversation[i]
          BY <5>5 DEF Conversation
        <5>8. t = Conversation
          BY <5>5, <5>6, <5>7, SeqEqual
        <5>9. QED BY <5>2, <5>4, <5>8
      <4>4. QED BY <4>2, <4>3 DEF Turn
    <3>4. QED BY <2>4, <3>2, <3>3 DEF Hear, Waiting
  <2>5. CASE GiveUp(c)
    BY <1>1, <2>5 DEF GiveUp, Turn, TypeOK
  <2>6. CASE Deliver(c)
    <3>1. UNCHANGED <<cpc, heard, toClient>> /\ toServer[c] > 0 /\ toServer'[c] = toServer[c] - 1
      BY <1>1, <2>6 DEF Deliver, processes, TypeOK
    <3>2. Absent(c) => Once(c)'
      BY <1>1, <2>6, PutInbox DEF Deliver
    <3>3. ASSUME NEW present, NEW q, NEW g
          PROVE  /\ ~Between(c, 0, present, q, g)
                 /\ Between(c, 1, present, q, g) => Between(c, 1, present, q, g)'
      BY <1>2, <3>1, <3>2 DEF Between
    <3>4. QED BY <3>1, <3>3 DEF Turn
  <2>7. QED BY <1>5, <2>2, <2>3, <2>4, <2>5, <2>6
<1>6. QED BY <1>4, <1>5

LEMMA StepTurns ==
  ASSUME UdpInv, TakeTurns, [Next]_vars
  PROVE  TakeTurns'
<1>1. expired \subseteq expired' /\ repeated \subseteq repeated'
  BY DEF Next, ServerStep, Goodbye, Greet, Refuse, Take, Expire, Tick, Hello, Reply, SendTo, Hear, GiveUp,
     Again, Deliver, Duplicate, vars
<1>2. SUFFICES ASSUME NEW c \in Clients, c \notin expired', c \notin repeated', Turn(c)
               PROVE  Turn(c)'
  BY <1>1 DEF TakeTurns
<1>3. CASE \E d \in Clients : Goodbye(d) \/ Greet(d) \/ Refuse(d)
  BY <1>2, <1>3, ServerTurn
<1>4. CASE \E d \in Clients : \/ Hello(d) \/ Reply(d) \/ Hear(d) \/ GiveUp(d) \/ Again(d)
                            \/ Deliver(d) \/ Duplicate(d)
  <2>1. \A d \in Clients : Duplicate(d) \/ Again(d) => c # d
    BY <1>2 DEF Duplicate, Again
  <2>2. QED BY <1>2, <1>4, <2>1, ClientTurn
<1>5. CASE Expire
  <2>1. UNCHANGED <<inbox, toServer, toClient, cpc, heard>>
    BY <1>5 DEF Expire, network, processes
  <2>2. \A i \in Slots : clients'[i] = c <=> clients[i] = c
    BY <1>2, <1>5, ClientsAssumption DEF Expire, Stale
  <2>3. QED BY <1>2, <2>1, <2>2, TurnKept DEF InTable, Absent, Once
<1>6. CASE Tick \/ UNCHANGED vars
  <2>1. UNCHANGED <<clients, inbox, toServer, toClient, cpc, heard>>
    BY <1>6 DEF Tick, vars, server, table, network, processes
  <2>2. QED BY <1>2, <2>1, TurnKept DEF InTable, Absent, Once
<1>7. QED BY <1>3, <1>4, <1>5, <1>6 DEF Next, ServerStep

(* Between the server and a client that is neither timed out nor           *)
(* duplicated, and the first at its address, there is at most one datagram *)
(* under way, and whose turn it is decides whether the table holds the     *)
(* client (serv.c:99-137).                                                 *)
THEOREM TurnsInvariant == Spec => [](UdpInv /\ TakeTurns)
<1>1. Init => TakeTurns
  <2>1. SUFFICES ASSUME Init, NEW c \in Clients PROVE Turn(c)
    BY DEF TakeTurns
  <2>2. toClient[c]["question"] = 0 /\ toClient[c]["goodbye"] = 0
    BY <2>1 DEF Init, Nothing, Kinds
  <2>3. Absent(c) /\ ~InTable(c) /\ toServer[c] = 0 /\ cpc[c] = "start" /\ heard[c] = <<>>
    BY <2>1, ClientsAssumption DEF Init, Absent, InTable
  <2>4. Between(c, 0, FALSE, 0, 0)
    BY <2>2, <2>3 DEF Between
  <2>5. QED BY <2>3, <2>4 DEF Turn
<1>2. UdpInv /\ TakeTurns /\ [Next]_vars => TakeTurns'
  BY StepTurns
<1>3. QED BY <1>1, <1>2, UdpInvariant, PTL DEF Spec

(* Without faults the conversation is the documented one, whatever the     *)
(* other clients and the network do with theirs (serv.c:22-27).            *)
THEOREM PromptGoodbyeHolds == Spec => []PromptGoodbye
<1>1. TakeTurns => PromptGoodbye
  BY DEF TakeTurns, Turn, PromptGoodbye
<1>2. QED BY <1>1, TurnsInvariant, PTL
=============================================================================
