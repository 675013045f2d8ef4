-------------------------- MODULE PollServerProofs --------------------------
(***************************************************************************)
(* Theorems about PollServer, for any number of connections, any subset of *)
(* them that may be reset, any size of the table and of the buffers.       *)
(***************************************************************************)
EXTENDS PollServer, TLAPS

LEMMA InitInv == Init => PollInv
<1> SUFFICES ASSUME Init PROVE PollInv
  OBVIOUS
<1>1. TypeOK
  <2>1. EmptySlot \in [conn : Conns \cup {NoConn}, revents : Events]
    BY DEF EmptySlot, Events
  <2>2. 1 \in 1 .. MaxFds /\ 0 \in 0 .. MaxUnread
    BY SizeAssumption
  <2>3. QED BY <2>1, <2>2 DEF Init, TypeOK
<1>2. InUse = {}
  BY DEF Init, InUse, Slots
<1>3. TableMatches /\ HangUpsAreReal
  BY <1>2 DEF Init, TableMatches, EntriesOpen, EntriesDiffer, OpenHaveEntry, HangUpsAreReal
<1>4. PrintedAsSent /\ ClosedWhenDone
  BY DEF Init, PrintedAsSent, ClosedWhenDone
<1>5. QED BY <1>1, <1>3, <1>4 DEF PollInv

----------------------------------------------------------------------------
(* The types.                                                              *)

LEMMA SlotFacts ==
  ASSUME TypeOK
  PROVE  /\ nfds \in Nat \ {0} /\ nfds <= MaxFds /\ MaxFds \in Nat
         /\ InUse = 1 .. (nfds - 1) /\ InUse \subseteq Slots
         /\ nfds < MaxFds => nfds \in Slots
         /\ i < nfds => i \in InUse
BY SizeAssumption DEF TypeOK, InUse, Slots

LEMMA RemoveType ==
  ASSUME TypeOK, NEW j \in InUse, remove_fd(j), fds[j].conn \in Conns
  PROVE  /\ nfds' \in 1 .. MaxFds
         /\ fds' \in [Slots -> [conn : Conns \cup {NoConn}, revents : Events]]
         /\ addrs' \in [Slots -> Conns \cup {NoConn}]
         /\ state' \in [Conns -> {"new", "backlog", "open", "refused", "closed"}]
<1>1. nfds - 1 \in InUse
  BY SlotFacts
<1>2. nfds - 1 \in Slots /\ j \in Slots
  BY <1>1, SlotFacts
<1>3. QED BY <1>1, <1>2, SlotFacts DEF remove_fd, TypeOK

LEMMA StepType ==
  ASSUME PollInv, Next
  PROVE  TypeOK'
<1>1. TypeOK /\ PrintedAsSent
  BY DEF PollInv
<1>2. \A c \in Conns : unread[c] \in 0 .. MaxUnread /\ owed[c] = unread[c]
  BY <1>1 DEF TypeOK, PrintedAsSent
<1>3. ASSUME AtClient
      PROVE  /\ i \in InUse /\ i \in Slots
             /\ fds[i].conn \in Conns /\ addrs[i] = fds[i].conn
  BY <1>1, <1>3, SlotFacts DEF AtClient, PollInv, TableMatches, EntriesOpen
<1>4. CASE PeerStep
  <2>1. PICK c \in Conns : Connect(c) \/ Send(c) \/ Leave(c)
    BY <1>4 DEF PeerStep
  <2>2. CASE Connect(c)
    BY <1>1, <2>2, SizeAssumption DEF Connect, server, TypeOK
  <2>3. CASE Send(c)
    BY <1>1, <1>2, <2>3, SizeAssumption DEF Send, server, TypeOK
  <2>4. CASE Leave(c)
    BY <1>1, <2>4 DEF Leave, server, TypeOK
  <2>5. QED BY <2>1, <2>2, <2>3, <2>4
<1>5. CASE Interrupt
  BY <1>1, <1>5 DEF Interrupt, kernel, TypeOK
<1>6. CASE TestStop \/ AcceptEnds
  BY <1>1, <1>6 DEF TestStop, AcceptEnds, kernel, TypeOK
<1>7. CASE Cleanup
  BY <1>1, <1>7 DEF Cleanup, TypeOK
<1>8. CASE Poll
  BY <1>1, <1>8 DEF Poll, kernel, TypeOK, Reported, Events
<1>9. ASSUME NEW c \in Conns, Accept(c) \/ Refuse(c)
      PROVE  TypeOK'
  <2>1. CASE Accept(c)
    <3>1. nfds \in Slots /\ nfds + 1 \in 1 .. MaxFds
      BY <1>1, <2>1, SlotFacts DEF Accept
    <3>2. QED BY <1>1, <2>1, <3>1 DEF Accept, TypeOK
  <2>2. CASE Refuse(c)
    BY <1>1, <2>2 DEF Refuse, server, TypeOK
  <2>3. QED BY <1>9, <2>1, <2>2
<1>10. CASE HangUp \/ RecvEnd
  <2>1. remove_fd(i) /\ AtClient
    BY <1>10 DEF HangUp, RecvEnd
  <2>2. QED BY <1>1, <1>3, <1>10, <2>1, RemoveType DEF HangUp, RecvEnd, TypeOK
<1>11. CASE RecvData
  <2>1. AtClient /\ fds[i].conn \in Conns /\ addrs[i] = fds[i].conn
    BY <1>3, <1>11 DEF RecvData
  <2>2. owed[addrs[i]] - 1 \in 0 .. MaxUnread /\ unread[fds[i].conn] - 1 \in 0 .. MaxUnread
    BY <1>2, <1>11, <2>1, SizeAssumption DEF RecvData
  <2>3. QED BY <1>1, <1>11, <2>1, <2>2 DEF RecvData, server, TypeOK
<1>12. CASE NextClient
  <2>1. i + 1 \in 1 .. MaxFds
    BY <1>1, <1>12, SlotFacts DEF NextClient, AtClient, TypeOK
  <2>2. QED BY <1>1, <1>12, <2>1 DEF NextClient, kernel, TypeOK
<1>13. CASE ClientsEnd
  BY <1>1, <1>13, SizeAssumption DEF ClientsEnd, kernel, TypeOK
<1>14. CASE Rest
  BY <1>1, <1>14 DEF Rest, vars, server, kernel, TypeOK
<1>15. QED
  BY <1>4, <1>5, <1>6, <1>7, <1>8, <1>9, <1>10, <1>11, <1>12, <1>13, <1>14
     DEF Next, ServerStep

----------------------------------------------------------------------------
(* The table.                                                              *)

(* remove_fd() of an entry in use leaves the rest of the table as it was:  *)
(* every other connection has an entry, with the same revents and address. *)
LEMMA RemoveKeepsOthers ==
  ASSUME TypeOK, NEW j \in InUse, remove_fd(j)
  PROVE  /\ \A k \in InUse' : \E m \in InUse \ {j} : fds'[k] = fds[m] /\ addrs'[k] = addrs[m]
         /\ \A m \in InUse \ {j} : \E k \in InUse' : fds'[k] = fds[m] /\ addrs'[k] = addrs[m]
         /\ \A k, n \in InUse' : k # n => \E m, o \in InUse \ {j} :
              m # o /\ fds'[k] = fds[m] /\ fds'[n] = fds[o]
<1> DEFINE last == nfds - 1
           origin(k) == IF k = j THEN last ELSE k
<1>1. /\ InUse = 1 .. last /\ InUse' = 1 .. (last - 1) /\ last \in InUse
      /\ InUse \subseteq Slots /\ nfds \in Nat
  <2>1. InUse = 1 .. (nfds - 1) /\ nfds \in Nat \ {0} /\ nfds <= MaxFds /\ MaxFds \in Nat
        /\ InUse \subseteq Slots
    BY SlotFacts
  <2>2. nfds' = nfds - 1
    BY DEF remove_fd
  <2>3. InUse' = {k \in Slots : k < nfds - 1}
    BY <2>2 DEF InUse, Slots
  <2>4. InUse' = 1 .. (nfds - 1 - 1)
    BY <2>1, <2>3 DEF Slots
  <2>5. QED BY <2>1, <2>4
<1>2. \A k \in InUse' : /\ origin(k) \in InUse \ {j}
                        /\ fds'[k] = fds[origin(k)] /\ addrs'[k] = addrs[origin(k)]
  <2>1. TAKE k \in InUse'
  <2>2. k \in Slots /\ j \in Slots /\ k # last
    BY <1>1
  <2>3. fds'[k] = fds[origin(k)] /\ addrs'[k] = addrs[origin(k)]
    BY <2>2 DEF remove_fd, TypeOK
  <2>4. QED BY <1>1, <2>2, <2>3
<1>3. \A m \in InUse \ {j} : \E k \in InUse' : origin(k) = m
  <2>1. TAKE m \in InUse \ {j}
  <2>2. CASE m = last
    <3>1. j \in InUse' /\ origin(j) = m
      BY <1>1, <2>2
    <3>2. QED BY <3>1
  <2>3. CASE m # last
    <3>1. m \in InUse' /\ origin(m) = m
      BY <1>1, <2>3
    <3>2. QED BY <3>1
  <2>4. QED BY <2>2, <2>3
<1>4. \A k, n \in InUse' : k # n => origin(k) # origin(n)
  BY <1>1
<1> HIDE DEF origin
<1>5. QED BY <1>2, <1>3, <1>4

LEMMA RemoveTable ==
  ASSUME TypeOK, EntriesOpen, EntriesDiffer, OpenHaveEntry, NEW j \in InUse, remove_fd(j)
  PROVE  EntriesOpen' /\ EntriesDiffer' /\ OpenHaveEntry'
<1>1. state' = [state EXCEPT ![fds[j].conn] = "closed"] /\ fds[j].conn \in Conns
  BY DEF remove_fd, EntriesOpen
<1>2. \A m \in InUse \ {j} : fds[m].conn # fds[j].conn
  BY DEF EntriesDiffer
<1>3. EntriesOpen'
  <2>1. SUFFICES ASSUME NEW k \in InUse'
                 PROVE  /\ fds'[k].conn \in Conns /\ state'[fds'[k].conn] = "open"
                        /\ addrs'[k] = fds'[k].conn
    BY DEF EntriesOpen
  <2>2. PICK m \in InUse \ {j} : fds'[k] = fds[m] /\ addrs'[k] = addrs[m]
    BY RemoveKeepsOthers
  <2>3. QED BY <1>1, <1>2, <2>2 DEF EntriesOpen, TypeOK
<1>4. EntriesDiffer'
  <2>1. SUFFICES ASSUME NEW k \in InUse', NEW n \in InUse', k # n
                 PROVE  fds'[k].conn # fds'[n].conn
    BY DEF EntriesDiffer
  <2>2. PICK m \in InUse \ {j}, o \in InUse \ {j} :
          m # o /\ fds'[k] = fds[m] /\ fds'[n] = fds[o]
    BY <2>1, RemoveKeepsOthers
  <2>3. QED BY <2>2 DEF EntriesDiffer
<1>5. OpenHaveEntry'
  <2>1. SUFFICES ASSUME NEW c \in Conns, state'[c] = "open"
                 PROVE  \E k \in InUse' : fds'[k].conn = c
    BY DEF OpenHaveEntry
  <2>2. c # fds[j].conn /\ state[c] = "open"
    BY <1>1, <2>1 DEF TypeOK
  <2>3. PICK m \in InUse : fds[m].conn = c
    BY <2>2 DEF OpenHaveEntry
  <2>4. m \in InUse \ {j}
    BY <2>2, <2>3
  <2>5. QED BY <2>3, <2>4, RemoveKeepsOthers
<1>6. QED BY <1>3, <1>4, <1>5

LEMMA AcceptTable ==
  ASSUME TypeOK, EntriesOpen, EntriesDiffer, OpenHaveEntry, NEW c \in Conns, Accept(c)
  PROVE  EntriesOpen' /\ EntriesDiffer' /\ OpenHaveEntry'
<1>1. /\ nfds \in Slots /\ nfds \notin InUse /\ InUse' = InUse \cup {nfds} /\ InUse \subseteq Slots
  <2>1. /\ nfds \in Nat \ {0} /\ MaxFds \in Nat /\ nfds < MaxFds /\ nfds' = nfds + 1
    BY SlotFacts DEF Accept
  <2>2. QED BY <2>1 DEF InUse, Slots
<1>2. /\ fds'[nfds].conn = c /\ addrs'[nfds] = c
      /\ \A j \in InUse : fds'[j] = fds[j] /\ addrs'[j] = addrs[j]
  BY <1>1 DEF Accept, TypeOK
<1>3. state' = [state EXCEPT ![c] = "open"] /\ state[c] = "backlog"
  BY DEF Accept
<1>4. \A j \in InUse : fds[j].conn # c
  BY <1>3 DEF EntriesOpen
<1>5. EntriesOpen'
  BY <1>1, <1>2, <1>3, <1>4 DEF EntriesOpen, TypeOK
<1>6. EntriesDiffer'
  BY <1>1, <1>2, <1>4 DEF EntriesDiffer
<1>7. OpenHaveEntry'
  <2>1. SUFFICES ASSUME NEW d \in Conns, state'[d] = "open"
                 PROVE  \E j \in InUse' : fds'[j].conn = d
    BY DEF OpenHaveEntry
  <2>2. CASE d = c
    BY <1>1, <1>2, <2>2
  <2>3. CASE d # c
    <3>1. state[d] = "open"
      BY <1>3, <2>1, <2>3 DEF TypeOK
    <3>2. PICK j \in InUse : fds[j].conn = d
      BY <3>1 DEF OpenHaveEntry
    <3>3. j \in InUse' /\ fds'[j].conn = d
      BY <1>1, <1>2, <3>2
    <3>4. QED BY <3>3
  <2>4. QED BY <2>2, <2>3
<1>8. QED BY <1>5, <1>6, <1>7

(* A step that neither accepts nor removes, nor stops the server.          *)
LEMMA OtherTable ==
  ASSUME TypeOK, EntriesOpen, EntriesDiffer, OpenHaveEntry,
         nfds' = nfds, addrs' = addrs, \A j \in Slots : fds'[j].conn = fds[j].conn,
         \A c \in Conns : state'[c] = "open" <=> state[c] = "open"
  PROVE  EntriesOpen' /\ EntriesDiffer' /\ OpenHaveEntry'
<1>1. InUse' = InUse /\ InUse \subseteq Slots
  BY DEF InUse
<1>2. \A j \in InUse : fds'[j].conn = fds[j].conn
  BY <1>1
<1>3. QED BY <1>1, <1>2 DEF EntriesOpen, EntriesDiffer, OpenHaveEntry

LEMMA StepTable ==
  ASSUME PollInv, Next
  PROVE  TableMatches'
<1>1. SUFFICES ASSUME pc' # "stopped"
               PROVE  EntriesOpen' /\ EntriesDiffer' /\ OpenHaveEntry'
  BY DEF TableMatches
<1>2. pc # "stopped"
  BY <1>1 DEF Next, ServerStep, TestStop, Cleanup, Poll, Accept, Refuse, AcceptEnds, HangUp,
       RecvData, RecvEnd, NextClient, ClientsEnd, PeerStep, Connect, Send, Leave, Interrupt, Rest,
       AtClient, server, vars
<1>3. TypeOK /\ EntriesOpen /\ EntriesDiffer /\ OpenHaveEntry
  BY <1>2 DEF PollInv, TableMatches
<1>4. ASSUME NEW c \in Conns, Accept(c)
      PROVE  EntriesOpen' /\ EntriesDiffer' /\ OpenHaveEntry'
  BY <1>3, <1>4, AcceptTable
<1>5. CASE HangUp \/ RecvEnd
  <2>1. i \in InUse /\ remove_fd(i)
    BY <1>3, <1>5, SlotFacts DEF HangUp, RecvEnd, AtClient
  <2>2. QED BY <1>3, <2>1, RemoveTable
<1>6. CASE Poll
  <2>1. \A j \in Slots : fds'[j].conn = fds[j].conn
    BY <1>3, <1>6 DEF Poll, TypeOK
  <2>2. QED BY <1>3, <1>6, <2>1, OtherTable DEF Poll, kernel
<1>7. ASSUME NEW c \in Conns, Refuse(c) \/ Connect(c)
      PROVE  EntriesOpen' /\ EntriesDiffer' /\ OpenHaveEntry'
  BY <1>3, <1>7, OtherTable DEF Refuse, Connect, server, TypeOK
<1>8. CASE UNCHANGED <<nfds, fds, addrs, state>>
  BY <1>3, <1>8, OtherTable
<1>9. CASE TestStop \/ AcceptEnds \/ RecvData \/ NextClient \/ ClientsEnd \/ Interrupt \/ Rest
  BY <1>8, <1>9 DEF TestStop, AcceptEnds, RecvData, NextClient, ClientsEnd, Interrupt, Rest,
       server, kernel, vars
<1>10. ASSUME NEW c \in Conns, Send(c) \/ Leave(c)
       PROVE  EntriesOpen' /\ EntriesDiffer' /\ OpenHaveEntry'
  BY <1>8, <1>10 DEF Send, Leave, server
<1>11. ~Cleanup
  BY <1>1 DEF Cleanup
<1>12. QED BY <1>4, <1>5, <1>6, <1>7, <1>9, <1>10, <1>11 DEF Next, ServerStep, PeerStep

----------------------------------------------------------------------------
(* The data.                                                               *)

LEMMA StepPrinted ==
  ASSUME PollInv, Next
  PROVE  PrintedAsSent'
<1>1. TypeOK /\ PrintedAsSent
  BY DEF PollInv
<1>2. \A c \in Conns : unread[c] \in Nat /\ owed[c] \in Nat
  BY <1>1, SizeAssumption DEF TypeOK
<1>3. CASE UNCHANGED <<unread, owed>>
  BY <1>1, <1>3 DEF PrintedAsSent
<1>4. ASSUME NEW c \in Conns, Connect(c) \/ Send(c)
      PROVE  PrintedAsSent'
  BY <1>1, <1>2, <1>4 DEF Connect, Send, PrintedAsSent, TypeOK
<1>5. CASE RecvData
  <2>1. PICK c \in Conns : c = fds[i].conn /\ addrs[i] = c
    BY <1>1, <1>5, SlotFacts DEF RecvData, AtClient, PollInv, TableMatches, EntriesOpen
  <2>2. unread' = [unread EXCEPT ![c] = @ - 1] /\ owed' = [owed EXCEPT ![c] = @ - 1]
    BY <1>5, <2>1 DEF RecvData
  <2>3. QED BY <1>1, <1>2, <2>2 DEF PrintedAsSent, TypeOK
<1>6. CASE TestStop \/ Cleanup \/ Poll \/ AcceptEnds \/ HangUp \/ RecvEnd
           \/ NextClient \/ ClientsEnd \/ Interrupt \/ Rest
  BY <1>3, <1>6 DEF TestStop, Cleanup, Poll, AcceptEnds, HangUp, RecvEnd, NextClient, ClientsEnd,
       Interrupt, Rest, kernel, vars
<1>7. ASSUME NEW c \in Conns, Accept(c) \/ Refuse(c) \/ Leave(c)
      PROVE  PrintedAsSent'
  BY <1>3, <1>7 DEF Accept, Refuse, Leave
<1>8. QED BY <1>4, <1>5, <1>6, <1>7 DEF Next, ServerStep, PeerStep

----------------------------------------------------------------------------
(* The end of a connection.                                                *)

(* A close that the server decides on: the entry it removes is in use, and *)
(* either reports a hang-up or has nothing more to read from a peer gone.  *)
LEMMA RemovalIsDue ==
  ASSUME TypeOK, EntriesOpen, HangUpsAreReal, HangUp \/ RecvEnd
  PROVE  /\ i \in InUse /\ remove_fd(i) /\ fds[i].conn \in Conns
         /\ \/ fds[i].conn \in inherited
            \/ peer[fds[i].conn] = "reset"
            \/ peer[fds[i].conn] = "closed" /\ unread[fds[i].conn] = 0
<1>1. i \in InUse /\ remove_fd(i) /\ fds[i].conn \in Conns
  BY SlotFacts DEF HangUp, RecvEnd, AtClient, EntriesOpen
<1>2. CASE HangUp
  BY <1>1, <1>2 DEF HangUp, HangUpsAreReal
<1>3. CASE RecvEnd
  BY <1>1, <1>3 DEF RecvEnd, TypeOK
<1>4. QED BY <1>1, <1>2, <1>3

LEMMA StepClosed ==
  ASSUME PollInv, Next
  PROVE  ClosedWhenDone'
<1>1. TypeOK /\ ClosedWhenDone
  BY DEF PollInv
<1>2. SUFFICES ASSUME NEW d \in Conns, d \notin inherited', state'[d] = "closed",
                      pc' # "stopped"
               PROVE  peer'[d] = "reset" \/ (peer'[d] = "closed" /\ unread'[d] = 0)
  BY DEF ClosedWhenDone
<1>3. pc # "stopped" /\ ~Cleanup
  BY <1>2 DEF Next, ServerStep, TestStop, Cleanup, Poll, Accept, Refuse, AcceptEnds, HangUp,
       RecvData, RecvEnd, NextClient, ClientsEnd, PeerStep, Connect, Send, Leave, Interrupt, Rest,
       AtClient, server, vars
<1>4. EntriesOpen /\ HangUpsAreReal
  BY <1>3 DEF PollInv, TableMatches
<1>5. CASE HangUp \/ RecvEnd
  <2>1. PICK c \in Conns : c = fds[i].conn
    BY <1>1, <1>4, <1>5, RemovalIsDue
  <2>2. /\ state' = [state EXCEPT ![c] = "closed"]
        /\ UNCHANGED <<peer, unread, inherited>>
    BY <1>5, <2>1 DEF HangUp, RecvEnd, remove_fd
  <2>3. CASE d = c
    BY <1>1, <1>2, <1>4, <1>5, <2>1, <2>2, <2>3, RemovalIsDue
  <2>4. CASE d # c
    BY <1>1, <1>2, <1>3, <2>2, <2>4 DEF ClosedWhenDone, TypeOK
  <2>5. QED BY <2>3, <2>4
<1>6. ASSUME NEW c \in Conns, Accept(c)
      PROVE  peer'[d] = "reset" \/ (peer'[d] = "closed" /\ unread'[d] = 0)
  <2>1. d \notin inherited
    BY <1>2, <1>6 DEF Accept
  <2>2. state[d] = "closed"
    BY <1>1, <1>2, <1>6 DEF Accept, TypeOK
  <2>3. QED BY <1>1, <1>3, <1>6, <2>1, <2>2 DEF Accept, ClosedWhenDone
<1>7. ASSUME NEW c \in Conns, Refuse(c) \/ Connect(c)
      PROVE  peer'[d] = "reset" \/ (peer'[d] = "closed" /\ unread'[d] = 0)
  <2>1. inherited' = inherited /\ c # d /\ state[d] = "closed"
    BY <1>1, <1>2, <1>7 DEF Refuse, Connect, TypeOK
  <2>2. peer'[d] = peer[d] /\ unread'[d] = unread[d]
    BY <1>1, <1>7, <2>1 DEF Refuse, Connect, TypeOK
  <2>3. QED BY <1>1, <1>2, <1>3, <2>1, <2>2 DEF ClosedWhenDone
<1>8. ASSUME NEW c \in Conns, Send(c) \/ Leave(c)
      PROVE  peer'[d] = "reset" \/ (peer'[d] = "closed" /\ unread'[d] = 0)
  <2>1. state' = state /\ inherited' = inherited /\ (state[c] = "backlog" \/ state[c] = "open")
    BY <1>8 DEF Send, Leave, Live
  <2>2. c # d
    BY <1>2, <2>1
  <2>3. peer'[d] = peer[d] /\ unread'[d] = unread[d]
    BY <1>1, <1>8, <2>2 DEF Send, Leave, TypeOK
  <2>4. QED BY <1>1, <1>2, <1>3, <2>1, <2>3 DEF ClosedWhenDone
<1>9. CASE RecvData
  <2>1. PICK c \in Conns : c = fds[i].conn /\ state[c] = "open"
    BY <1>1, <1>4, <1>9, SlotFacts DEF RecvData, AtClient, EntriesOpen
  <2>2. UNCHANGED <<state, peer, inherited>> /\ unread' = [unread EXCEPT ![c] = @ - 1]
    BY <1>9, <2>1 DEF RecvData
  <2>3. c # d
    BY <1>2, <2>1, <2>2
  <2>4. QED BY <1>1, <1>2, <1>3, <2>2, <2>3 DEF ClosedWhenDone, TypeOK
<1>10. CASE TestStop \/ Poll \/ AcceptEnds \/ NextClient \/ ClientsEnd \/ Interrupt \/ Rest
  <2>1. UNCHANGED <<state, peer, unread, inherited>>
    BY <1>10 DEF TestStop, Poll, AcceptEnds, NextClient, ClientsEnd, Interrupt, Rest, kernel, vars
  <2>2. QED BY <1>1, <1>2, <1>3, <2>1 DEF ClosedWhenDone
<1>11. QED BY <1>3, <1>5, <1>6, <1>7, <1>8, <1>9, <1>10 DEF Next, ServerStep, PeerStep

(* An entry whose connection, revents and claim to them are kept.          *)
LEMMA KeptHangUps ==
  ASSUME HangUpsAreReal,
         inherited \subseteq inherited',
         \A m \in InUse : peer[fds[m].conn] = "reset" => peer'[fds[m].conn] = "reset",
         \A k \in InUse' : \E m \in InUse : fds'[k] = fds[m] /\ fds[m].conn \in Conns
  PROVE  HangUpsAreReal'
<1>1. SUFFICES ASSUME NEW k \in InUse', fds'[k].revents = "hup"
               PROVE  fds'[k].conn \in inherited' \/ peer'[fds'[k].conn] = "reset"
  BY DEF HangUpsAreReal
<1>2. PICK m \in InUse : fds'[k] = fds[m] /\ fds[m].conn \in Conns
  OBVIOUS
<1>3. fds[m].conn \in inherited \/ peer[fds[m].conn] = "reset"
  BY <1>1, <1>2 DEF HangUpsAreReal
<1>4. QED BY <1>2, <1>3

LEMMA StepHangUps ==
  ASSUME PollInv, Next, pc' # "stopped"
  PROVE  HangUpsAreReal'
<1>1. pc # "stopped" /\ ~Cleanup
  BY DEF Next, ServerStep, TestStop, Cleanup, Poll, Accept, Refuse, AcceptEnds, HangUp,
       RecvData, RecvEnd, NextClient, ClientsEnd, PeerStep, Connect, Send, Leave, Interrupt, Rest,
       AtClient, server, vars
<1>2. TypeOK /\ EntriesOpen /\ HangUpsAreReal
  BY <1>1 DEF PollInv, TableMatches
<1>3. \A m \in InUse : fds[m].conn \in Conns
  BY <1>2 DEF EntriesOpen
<1>4. CASE Poll
  <2>1. InUse' = InUse /\ InUse \subseteq Slots
    BY <1>4 DEF Poll, InUse
  <2>2. ASSUME NEW k \in InUse, fds'[k].revents = "hup"
        PROVE  peer'[fds'[k].conn] = "reset"
    <3>1. k \in Slots
      BY <2>1
    <3>2. fds'[k].conn = fds[k].conn /\ fds'[k].revents = Reported(fds[k].conn) /\ peer' = peer
      BY <1>2, <1>4, <3>1 DEF Poll, kernel, TypeOK
    <3>3. Reported(fds[k].conn) = "hup"
      BY <2>2, <3>2
    <3>4. peer[fds[k].conn] = "reset"
      BY <3>3 DEF Reported
    <3>5. QED BY <3>2, <3>4
  <2>3. QED BY <2>1, <2>2 DEF HangUpsAreReal
<1>5. ASSUME NEW c \in Conns, Accept(c)
      PROVE  HangUpsAreReal'
  <2>1. /\ nfds \in Slots /\ InUse' = InUse \cup {nfds} /\ nfds \notin InUse /\ InUse \subseteq Slots
    <3>1. nfds \in Nat \ {0} /\ MaxFds \in Nat /\ nfds < MaxFds /\ nfds' = nfds + 1
      BY <1>2, <1>5, SlotFacts DEF Accept
    <3>2. QED BY <3>1 DEF InUse, Slots
  <2>2. /\ fds'[nfds].conn = c /\ fds'[nfds].revents = fds[nfds].revents
        /\ \A m \in InUse : fds'[m] = fds[m]
    BY <1>2, <1>5, <2>1 DEF Accept, TypeOK
  <2>3. peer' = peer /\ inherited \subseteq inherited'
        /\ (fds[nfds].revents = "hup" => c \in inherited')
    BY <1>5 DEF Accept
  <2>4. ASSUME NEW k \in InUse, fds'[k].revents = "hup"
        PROVE  fds'[k].conn \in inherited' \/ peer'[fds'[k].conn] = "reset"
    BY <1>2, <2>2, <2>3, <2>4 DEF HangUpsAreReal
  <2>5. QED BY <2>1, <2>2, <2>3, <2>4 DEF HangUpsAreReal
<1>6. CASE HangUp \/ RecvEnd
  <2>1. i \in InUse /\ remove_fd(i)
    BY <1>2, <1>6, RemovalIsDue
  <2>2. peer' = peer /\ inherited' = inherited
    BY <1>6 DEF HangUp, RecvEnd
  <2>3. \A k \in InUse' : \E m \in InUse : fds'[k] = fds[m] /\ fds[m].conn \in Conns
    BY <1>2, <1>3, <2>1, RemoveKeepsOthers
  <2>4. QED BY <1>2, <2>2, <2>3, KeptHangUps
<1>7. CASE UNCHANGED <<nfds, fds, peer, inherited>>
  BY <1>2, <1>7 DEF HangUpsAreReal, InUse
<1>8. CASE TestStop \/ AcceptEnds \/ RecvData \/ NextClient \/ ClientsEnd \/ Interrupt \/ Rest
  BY <1>7, <1>8 DEF TestStop, AcceptEnds, RecvData, NextClient, ClientsEnd, Interrupt, Rest,
       server, kernel, vars
<1>9. ASSUME NEW c \in Conns, Refuse(c) \/ Send(c)
      PROVE  HangUpsAreReal'
  BY <1>7, <1>9 DEF Refuse, Send, server
<1>10. ASSUME NEW c \in Conns, Connect(c) \/ Leave(c)
       PROVE  HangUpsAreReal'
  <2>1. \A m \in InUse : peer[fds[m].conn] = "reset" => peer'[fds[m].conn] = "reset"
    <3>1. \A m \in InUse : state[fds[m].conn] = "open" /\ fds[m].conn \in Conns
      BY <1>2 DEF EntriesOpen
    <3>2. QED BY <1>2, <1>10, <3>1 DEF Connect, Leave, Live, TypeOK
  <2>2. InUse' = InUse /\ fds' = fds /\ inherited' = inherited
    BY <1>10 DEF Connect, Leave, server, InUse
  <2>3. QED BY <1>2, <1>3, <2>1, <2>2, KeptHangUps
<1>11. QED BY <1>1, <1>4, <1>5, <1>6, <1>8, <1>9, <1>10 DEF Next, ServerStep, PeerStep

----------------------------------------------------------------------------
(* The theorems.                                                           *)

LEMMA StutterInv == PollInv /\ UNCHANGED vars => PollInv'
BY DEF PollInv, TypeOK, TableMatches, EntriesOpen, EntriesDiffer, OpenHaveEntry, InUse,
       PrintedAsSent, ClosedWhenDone, HangUpsAreReal, vars, server, kernel

(* The invariant of the event loop (lines 135-249): the table matches the  *)
(* open connections, the data printed is the data sent, connections are    *)
(* closed when they are done, and hang-ups reported are real or inherited. *)
THEOREM PollInvariant == Spec => []PollInv
<1>1. Init => PollInv
  BY InitInv
<1>2. PollInv /\ [Next]_vars => PollInv'
  <2>1. SUFFICES ASSUME PollInv, Next PROVE PollInv'
    BY StutterInv
  <2>2. QED BY <2>1, StepType, StepTable, StepPrinted, StepClosed, StepHangUps DEF PollInv
<1>3. QED BY <1>1, <1>2, PTL DEF Spec

(* The table stays within MAX_FDS entries, and every count within bounds.  *)
THEOREM TypeCorrect == Spec => []TypeOK
<1>1. PollInv => TypeOK
  BY DEF PollInv
<1>2. QED BY <1>1, PollInvariant, PTL

(* remove_fd() and accept() keep one entry per open connection, with its   *)
(* own peer's address, at every step of the two loops.                     *)
THEOREM TableMatchesHolds == Spec => []TableMatches
<1>1. PollInv => TableMatches
  BY DEF PollInv
<1>2. QED BY <1>1, PollInvariant, PTL

(* What is printed under a peer's address is what that peer has sent.      *)
THEOREM PrintedAsSentHolds == Spec => []PrintedAsSent
<1>1. PollInv => PrintedAsSent
  BY DEF PollInv
<1>2. QED BY <1>1, PollInvariant, PTL

(* Apart from inherited hang-ups, no connection is closed under its peer.  *)
THEOREM ClosedWhenDoneHolds == Spec => []ClosedWhenDone
<1>1. PollInv => ClosedWhenDone
  BY DEF PollInv
<1>2. QED BY <1>1, PollInvariant, PTL
=============================================================================
