----------------------------- MODULE ChatProofs -----------------------------
(***************************************************************************)
(* Theorems about Chat, for any set of clients, any size of the table and  *)
(* any number of sends.                                                    *)
(***************************************************************************)
EXTENDS Chat, TLAPS

LEMMA InitInv == Init => ChatInv
<1> SUFFICES ASSUME Init PROVE ChatInv
  OBVIOUS
<1>1. TypeOK
  <2>1. fds \in [Slots -> [conn : Conns \cup {Nobody}, revents : {"none", "in"}]]
    BY DEF Init
  <2>2. QED BY <2>1, SizeAssumption DEF Init, TypeOK, Counts
<1>2. InUse = {}
  BY DEF Init, InUse, Slots
<1>3. EntriesNameClients /\ TableMatches
  BY <1>2 DEF Init, EntriesNameClients, TableMatches
<1>4. NothingHeardBefore /\ WrongNamesInherited /\ PassingOn /\ HeardByAll
  BY DEF Init, NothingHeardBefore, WrongNamesInherited, PassingOn, HeardByAll
<1>5. QED BY <1>1, <1>3, <1>4 DEF ChatInv

LEMMA StutterInv == ChatInv /\ UNCHANGED vars => ChatInv'
BY DEF ChatInv, TypeOK, EntriesNameClients, NothingHeardBefore, WrongNamesInherited, TableMatches,
       PassingOn, HeardByAll, StillComing, Running, InUse, vars, entries, passing, kernel, talk,
       history

(* A server that has ended does nothing, and its clients are at their end. *)
LEMMA DeadRests == Next /\ ~Running => UNCHANGED vars
BY DEF Running, Next, ServerStep, ClientStep, Poll, Accept, Refuse, ReadName, ReadLine, SendOne,
       SendFails, SendEnd, ReadEnd, ReadFails, NextClient, ClientsEnd, AtClient, Connect, SendName,
       SendLine, Send, Leave, Live, Rest

----------------------------------------------------------------------------
(* What is read at the entry the loop has reached.                         *)

LEMMA SlotFacts ==
  ASSUME TypeOK
  PROVE  /\ MaxSize \in Nat \ {0} /\ sz \in Nat \ {0} /\ sz <= MaxSize
         /\ InUse = 1 .. (sz - 1) /\ InUse \subseteq Slots
         /\ sz < MaxSize => sz \in Slots
         /\ i \in Nat \ {0} /\ (i < sz => i \in InUse)
BY SizeAssumption DEF TypeOK, InUse, Slots

LEMMA EntryFacts ==
  ASSUME ChatInv, AtClient
  PROVE  /\ pc = "clients" /\ i \in InUse /\ i \in Slots /\ sz - 1 \in InUse /\ i + 1 \in 1 .. MaxSize
         /\ fds[i].conn \in Conns /\ state[fds[i].conn] = "open"
<1>1. TypeOK /\ EntriesNameClients /\ TableMatches /\ Running
  BY DEF ChatInv, AtClient, Running
<1>2. i \in InUse /\ sz - 1 \in InUse /\ i + 1 \in 1 .. MaxSize
  BY <1>1, SlotFacts DEF AtClient
<1>3. QED BY <1>1, <1>2, SlotFacts DEF AtClient, EntriesNameClients, TableMatches

(* What has been read was sent, so no count outgrows that of the sends.    *)
LEMMA CountFacts ==
  ASSUME ChatInv, NEW c \in Conns
  PROVE  /\ sent[c] \in Nat /\ unread[c] \in Nat /\ named[c] \in Nat /\ spoken[c] \in Nat
         /\ sent[c] <= MaxSends /\ MaxSends \in Nat
         /\ named[c] + spoken[c] + unread[c] = sent[c]
         /\ unread[c] <= MaxSends
         /\ \A n \in 1 .. unread[c] :
              /\ n \in Nat /\ unread[c] - n \in Counts
              /\ named[c] + n \in Counts /\ spoken[c] + n \in Counts
<1>1. TypeOK /\ HeardByAll
  BY DEF ChatInv
<1>2. /\ sent[c] \in Nat /\ unread[c] \in Nat /\ named[c] \in Nat /\ spoken[c] \in Nat
      /\ sent[c] <= MaxSends /\ MaxSends \in Nat
  BY <1>1, SizeAssumption DEF TypeOK, Counts
<1>3. named[c] + spoken[c] + unread[c] = sent[c]
  BY <1>1 DEF HeardByAll
<1>4. QED BY <1>2, <1>3 DEF Counts

(* A line that was read is the speaker's, and nothing was on its way.      *)
LEMMA ReadLineFacts ==
  ASSUME ChatInv, ReadLine
  PROVE  \E c \in Conns, n \in Nat :
           /\ c = fds[i].conn /\ n > 0 /\ line' = n /\ n \in Counts /\ line = 0
           /\ unread' \in [Conns -> Counts] /\ spoken' \in [Conns -> Counts]
           /\ unread'[c] = unread[c] - n /\ spoken'[c] = spoken[c] + n
           /\ \A d \in Conns \ {c} : unread'[d] = unread[d] /\ spoken'[d] = spoken[d]
<1> DEFINE c == fds[i].conn
<1>1. TypeOK /\ AtClient
  BY DEF ChatInv, ReadLine
<1>2. c \in Conns
  BY <1>1, EntryFacts
<1>3. PICK n \in 1 .. unread[c] :
        /\ unread' = [unread EXCEPT ![c] = @ - n]
        /\ spoken' = [spoken EXCEPT ![c] = @ + n]
        /\ line' = n
  BY DEF ReadLine
<1>4. /\ n \in Nat /\ n > 0 /\ n \in Counts /\ unread[c] - n \in Counts
      /\ spoken[c] + n \in Counts
  BY <1>1, <1>2, <1>3, CountFacts DEF Counts
<1>5. line = 0
  BY <1>1, SizeAssumption DEF AtClient, ChatInv, PassingOn, TypeOK, Counts
<1>6. /\ unread' \in [Conns -> Counts] /\ spoken' \in [Conns -> Counts]
      /\ unread'[c] = unread[c] - n /\ spoken'[c] = spoken[c] + n
      /\ \A d \in Conns \ {c} : unread'[d] = unread[d] /\ spoken'[d] = spoken[d]
  BY <1>1, <1>2, <1>3, <1>4 DEF TypeOK
<1>7. QED BY <1>2, <1>3, <1>4, <1>5, <1>6

(* The entry a broadcast has reached is in use, and is another client's    *)
(* than the speaker's unless it is the speaker's own.                      *)
LEMMA SendFacts ==
  ASSUME ChatInv, pc = "send"
  PROVE  /\ i \in InUse /\ fds[i].conn \in Conns /\ line \in Nat \ {0} /\ i + 1 \in 1 .. MaxSize
         /\ to < sz => /\ to \in InUse /\ to + 1 \in 1 .. sz /\ to + 1 \in 1 .. MaxSize
                       /\ fds[to].conn \in Conns /\ state[fds[to].conn] = "open"
                       /\ fds[to].conn = fds[i].conn <=> to = i
<1>1. TypeOK /\ EntriesNameClients /\ TableMatches /\ Running /\ PassingOn
  BY DEF ChatInv, Running
<1>2. line \in Nat \ {0} /\ i < sz /\ to \in Nat \ {0}
  BY <1>1, SizeAssumption DEF PassingOn, TypeOK, Counts
<1>3. i \in InUse /\ i + 1 \in 1 .. MaxSize
  BY <1>1, <1>2, SlotFacts
<1>4. to < sz => to \in InUse /\ to + 1 \in 1 .. sz /\ to + 1 \in 1 .. MaxSize
  BY <1>1, <1>2, SlotFacts
<1>5. QED BY <1>1, <1>2, <1>3, <1>4 DEF EntriesNameClients, TableMatches

(* One send of the broadcast.  Who hears it had heard less than was spoken *)
LEMMA SendOneFacts ==
  ASSUME ChatInv, SendOne
  PROVE  \E c \in Conns, d \in Conns :
           /\ c = fds[i].conn /\ d = fds[to].conn /\ to \in InUse /\ state[d] = "open"
           /\ heard' \in [Conns -> [Conns -> Counts]]
           /\ \A e \in Conns, x \in Conns :
                heard'[e][x] = IF e = d /\ x = c /\ d # c THEN heard[e][x] + line ELSE heard[e][x]
<1> DEFINE c == fds[i].conn
           d == fds[to].conn
<1>1. TypeOK /\ HeardByAll /\ pc = "send" /\ to < sz
  BY DEF ChatInv, SendOne
<1>2. c \in Conns /\ d \in Conns /\ to \in InUse /\ state[d] = "open" /\ (d = c <=> to = i)
      /\ line \in Nat \ {0}
  BY <1>1, SendFacts
<1>3. CASE to = i
  BY <1>1, <1>2, <1>3 DEF SendOne, TypeOK
<1>4. CASE to # i
  <2>1. heard' = [heard EXCEPT ![d][c] = @ + line]
    BY <1>4 DEF SendOne
  <2>2. StillComing(d, c) = line
    BY <1>1, <1>2, SlotFacts DEF StillComing
  <2>3. heard[d][c] = spoken[c] - missed[d][c] - line
    BY <1>1, <1>2, <1>4, <2>2 DEF HeardByAll
  <2>4. spoken[c] \in Counts /\ missed[d][c] \in Counts /\ heard[d][c] \in Counts
    BY <1>1, <1>2 DEF TypeOK
  <2>5. heard[d][c] + line \in Counts
    BY <1>2, <2>3, <2>4, SizeAssumption DEF Counts
  <2>6. heard[d] \in [Conns -> Counts] /\ heard \in [Conns -> [Conns -> Counts]]
    BY <1>1, <1>2 DEF TypeOK
  <2>7. [heard[d] EXCEPT ![c] = @ + line] \in [Conns -> Counts]
    BY <2>5, <2>6
  <2>8. heard' \in [Conns -> [Conns -> Counts]]
    BY <2>1, <2>6, <2>7
  <2>9. \A e \in Conns, x \in Conns :
          heard'[e][x] = IF e = d /\ x = c THEN heard[e][x] + line ELSE heard[e][x]
    BY <1>2, <2>1, <2>6
  <2>10. QED BY <1>2, <1>4, <2>8, <2>9
<1>5. QED BY <1>3, <1>4

LEMMA ReadNameFacts ==
  ASSUME ChatInv, ReadName
  PROVE  \E c \in Conns, n \in Nat :
           /\ c = fds[i].conn
           /\ unread' \in [Conns -> Counts] /\ named' \in [Conns -> Counts]
           /\ unread'[c] = unread[c] - n /\ named'[c] = named[c] + n
           /\ \A d \in Conns \ {c} : unread'[d] = unread[d] /\ named'[d] = named[d]
           /\ names' = [names EXCEPT ![i] = c] /\ i \in InUse
<1> DEFINE c == fds[i].conn
<1>1. TypeOK /\ AtClient /\ Running
  BY DEF ChatInv, ReadName, AtClient, Running
<1>2. c \in Conns /\ i \in InUse
  BY <1>1, EntryFacts
<1>3. PICK n \in 1 .. unread[c] :
        /\ unread' = [unread EXCEPT ![c] = @ - n]
        /\ named' = [named EXCEPT ![c] = @ + n]
  BY DEF ReadName
<1>4. n \in Nat /\ unread[c] - n \in Counts /\ named[c] + n \in Counts
  BY <1>2, <1>3, CountFacts
<1>5. /\ unread' \in [Conns -> Counts] /\ named' \in [Conns -> Counts]
      /\ unread'[c] = unread[c] - n /\ named'[c] = named[c] + n
      /\ \A d \in Conns \ {c} : unread'[d] = unread[d] /\ named'[d] = named[d]
  BY <1>1, <1>2, <1>3, <1>4 DEF TypeOK
<1>6. names' = [names EXCEPT ![i] = c]
  BY DEF ReadName
<1>7. QED BY <1>2, <1>4, <1>5, <1>6

----------------------------------------------------------------------------
(* The types.                                                              *)

LEMMA StepType ==
  ASSUME ChatInv, Next
  PROVE  TypeOK'
<1>1. TypeOK
  BY DEF ChatInv
<1>2. CASE Poll
  BY <1>1, <1>2 DEF Poll, TypeOK, passing, kernel, talk, history
<1>3. ASSUME NEW c \in Conns, Accept(c)
      PROVE  TypeOK'
  <2>1. sz \in Slots /\ sz + 1 \in 1 .. MaxSize
    BY <1>1, <1>3, SlotFacts DEF Accept
  <2>2. missed' \in [Conns -> [Conns -> Counts]]
    BY <1>1, <1>3 DEF Accept, TypeOK
  <2>3. fds' \in [Slots -> [conn : Conns \cup {Nobody}, revents : {"none", "in"}]]
    BY <1>1, <1>3, <2>1 DEF Accept, TypeOK
  <2>4. QED BY <1>1, <1>3, <2>1, <2>2, <2>3 DEF Accept, TypeOK, passing, talk
<1>4. ASSUME NEW c \in Conns, Refuse(c)
      PROVE  TypeOK'
  BY <1>1, <1>4 DEF Refuse, TypeOK, entries, passing, talk, history
<1>5. CASE ReadName
  <2>1. i + 1 \in 1 .. MaxSize
    BY <1>5, EntryFacts DEF ReadName
  <2>2. unread' \in [Conns -> Counts] /\ named' \in [Conns -> Counts]
        /\ names' \in [Slots -> Conns \cup {Nobody}]
    BY <1>1, <1>5, ReadNameFacts DEF TypeOK
  <2>3. QED BY <1>1, <1>5, <2>1, <2>2 DEF ReadName, TypeOK, passing, history
<1>6. CASE ReadLine
  <2>1. /\ unread' \in [Conns -> Counts] /\ spoken' \in [Conns -> Counts]
        /\ line' \in Counts /\ fds[i].conn \in Conns
    BY <1>6, ReadLineFacts
  <2>2. QED BY <1>1, <1>6, <2>1, SizeAssumption DEF ReadLine, TypeOK, entries, history
<1>7. CASE SendFails \/ ReadFails
  BY <1>1, <1>7 DEF SendFails, ReadFails, TypeOK, entries, passing, kernel, talk, history
<1>8. CASE ReadEnd
  <2>1. i \in Slots /\ sz - 1 \in Slots /\ sz - 1 \in 1 .. MaxSize
    BY <1>1, <1>8, EntryFacts, SlotFacts DEF ReadEnd
  <2>2. QED BY <1>1, <1>8, <2>1 DEF ReadEnd, TypeOK, passing, talk, history
<1>9. CASE NextClient
  <2>1. i + 1 \in 1 .. MaxSize
    BY <1>1, <1>9, SlotFacts DEF NextClient
  <2>2. QED BY <1>1, <1>9, <2>1 DEF NextClient, TypeOK, entries, passing, kernel, talk, history
<1>10. CASE ClientsEnd
  BY <1>1, <1>10, SizeAssumption DEF ClientsEnd, TypeOK, entries, passing, kernel, talk, history
<1>11. ASSUME NEW c \in Conns, Connect(c) \/ Leave(c)
       PROVE  TypeOK'
  BY <1>1, <1>11 DEF Connect, Leave, TypeOK, entries, passing, talk, history
<1>12. ASSUME NEW c \in Conns, Send(c)
       PROVE  TypeOK'
  <2>1. named[c] + spoken[c] + unread[c] = sent[c] /\ sent[c] < MaxSends
    BY <1>12, CountFacts DEF Send
  <2>2. sent[c] + 1 \in Counts /\ unread[c] + 1 \in Counts
    BY <2>1, CountFacts DEF Counts
  <2>3. QED BY <1>1, <1>12, <2>2 DEF Send, TypeOK, entries, passing, talk, history
<1>13. CASE Rest
  BY <1>1, <1>13 DEF Rest, TypeOK, vars, entries, passing, kernel, talk, history
<1>14. CASE SendOne
  <2>1. heard' \in [Conns -> [Conns -> Counts]]
    BY <1>14, SendOneFacts
  <2>2. to + 1 \in 1 .. MaxSize
    BY <1>14, SendFacts DEF SendOne
  <2>3. QED BY <1>1, <1>14, <2>1, <2>2 DEF SendOne, TypeOK, entries, kernel, history
<1>15. CASE SendEnd
  <2>1. i + 1 \in 1 .. MaxSize /\ 1 \in 1 .. MaxSize /\ 0 \in Counts
    BY <1>15, SendFacts, SizeAssumption DEF SendEnd, Counts
  <2>2. QED BY <1>1, <1>15, <2>1 DEF SendEnd, TypeOK, entries, kernel, talk, history
<1>16. QED
  BY <1>2, <1>3, <1>4, <1>5, <1>6, <1>7, <1>8, <1>9, <1>10, <1>11, <1>12, <1>13, <1>14, <1>15
     DEF Next, ServerStep, ClientStep, SendName, SendLine

----------------------------------------------------------------------------
(* The table.                                                              *)

(* The two parts that speak of the table, without the names.               *)
Matched ==
  /\ EntriesNameClients
  /\ \A j \in InUse : state[fds[j].conn] = "open"
  /\ \A j, k \in InUse : fds[j].conn = fds[k].conn => j = k
  /\ \A c \in Conns : state[c] = "open" => \E j \in InUse : fds[j].conn = c
NamesOwn ==
  \A j \in InUse : names[j] \in {Nobody, fds[j].conn} \/ fds[j].conn \in inherited

LEMMA TableParts == /\ ChatInv /\ Running => Matched /\ NamesOwn
                    /\ Matched' /\ NamesOwn' => EntriesNameClients' /\ TableMatches'
BY DEF ChatInv, TableMatches, Matched, NamesOwn

(* Nothing that leaves the connections of the entries and the open clients *)
(* alone, and the names, disturbs the table.                               *)
LEMMA TableKept ==
  ASSUME ChatInv, Running,
         UNCHANGED <<sz, names, inherited>>,
         \A j \in InUse : fds'[j].conn = fds[j].conn,
         \A c \in Conns : state'[c] = "open" <=> state[c] = "open"
  PROVE  Matched' /\ NamesOwn'
<1>1. Matched /\ NamesOwn /\ InUse' = InUse
  BY TableParts DEF InUse
<1>2. QED BY <1>1 DEF Matched, NamesOwn, EntriesNameClients

LEMMA AcceptTable ==
  ASSUME ChatInv, NEW c \in Conns, Accept(c)
  PROVE  Matched' /\ NamesOwn'
<1>1. TypeOK /\ Matched /\ NamesOwn
  BY TableParts DEF ChatInv, Accept, Running
<1>2. /\ sz \in Slots /\ InUse' = InUse \cup {sz} /\ sz \notin InUse /\ InUse \subseteq Slots
  BY <1>1, SlotFacts DEF Accept, InUse, Slots
<1>3. /\ fds'[sz].conn = c /\ \A j \in InUse : fds'[j].conn = fds[j].conn
      /\ state'[c] = "open" /\ \A d \in Conns \ {c} : state'[d] = state[d]
      /\ names' = names /\ state[c] = "backlog"
      /\ inherited' = IF names[sz] # Nobody THEN inherited \cup {c} ELSE inherited
  BY <1>1, <1>2 DEF Accept, TypeOK
<1>4. \A j \in InUse : fds[j].conn \in Conns \ {c}
  BY <1>1, <1>3 DEF Matched, EntriesNameClients
<1>5. \A j \in InUse' : fds'[j].conn \in Conns /\ state'[fds'[j].conn] = "open"
  BY <1>1, <1>2, <1>3, <1>4 DEF Matched
<1>6. \A j, k \in InUse' : fds'[j].conn = fds'[k].conn => j = k
  BY <1>1, <1>2, <1>3, <1>4 DEF Matched
<1>7. \A d \in Conns : state'[d] = "open" => \E j \in InUse' : fds'[j].conn = d
  BY <1>1, <1>2, <1>3 DEF Matched
<1>8. NamesOwn'
  BY <1>1, <1>2, <1>3 DEF NamesOwn
<1>9. QED BY <1>5, <1>6, <1>7, <1>8 DEF Matched, EntriesNameClients

(* The entry that is over goes and the last one takes its place: the       *)
(* others keep one entry each, with its name.                              *)
LEMMA ReadEndTable ==
  ASSUME ChatInv, ReadEnd
  PROVE  Matched' /\ NamesOwn'
<1> DEFINE c == fds[i].conn
           last == sz - 1
<1>1. TypeOK /\ Matched /\ NamesOwn /\ AtClient
  BY TableParts DEF ChatInv, ReadEnd, AtClient, Running
<1>2. i \in InUse /\ last \in InUse /\ InUse \subseteq Slots /\ c \in Conns
  BY <1>1, EntryFacts, SlotFacts
<1>3. InUse' = InUse \ {last}
  BY <1>1, SlotFacts DEF ReadEnd, InUse, Slots
<1>4. /\ \A j \in InUse \ {i} : fds'[j] = fds[j] /\ names'[j] = names[j]
      /\ fds'[i] = fds[last] /\ names'[i] = names[last]
      /\ state'[c] = "closed" /\ \A d \in Conns \ {c} : state'[d] = state[d]
      /\ inherited' = inherited
  BY <1>1, <1>2 DEF ReadEnd, TypeOK, history
<1>5. \A j \in InUse' : \E m \in InUse \ {i} :
        fds'[j] = fds[m] /\ names'[j] = names[m] /\ m = IF j = i THEN last ELSE j
  BY <1>2, <1>3, <1>4
<1>6. \A m \in InUse \ {i} : \E j \in InUse' : fds'[j] = fds[m]
  <2> TAKE m \in InUse \ {i}
  <2>1. CASE m = last
    <3>1. i \in InUse' /\ fds'[i] = fds[m]
      BY <1>2, <1>3, <1>4, <2>1
    <3>2. QED BY <3>1
  <2>2. CASE m # last
    <3>1. m \in InUse' /\ fds'[m] = fds[m]
      BY <1>3, <1>4, <2>2
    <3>2. QED BY <3>1
  <2>3. QED BY <2>1, <2>2
<1>7. \A m \in InUse \ {i} : fds[m].conn \in Conns \ {c}
  BY <1>1, <1>2 DEF Matched, EntriesNameClients
<1>8. \A j \in InUse' : fds'[j].conn \in Conns /\ state'[fds'[j].conn] = "open"
  BY <1>1, <1>4, <1>5, <1>7 DEF Matched
<1>9. ASSUME NEW j \in InUse', NEW k \in InUse', fds'[j].conn = fds'[k].conn
      PROVE  j = k
  <2>1. PICK m \in InUse \ {i} : fds'[j] = fds[m] /\ m = IF j = i THEN last ELSE j
    BY <1>5
  <2>2. PICK n \in InUse \ {i} : fds'[k] = fds[n] /\ n = IF k = i THEN last ELSE k
    BY <1>5
  <2>3. m = n
    BY <1>1, <1>9, <2>1, <2>2 DEF Matched
  <2>4. j # last /\ k # last
    BY <1>3
  <2>5. QED BY <2>1, <2>2, <2>3, <2>4
<1>10. \A d \in Conns : state'[d] = "open" => \E j \in InUse' : fds'[j].conn = d
  BY <1>1, <1>4, <1>6 DEF Matched
<1>11. NamesOwn'
  BY <1>1, <1>4, <1>5 DEF NamesOwn
<1>12. QED BY <1>8, <1>9, <1>10, <1>11 DEF Matched, EntriesNameClients

LEMMA StepTable ==
  ASSUME ChatInv, Next
  PROVE  EntriesNameClients' /\ TableMatches'
<1>1. TypeOK /\ EntriesNameClients /\ TableMatches
  BY DEF ChatInv
<1>2. CASE Running
  <2>1. SUFFICES Matched' /\ NamesOwn'
    BY TableParts
  <2>2. ASSUME NEW c \in Conns, Accept(c)
        PROVE  Matched' /\ NamesOwn'
    BY <2>2, AcceptTable
  <2>3. CASE ReadEnd
    BY <2>3, ReadEndTable
  <2>4. CASE ReadName
    <3>1. Matched /\ NamesOwn /\ i \in InUse /\ InUse \subseteq Slots
      BY <1>1, <1>2, <2>4, TableParts, EntryFacts, SlotFacts DEF ReadName
    <3>2. UNCHANGED <<sz, fds, state, inherited>> /\ InUse' = InUse
      BY <2>4 DEF ReadName, InUse, history
    <3>3. names'[i] = fds[i].conn /\ \A j \in InUse \ {i} : names'[j] = names[j]
      BY <1>1, <2>4, <3>1 DEF ReadName, TypeOK
    <3>4. QED BY <3>1, <3>2, <3>3 DEF Matched, NamesOwn, EntriesNameClients
  <2>5. CASE Poll
    <3>1. \A j \in InUse : fds'[j].conn = fds[j].conn
      BY <1>1, <2>5, SlotFacts DEF Poll, TypeOK
    <3>2. UNCHANGED <<sz, names, inherited, state>>
      BY <2>5 DEF Poll, kernel, history
    <3>3. QED BY <1>2, <3>1, <3>2, TableKept
  <2>6. CASE \/ ReadLine \/ SendOne \/ SendFails \/ SendEnd \/ ReadFails \/ NextClient
             \/ ClientsEnd \/ Rest
             \/ \E c \in Conns : SendName(c) \/ SendLine(c) \/ Leave(c)
    <3>1. UNCHANGED <<sz, fds, names, inherited, state>>
      BY <2>6 DEF ReadLine, SendOne, SendFails, SendEnd, ReadFails, NextClient, ClientsEnd, Rest,
                  SendName, SendLine, Send, Leave, vars, entries, kernel, history
    <3>2. QED BY <1>2, <3>1, TableKept
  <2>7. ASSUME NEW c \in Conns, Refuse(c) \/ Connect(c)
        PROVE  Matched' /\ NamesOwn'
    <3>1. UNCHANGED <<sz, fds, names, inherited>>
      BY <2>7 DEF Refuse, Connect, entries, history
    <3>2. \A d \in Conns : state'[d] = "open" <=> state[d] = "open"
      BY <1>1, <2>7 DEF Refuse, Connect, TypeOK
    <3>3. QED BY <1>2, <3>1, <3>2, TableKept
  <2>8. QED BY <2>2, <2>3, <2>4, <2>5, <2>6, <2>7 DEF Next, ServerStep, ClientStep
<1>3. CASE ~Running
  BY <1>3, DeadRests, StutterInv DEF ChatInv
<1>4. QED BY <1>2, <1>3

----------------------------------------------------------------------------
(* What is heard.                                                          *)

LEMMA StepPassing ==
  ASSUME ChatInv, Next
  PROVE  PassingOn'
<1>1. TypeOK /\ PassingOn /\ line \in Nat
  BY SizeAssumption DEF ChatInv, TypeOK, Counts
<1>2. CASE ReadLine
  <2>1. line' > 0 /\ pc' = "send" /\ to' = 1 /\ i' = i /\ sz' = sz
    BY <1>2, ReadLineFacts DEF ReadLine, entries
  <2>2. i < sz /\ 1 <= sz
    BY <1>1, <1>2, SlotFacts DEF ReadLine, AtClient
  <2>3. QED BY <2>1, <2>2 DEF PassingOn
<1>3. CASE SendOne
  <2>1. to + 1 <= sz
    BY <1>3, SendFacts, SlotFacts, <1>1 DEF SendOne
  <2>2. QED BY <1>1, <1>3, <2>1 DEF SendOne, PassingOn, entries
<1>4. CASE SendFails
  BY <1>1, <1>4 DEF SendFails, PassingOn, entries, passing
<1>5. CASE SendEnd
  BY <1>5 DEF SendEnd, PassingOn
<1>6. CASE pc \notin {"send", "dead"} /\ pc' # "send" /\ line' = line
  BY <1>1, <1>6 DEF PassingOn
<1>7. CASE \/ Poll \/ ReadName \/ ReadEnd \/ ReadFails \/ NextClient \/ ClientsEnd
           \/ \E c \in Conns : Accept(c) \/ Refuse(c)
  BY <1>6, <1>7 DEF Poll, ReadName, ReadEnd, ReadFails, NextClient, ClientsEnd, Accept, Refuse,
       AtClient, passing
<1>8. CASE ClientStep \/ Rest
  BY <1>1, <1>8 DEF ClientStep, Connect, SendName, SendLine, Send, Leave, Rest, vars, entries, passing,
       PassingOn
<1>9. QED BY <1>2, <1>3, <1>4, <1>5, <1>7, <1>8 DEF Next, ServerStep

LEMMA StepBefore ==
  ASSUME ChatInv, Next
  PROVE  NothingHeardBefore'
<1>1. TypeOK /\ NothingHeardBefore
  BY DEF ChatInv
<1>2. CASE SendOne
  <2>1. UNCHANGED state
    BY <1>2 DEF SendOne, kernel
  <2>2. \A d, x \in Conns : state[d] # "open" => heard'[d][x] = heard[d][x]
    BY <1>2, SendOneFacts
  <2>3. QED BY <1>1, <2>1, <2>2 DEF NothingHeardBefore
<1>3. ASSUME UNCHANGED heard,
             \A d \in Conns : state'[d] \in {"new", "backlog"} => state[d] \in {"new", "backlog"}
      PROVE  NothingHeardBefore'
  BY <1>1, <1>3 DEF NothingHeardBefore
<1>4. CASE \/ Poll \/ ReadName \/ ReadLine \/ SendFails \/ SendEnd \/ ReadFails \/ NextClient
           \/ ClientsEnd \/ Rest
           \/ \E c \in Conns : SendName(c) \/ SendLine(c) \/ Leave(c)
  <2>1. UNCHANGED <<heard, state>>
    BY <1>4 DEF Poll, ReadName, ReadLine, SendFails, SendEnd, ReadFails, NextClient, ClientsEnd, Rest,
                SendName, SendLine, Send, Leave, vars, kernel, talk
  <2>2. QED BY <1>3, <2>1
<1>5. ASSUME NEW c \in Conns, Accept(c) \/ Refuse(c) \/ Connect(c)
      PROVE  NothingHeardBefore'
  <2>1. UNCHANGED heard
    BY <1>5 DEF Accept, Refuse, Connect, talk
  <2>2. \A d \in Conns : state'[d] \in {"new", "backlog"} => state[d] \in {"new", "backlog"}
    BY <1>1, <1>5 DEF Accept, Refuse, Connect, TypeOK
  <2>3. QED BY <1>3, <2>1, <2>2
<1>6. CASE ReadEnd
  <2>1. UNCHANGED heard
    BY <1>6 DEF ReadEnd, talk
  <2>2. fds[i].conn \in Conns
    BY <1>6, EntryFacts DEF ReadEnd
  <2>3. \A d \in Conns : state'[d] \in {"new", "backlog"} => state[d] \in {"new", "backlog"}
    BY <1>1, <1>6, <2>2 DEF ReadEnd, TypeOK
  <2>4. QED BY <1>3, <2>1, <2>3
<1>7. QED BY <1>2, <1>4, <1>5, <1>6 DEF Next, ServerStep, ClientStep

LEMMA StepNames ==
  ASSUME ChatInv, Next
  PROVE  WrongNamesInherited'
<1>1. TypeOK /\ WrongNamesInherited /\ TableMatches
  BY DEF ChatInv
<1>2. CASE ReadLine
  <2>1. AtClient /\ Running /\ i \in InUse /\ fds[i].conn \in Conns
    BY <1>2, EntryFacts DEF ReadLine, AtClient, Running
  <2>2. names[i] # Nobody /\ names[i] # fds[i].conn => fds[i].conn \in inherited
    BY <1>1, <2>1 DEF TableMatches
  <2>3. QED BY <1>1, <1>2, <2>2 DEF ReadLine, WrongNamesInherited, history
<1>3. ASSUME NEW c \in Conns, Accept(c)
      PROVE  WrongNamesInherited'
  BY <1>1, <1>3 DEF Accept, WrongNamesInherited, talk
<1>4. CASE \/ Poll \/ ReadName \/ SendOne \/ SendFails \/ SendEnd \/ ReadEnd \/ ReadFails
           \/ NextClient \/ ClientsEnd \/ Rest \/ ClientStep \/ \E c \in Conns : Refuse(c)
  BY <1>1, <1>4 DEF Poll, ReadName, SendOne, SendFails, SendEnd, ReadEnd, ReadFails, NextClient,
       ClientsEnd, Rest, ClientStep, Connect, SendName, SendLine, Send, Leave, Refuse, WrongNamesInherited, vars, talk,
       history
<1>5. QED BY <1>2, <1>3, <1>4 DEF Next, ServerStep

(* Outside a broadcast nothing is on its way, and what is depends on the   *)
(* table and the two loops alone.                                          *)
LEMMA StillComingFacts ==
  /\ line = 0 => \A d, c \in Conns : StillComing(d, c) = 0
  /\ line' = 0 => \A d, c \in Conns : StillComing(d, c)' = 0
  /\ UNCHANGED <<sz, fds, i, passing>> =>
       \A d, c \in Conns : StillComing(d, c)' = StillComing(d, c)
BY DEF StillComing, passing, InUse

LEMMA StepHeard ==
  ASSUME ChatInv, Next
  PROVE  HeardByAll'
<1>1. TypeOK /\ HeardByAll /\ NothingHeardBefore /\ PassingOn /\ line \in Nat
  BY SizeAssumption DEF ChatInv, TypeOK, Counts
<1>2. SUFFICES ASSUME Running PROVE HeardByAll'
  BY DeadRests, StutterInv DEF ChatInv
<1>3. \A c \in Conns : /\ sent[c] \in Nat /\ unread[c] \in Nat
                       /\ named[c] \in Nat /\ spoken[c] \in Nat
  BY CountFacts
<1>4. \A c \in Conns :
        /\ named[c] + spoken[c] + unread[c] = sent[c]
        /\ \A d \in Conns : state[d] = "open" =>
             heard[d][c] = IF d = c THEN 0 ELSE spoken[c] - missed[d][c] - StillComing(d, c)
  BY <1>1 DEF HeardByAll
<1>5. \A d, c \in Conns : missed[d][c] \in Nat /\ heard[d][c] \in Nat /\ StillComing(d, c) \in Nat
  BY <1>1, SizeAssumption DEF TypeOK, Counts, StillComing
<1>6. CASE ReadLine
  <2>1. UNCHANGED <<named, sent, state, heard, missed>> /\ InUse' = InUse /\ fds' = fds /\ i' = i
        /\ to' = 1
    BY <1>6 DEF ReadLine, history, entries, InUse
  <2>2. PICK c \in Conns, n \in Nat :
          /\ c = fds[i].conn /\ n > 0 /\ line' = n /\ line = 0
          /\ unread'[c] = unread[c] - n /\ spoken'[c] = spoken[c] + n
          /\ \A d \in Conns \ {c} : unread'[d] = unread[d] /\ spoken'[d] = spoken[d]
    BY <1>6, ReadLineFacts
  <2>3. \A x \in Conns : named'[x] + spoken'[x] + unread'[x] = sent'[x]
    BY <1>3, <1>4, <2>1, <2>2
  <2>4. ASSUME NEW x \in Conns, NEW d \in Conns, state'[d] = "open"
        PROVE  heard'[d][x] = IF d = x THEN 0 ELSE spoken'[x] - missed'[d][x] - StillComing(d, x)'
    <3>1. heard[d][x] = IF d = x THEN 0 ELSE spoken[x] - missed[d][x]
      BY <1>3, <1>4, <1>5, <2>1, <2>2, <2>4, StillComingFacts
    <3>2. \E k \in InUse : k >= 1 /\ fds[k].conn = d
      BY <1>1, <1>2, <2>1, <2>4, SlotFacts DEF ChatInv, TableMatches
    <3>3. StillComing(d, x)' = IF x = c THEN n ELSE 0
      BY <2>1, <2>2, <3>2 DEF StillComing
    <3>4. QED BY <1>3, <1>5, <2>1, <2>2, <3>1, <3>3
  <2>5. QED BY <2>3, <2>4 DEF HeardByAll
<1>7. CASE SendOne
  <2>1. UNCHANGED <<named, sent, unread, spoken, state, missed>> /\ InUse' = InUse /\ fds' = fds
        /\ i' = i /\ line' = line /\ to' = to + 1
    BY <1>7 DEF SendOne, history, entries, kernel, InUse
  <2>2. PICK c \in Conns, d \in Conns :
          /\ c = fds[i].conn /\ d = fds[to].conn /\ to \in InUse /\ state[d] = "open"
          /\ \A e \in Conns, x \in Conns :
               heard'[e][x] = IF e = d /\ x = c /\ d # c THEN heard[e][x] + line ELSE heard[e][x]
    BY <1>7, SendOneFacts
  <2>3. \A j, k \in InUse : fds[j].conn = fds[k].conn => j = k
    BY <1>2 DEF ChatInv, TableMatches
  <2>4. \A k \in InUse : k \in Nat /\ to \in Nat
    BY <1>1, <2>2, SlotFacts
  <2>5. ASSUME NEW x \in Conns, NEW e \in Conns, state'[e] = "open", e # x
        PROVE  heard'[e][x] = spoken'[x] - missed'[e][x] - StillComing(e, x)'
    <3>1. heard[e][x] = spoken[x] - missed[e][x] - StillComing(e, x)
      BY <1>4, <2>1, <2>5
    <3>2. CASE e = d /\ x = c
      <4>1. StillComing(e, x) = line
        BY <1>1, <2>2, <2>4, <3>2 DEF StillComing
      <4>2. ~\E k \in InUse : k >= to + 1 /\ fds[k].conn = e
        BY <2>2, <2>3, <2>4, <3>2
      <4>3. StillComing(e, x)' = 0
        BY <2>1, <4>2 DEF StillComing
      <4>4. heard'[e][x] = heard[e][x] + line
        BY <2>2, <2>5, <3>2
      <4>5. QED BY <1>1, <1>3, <1>5, <2>1, <3>1, <4>1, <4>3, <4>4
    <3>3. CASE e # d \/ x # c
      <4>1. heard'[e][x] = heard[e][x]
        BY <2>2, <3>3
      <4>2. x = c => \A k \in InUse : fds[k].conn = e => (k >= to <=> k >= to + 1)
        BY <2>2, <2>4, <3>3
      <4>3. StillComing(e, x)' = StillComing(e, x)
        BY <2>1, <2>2, <4>2 DEF StillComing
      <4>4. QED BY <2>1, <3>1, <4>1, <4>3
    <3>4. QED BY <3>2, <3>3
  <2>6. ASSUME NEW x \in Conns, state'[x] = "open"
        PROVE  heard'[x][x] = 0
    BY <1>4, <2>1, <2>2, <2>6
  <2>7. QED BY <1>4, <2>1, <2>5, <2>6 DEF HeardByAll
<1>8. CASE SendEnd
  <2>1. UNCHANGED <<named, sent, unread, spoken, heard, state, missed>> /\ line' = 0 /\ to >= sz
    BY <1>8 DEF SendEnd, history, kernel, talk
  <2>2. \A d, c \in Conns : StillComing(d, c) = 0
    <3>1. ~\E k \in InUse : k >= to
      BY <1>1, <2>1, SlotFacts DEF TypeOK
    <3>2. QED BY <3>1 DEF StillComing
  <2>3. \A d, c \in Conns : StillComing(d, c)' = 0
    BY <2>1, StillComingFacts
  <2>4. QED BY <1>4, <2>1, <2>2, <2>3 DEF HeardByAll
<1>9. CASE ReadName
  <2>1. UNCHANGED <<spoken, sent, state, heard, missed>> /\ line' = line /\ line = 0
    BY <1>1, <1>9 DEF ReadName, history, passing, AtClient, PassingOn
  <2>2. PICK s \in Conns, n \in Nat :
          /\ unread'[s] = unread[s] - n /\ named'[s] = named[s] + n
          /\ \A d \in Conns \ {s} : unread'[d] = unread[d] /\ named'[d] = named[d]
    BY <1>9, ReadNameFacts
  <2>3. \A x \in Conns : named'[x] + spoken'[x] + unread'[x] = sent'[x]
    BY <1>3, <1>4, <2>1, <2>2
  <2>4. \A d, c \in Conns : StillComing(d, c)' = StillComing(d, c)
    BY <2>1, StillComingFacts
  <2>5. QED BY <1>4, <2>1, <2>3, <2>4 DEF HeardByAll
<1>10. ASSUME NEW c \in Conns, Send(c)
      PROVE  HeardByAll'
  <2>1. UNCHANGED <<spoken, named, state, heard, missed, sz, fds, i, passing>>
    BY <1>10 DEF Send, talk, history, entries
  <2>2. /\ sent'[c] = sent[c] + 1 /\ unread'[c] = unread[c] + 1
        /\ \A d \in Conns \ {c} : sent'[d] = sent[d] /\ unread'[d] = unread[d]
    BY <1>1, <1>10 DEF Send, TypeOK
  <2>3. \A x \in Conns : named'[x] + spoken'[x] + unread'[x] = sent'[x]
    BY <1>3, <1>4, <2>1, <2>2
  <2>4. \A d, x \in Conns : StillComing(d, x)' = StillComing(d, x)
    BY <2>1, StillComingFacts
  <2>5. QED BY <1>4, <2>1, <2>3, <2>4 DEF HeardByAll
<1>11. ASSUME NEW c \in Conns, Accept(c)
      PROVE  HeardByAll'
  <2>1. UNCHANGED <<sent, unread, named, spoken, heard>> /\ state[c] = "backlog"
        /\ line' = line /\ line = 0
    BY <1>1, <1>11 DEF Accept, talk, passing, PassingOn
  <2>2. /\ missed'[c] = spoken /\ \A d \in Conns \ {c} : missed'[d] = missed[d]
        /\ \A d \in Conns \ {c} : state'[d] = state[d]
    BY <1>1, <1>11 DEF Accept, TypeOK
  <2>3. \A d, x \in Conns : StillComing(d, x) = 0 /\ StillComing(d, x)' = 0
    BY <2>1, StillComingFacts
  <2>4. ASSUME NEW x \in Conns
        PROVE  heard'[c][x] = IF c = x THEN 0 ELSE spoken'[x] - missed'[c][x] - StillComing(c, x)'
    <3>1. heard[c][x] = 0
      BY <1>1, <2>1 DEF NothingHeardBefore
    <3>2. QED BY <1>3, <2>1, <2>2, <2>3, <3>1
  <2>5. QED BY <1>4, <2>1, <2>2, <2>3, <2>4 DEF HeardByAll
<1>12. ASSUME UNCHANGED <<sent, unread, named, spoken, heard, missed>>,
             \A d \in Conns : state'[d] = "open" => state[d] = "open",
             \A d, c \in Conns : StillComing(d, c)' = StillComing(d, c)
      PROVE  HeardByAll'
  BY <1>4, <1>12 DEF HeardByAll
<1>13. CASE SendFails \/ Rest \/ \E c \in Conns : Leave(c) \/ Connect(c)
  <2>1. UNCHANGED <<sent, unread, named, spoken, heard, missed, sz, fds, i, passing>>
    BY <1>13 DEF SendFails, Rest, Leave, Connect, vars, entries, kernel, talk, history
  <2>2. \A d \in Conns : state'[d] = "open" => state[d] = "open"
    BY <1>1, <1>13 DEF SendFails, Rest, Leave, Connect, vars, kernel, TypeOK
  <2>3. QED BY <1>12, <2>1, <2>2, StillComingFacts
<1>14. CASE \/ Poll \/ ReadEnd \/ ReadFails \/ NextClient \/ ClientsEnd
            \/ \E c \in Conns : Refuse(c)
  <2>1. UNCHANGED <<sent, unread, named, spoken, heard, missed>> /\ line' = line
    BY <1>14 DEF Poll, ReadEnd, ReadFails, NextClient, ClientsEnd, Refuse, kernel, talk, history,
       passing
  <2>2. \A d \in Conns : state'[d] = "open" => state[d] = "open"
    BY <1>1, <1>14 DEF Poll, ReadEnd, ReadFails, NextClient, ClientsEnd, Refuse, kernel, TypeOK
  <2>3. line = 0
    BY <1>1, <1>14 DEF Poll, ReadEnd, ReadFails, NextClient, ClientsEnd, Refuse, AtClient, PassingOn
  <2>4. QED BY <1>12, <2>1, <2>2, <2>3, StillComingFacts
<1>15. QED
  BY <1>6, <1>7, <1>8, <1>9, <1>10, <1>11, <1>13, <1>14
     DEF Next, ServerStep, ClientStep, SendName, SendLine

----------------------------------------------------------------------------
(* The theorems.                                                           *)

(* The invariant of the chat server's loop (serv.c:42-100): the table, the *)
(* open clients, what was sent and what was heard agree at every step.     *)
THEOREM ChatInvariant == Spec => []ChatInv
<1>1. Init => ChatInv
  BY InitInv
<1>2. ChatInv /\ [Next]_vars => ChatInv'
  <2>1. SUFFICES ASSUME ChatInv, Next PROVE ChatInv'
    BY StutterInv
  <2>2. QED
    BY <2>1, StepType, StepTable, StepBefore, StepNames, StepPassing, StepHeard DEF ChatInv
<1>3. QED BY <1>1, <1>2, PTL DEF Spec

(* The table never outgrows MAXSIZE, the loop over it never leaves it, and *)
(* nobody hears more than is sent.                                         *)
THEOREM TypeCorrect == Spec => []TypeOK
<1>1. ChatInv => TypeOK
  BY DEF ChatInv
<1>2. QED BY <1>1, ChatInvariant, PTL

(* Moving the last entry into the place of one that is over (lines 69-77)  *)
(* keeps one entry per client, with its name.                              *)
THEOREM TableMatchesHolds == Spec => []TableMatches
<1>1. ChatInv => TableMatches
  BY DEF ChatInv
<1>2. QED BY <1>1, ChatInvariant, PTL

(* Everybody else in the room hears each line exactly once (lines 88-97);  *)
(* in the middle of a broadcast, and for ever when a client that has gone  *)
(* ends the server there, exactly the entries before j have heard it.      *)
THEOREM HeardByAllHolds == Spec => []HeardByAll
<1>1. ChatInv => HeardByAll
  BY DEF ChatInv
<1>2. QED BY <1>1, ChatInvariant, PTL

(* OwnName fails, but only in one way: what is passed on under another's   *)
(* name comes from a client accepted into an entry that kept the name of   *)
(* one that had left (lines 53-55 and 69-77).                              *)
THEOREM WrongNamesAreInherited == Spec => [](mislabelled \subseteq inherited)
<1>1. ChatInv => mislabelled \subseteq inherited
  BY DEF ChatInv, WrongNamesInherited
<1>2. QED BY <1>1, ChatInvariant, PTL
=============================================================================
