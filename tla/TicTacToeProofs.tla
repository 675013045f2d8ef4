--------------------------- MODULE TicTacToeProofs ---------------------------
(***************************************************************************)
(* Theorems about TicTacToe, for a board of any odd size and any set of    *)
(* players that may be stopped.                                            *)
(***************************************************************************)
EXTENDS TicTacToe, TLAPS, SequenceTheorems, FiniteSetTheorems, WellFoundedInduction

----------------------------------------------------------------------------
(* Lemmas about the operators.                                             *)

(* Every non-empty set of naturals has a least element.                    *)
LEMMA LeastElement ==
  ASSUME NEW T, T \subseteq Nat, T # {}
  PROVE  \E m \in T : \A k \in T : m <= k
<1> DEFINE R == {ss \in Nat \X Nat : ss[1] < ss[2]}
<1>1. IsWellFoundedOn(R, Nat)
  BY NatLessThanWellFounded DEF OpToRel
<1> HIDE DEF R
<1>2. PICK m \in T : \A k \in T : ~(<<k, m>> \in R)
  BY <1>1, WFMin
<1>3. \A k \in T : ~(k < m)
  BY <1>2 DEF R
<1>4. QED BY <1>3

(* The size of the board: the origin and the centre are cells.             *)
LEMMA SizeFacts ==
  /\ Size \in Nat \ {0}
  /\ 0 \in Idx /\ Size \div 2 \in Idx
  /\ Origin \in Cells /\ Centre \in Cells
<1>1. Size \in Nat \ {0}
  BY SizeAssumption
<1>2. 0 \in Idx /\ Size \div 2 \in Idx
  BY <1>1 DEF Idx
<1>3. QED BY <1>1, <1>2 DEF Cells, Origin, Centre

(* check() returns one of the values its comment lists (server.c:109).     *)
LEMMA CheckType ==
  ASSUME NEW b \in Boards
  PROVE  check(b) \in {-1, 0} \cup Players
<1>1. CASE Hits(b) # {}
  <2> DEFINE First(h) == \A k \in Hits(b) : h <= k
             i == CHOOSE h \in Hits(b) : First(h)
  <2>1. Hits(b) \subseteq Nat
    BY SizeFacts DEF Hits, Idx
  <2>2. \E h \in Hits(b) : First(h)
    BY <1>1, <2>1, LeastElement
  <2>3. i \in Hits(b)
    BY <2>2
  <2>4. i \in Idx
    BY <2>3 DEF Hits
  <2> HIDE DEF First, i
  <2>5. <<i, 0>> \in Cells /\ <<0, i>> \in Cells
    BY <2>4, SizeFacts DEF Cells
  <2>6. b[<<i, 0>>] \in {0} \cup Players /\ b[<<0, i>>] \in {0} \cup Players
    BY <2>5 DEF Boards
  <2>7. FirstHitMark(b) \in {0} \cup Players
    BY <2>6 DEF FirstHitMark, i, First
  <2>8. QED BY <1>1, <2>7 DEF check
<1>2. CASE Hits(b) = {}
  <2>1. b[Centre] \in {0} \cup Players
    BY SizeFacts DEF Boards
  <2>2. QED BY <1>2, <2>1 DEF check
<1>3. QED BY <1>1, <1>2

(* The messages are told apart by their type, and MOVE parts by their part.*)
LEMMA MessageFacts ==
  /\ YourTurn \in Messages
  /\ \A p \in Players : Ready(p) \in Messages /\ Ready(p) # YourTurn
  /\ \A c \in Cells, p \in Players :
       State(c, p) \in Messages /\ State(c, p) # YourTurn
  /\ \A w \in {0} \cup Players : Result(w) \in Messages /\ Result(w) # YourTurn
  /\ \A m \in Messages :
       /\ m.type = "READY" => m.no \in Players /\ m # YourTurn
       /\ m.type = "TURN_NOTIFICATION" => m = YourTurn
       /\ m.type = "STATE_UPDATE" =>
            /\ m.cell \in Cells /\ m.no \in Players
            /\ m = State(m.cell, m.no) /\ m # YourTurn
       /\ m.type = "RESULT" => m.winner \in {0} \cup Players /\ m # YourTurn
<1>1. YourTurn \in Messages /\ YourTurn.type = "TURN_NOTIFICATION"
  BY DEF Messages, YourTurn
<1>2. \A p \in Players : Ready(p) \in Messages /\ Ready(p).type = "READY"
  BY DEF Messages, Ready
<1>3. \A c \in Cells, p \in Players :
        State(c, p) \in Messages /\ State(c, p).type = "STATE_UPDATE"
  BY DEF Messages, State
<1>4. \A w \in {0} \cup Players : Result(w) \in Messages /\ Result(w).type = "RESULT"
  BY DEF Messages, Result
<1>5. ASSUME NEW m \in Messages
      PROVE  /\ m.type = "READY" => m.no \in Players /\ m # YourTurn
             /\ m.type = "TURN_NOTIFICATION" => m = YourTurn
             /\ m.type = "STATE_UPDATE" =>
                  /\ m.cell \in Cells /\ m.no \in Players
                  /\ m = State(m.cell, m.no) /\ m # YourTurn
             /\ m.type = "RESULT" => m.winner \in {0} \cup Players /\ m # YourTurn
  BY <1>1 DEF Messages, YourTurn, State
<1>6. QED BY <1>1, <1>2, <1>3, <1>4, <1>5

LEMMA MovePartFacts ==
  /\ MoveHeader \in MoveParts
  /\ \A c \in Cells : MovePayload(c) \in MoveParts /\ MovePayload(c) # MoveHeader
  /\ \A c, d \in Cells : MovePayload(c) = MovePayload(d) => c = d
  /\ \A m \in MoveParts : m = MoveHeader \/ (m.cell \in Cells /\ m = MovePayload(m.cell))
<1>1. \A c \in Cells : MovePayload(c) \in MoveParts /\ MovePayload(c).part = "payload"
  BY DEF MoveParts, MovePayload
<1>2. MoveHeader \in MoveParts /\ MoveHeader.part = "header"
  BY DEF MoveParts, MoveHeader
<1>3. \A c, d \in Cells : MovePayload(c) = MovePayload(d) => c = d
  <2> TAKE c, d \in Cells
  <2> HAVE MovePayload(c) = MovePayload(d)
  <2>1. MovePayload(c).cell = c /\ MovePayload(d).cell = d
    BY DEF MovePayload
  <2> QED BY <2>1
<1>4. \A m \in MoveParts : m = MoveHeader \/ (m.cell \in Cells /\ m = MovePayload(m.cell))
  BY DEF MoveParts, MovePayload, MoveHeader
<1>5. QED BY <1>1, <1>2, <1>3, <1>4

(* What a queue holds after a message is appended or received.             *)
LEMMA HoldsAfterAppend ==
  ASSUME NEW S, NEW s \in Seq(S), NEW e \in S, NEW x
  PROVE  (\E i \in DOMAIN Append(s, e) : Append(s, e)[i] = x)
           <=> x = e \/ \E i \in DOMAIN s : s[i] = x
<1>1. /\ Append(s, e) \in Seq(S)
      /\ Len(Append(s, e)) = Len(s) + 1
      /\ \A i \in 1 .. Len(s) : Append(s, e)[i] = s[i]
      /\ Append(s, e)[Len(s) + 1] = e
  BY AppendProperties
<1>2. Len(s) \in Nat /\ DOMAIN s = 1 .. Len(s)
      /\ DOMAIN Append(s, e) = 1 .. (Len(s) + 1)
  BY <1>1, LenProperties
<1>3. QED BY <1>1, <1>2

LEMMA HoldsAfterTail ==
  ASSUME NEW S, NEW s \in Seq(S), s # <<>>, NEW x
  PROVE  (\E i \in DOMAIN s : s[i] = x)
           <=> x = Head(s) \/ \E i \in DOMAIN Tail(s) : Tail(s)[i] = x
<1>1. /\ Tail(s) \in Seq(S)
      /\ Len(Tail(s)) = Len(s) - 1
      /\ \A i \in 1 .. Len(Tail(s)) : Tail(s)[i] = s[i + 1]
  BY HeadTailProperties
<1>2. Len(s) \in Nat /\ Len(s) # 0 /\ Head(s) = s[1]
  BY EmptySeq, LenProperties
<1>3. DOMAIN s = 1 .. Len(s) /\ DOMAIN Tail(s) = 1 .. (Len(s) - 1)
  BY <1>1, LenProperties
<1>4. ASSUME NEW i \in DOMAIN s, s[i] = x, i # 1
      PROVE  \E j \in DOMAIN Tail(s) : Tail(s)[j] = x
  <2>1. i - 1 \in DOMAIN Tail(s) /\ Tail(s)[i - 1] = s[i]
    BY <1>1, <1>2, <1>3, <1>4
  <2>2. QED BY <2>1, <1>4
<1>5. ASSUME NEW i \in DOMAIN Tail(s), Tail(s)[i] = x
      PROVE  \E j \in DOMAIN s : s[j] = x
  <2>1. i + 1 \in DOMAIN s /\ Tail(s)[i] = s[i + 1]
    BY <1>1, <1>2, <1>3
  <2>2. QED BY <2>1, <1>5
<1>6. QED BY <1>2, <1>3, <1>4, <1>5

----------------------------------------------------------------------------
(* Type correctness.                                                       *)

LEMMA InitType == Init => TypeOK
BY SizeFacts, EmptySeq
   DEF Init, TypeOK, Players, ServerPlaces, Boards, EmptyBoard, ClientPlaces, Verdicts

(* One notification preserves the types: it sends one message, or none.    *)
LEMMA NotifyType ==
  ASSUME TypeOK, NEW p \in Players, NEW msg \in Messages,
         NEW next \in ServerPlaces, Notify(p, msg, next)
  PROVE  TypeOK'
<1>1. s2c' \in [Players -> Seq(Messages)]
  <2>1. CASE s2c' = [s2c EXCEPT ![p] = Append(@, msg)]
    <3>1. Append(s2c[p], msg) \in Seq(Messages)
      BY AppendProperties DEF TypeOK
    <3>2. QED BY <2>1, <3>1 DEF TypeOK
  <2>2. CASE s2c' = s2c
    BY <2>2 DEF TypeOK
  <2>3. QED BY <2>1, <2>2 DEF Notify
<1>2. spc' \in ServerPlaces
  BY DEF Notify, ServerPlaces, Stopped
<1>3. QED BY <1>1, <1>2 DEF Notify, TypeOK, clientVars

LEMMA PlaceType ==
  ASSUME TypeOK, NEW c \in Cells, Place(c)
  PROVE  /\ move' \in Cells /\ spc' \in ServerPlaces
         /\ board' \in Boards
BY DEF Place, TypeOK, ServerPlaces, Boards

LEMMA ReceivesType ==
  ASSUME TypeOK, NEW p \in Players, NEW type, Receives(p, type)
  PROVE  /\ Head(s2c[p]) \in Messages
         /\ s2c' \in [Players -> Seq(Messages)]
<1>1. s2c[p] \in Seq(Messages) /\ s2c[p] # <<>>
  BY DEF Receives, TypeOK
<1>2. Head(s2c[p]) \in Messages /\ Tail(s2c[p]) \in Seq(Messages)
  BY <1>1, HeadTailProperties
<1>3. QED BY <1>2 DEF Receives, TypeOK

(* What the server finds when the payload of a MOVE has arrived.           *)
LEMMA PayloadWaiting ==
  ASSUME TypeOK, MoveStages, spc = "payload", c2s[turn] # <<>>
  PROVE  /\ Head(c2s[turn]).cell \in Cells
         /\ c2s[turn] = <<MovePayload(Head(c2s[turn]).cell)>>
         /\ cpc[turn] \in {"recv", "crashed"}
         /\ ~Sent(turn, YourTurn)
<1>1. turn \in Players
  BY DEF TypeOK
<1>2. WhollySent(turn)
  BY <1>1 DEF MoveStages, Quiet, Notified, Typing, HalfSent
<1>3. PICK c \in Cells : c2s[turn] = <<MovePayload(c)>>
  BY <1>2 DEF WhollySent
<1>4. Head(c2s[turn]).cell = c
  BY <1>3 DEF MovePayload
<1>5. QED BY <1>2, <1>3, <1>4 DEF WhollySent

LEMMA ServerType ==
  ASSUME TypeOK, MoveStages, ResultIsKnown, ServerStep
  PROVE  TypeOK'
<1>1. ASSUME NEW p \in Players, c2s[p] # <<>>
      PROVE  /\ Head(c2s[p]) \in MoveParts
             /\ [c2s EXCEPT ![p] = Tail(@)] \in [Players -> Seq(MoveParts)]
  <2>1. c2s[p] \in Seq(MoveParts)
    BY DEF TypeOK
  <2>2. Head(c2s[p]) \in MoveParts /\ Tail(c2s[p]) \in Seq(MoveParts)
    BY <1>1, <2>1, HeadTailProperties
  <2>3. QED BY <2>2 DEF TypeOK
<1>2. CASE Accept
  BY <1>2 DEF Accept, TypeOK, ServerPlaces, clientVars
<1>3. CASE NotifyReady1
  BY <1>3, NotifyType, MessageFacts DEF NotifyReady1, Players, ServerPlaces
<1>4. CASE NotifyReady2
  BY <1>4, NotifyType, MessageFacts DEF NotifyReady2, Players, ServerPlaces
<1>5. CASE NotifyTurn
  <2>1. turn \in Players
    BY DEF TypeOK
  <2>2. QED BY <1>5, <2>1, NotifyType, MessageFacts DEF NotifyTurn, ServerPlaces
<1>6. CASE NotifyState1
  <2>1. State(move, turn) \in Messages
    BY MessageFacts DEF TypeOK
  <2>2. QED BY <1>6, <2>1, NotifyType DEF NotifyState1, Players, ServerPlaces
<1>7. CASE NotifyState2
  <2>1. State(move, turn) \in Messages
    BY MessageFacts DEF TypeOK
  <2>2. QED BY <1>7, <2>1, NotifyType DEF NotifyState2, Players, ServerPlaces
<1>8. CASE RecvHeader
  <2>1. turn \in Players
    BY DEF TypeOK
  <2>2. QED BY <1>1, <1>8, <2>1 DEF RecvHeader, TypeOK, ServerPlaces, Stopped, clientVars
<1>9. CASE RecvHeaderFails
  BY <1>9 DEF RecvHeaderFails, TypeOK, ServerPlaces, clientVars
<1>10. CASE RecvPayload
  <2> DEFINE c == Head(c2s[turn]).cell
  <2>1. turn \in Players /\ c2s[turn] # <<>> /\ spc = "payload"
    BY <1>10 DEF TypeOK, RecvPayload
  <2>2. Place(c)
    BY <1>10 DEF RecvPayload
  <2>3. c \in Cells
    BY <2>1, PayloadWaiting
  <2>4. QED BY <1>1, <1>10, <2>1, <2>2, <2>3, PlaceType DEF RecvPayload, TypeOK, clientVars
<1>11. CASE RecvPayloadFails
  <2>1. CASE \E c \in Cells : Place(c)
    BY <1>11, <2>1, PlaceType DEF RecvPayloadFails, TypeOK, clientVars
  <2>2. CASE spc' = "failed" /\ UNCHANGED <<move, board>>
    BY <1>11, <2>2 DEF RecvPayloadFails, TypeOK, ServerPlaces, Stopped, clientVars
  <2>3. QED BY <1>11, <2>1, <2>2 DEF RecvPayloadFails
<1>12. CASE CheckBoard
  <2>1. status' \in {-1, 0} \cup Players
    BY <1>12, CheckType DEF CheckBoard, TypeOK
  <2>2. spc' \in ServerPlaces /\ turn' \in Players /\ move' \in Cells
    BY <1>12, SizeFacts DEF CheckBoard, TypeOK, ServerPlaces, Players, Other
  <2>3. QED BY <1>12, <2>1, <2>2 DEF CheckBoard, TypeOK, clientVars
<1>13. CASE NotifyResult1
  <2>1. status \in {0} \cup Players
    BY <1>13 DEF NotifyResult1, ResultIsKnown, TypeOK
  <2>2. QED BY <1>13, <2>1, NotifyType, MessageFacts DEF NotifyResult1, Players, ServerPlaces
<1>14. CASE NotifyResult2
  <2>1. status \in {0} \cup Players
    BY <1>14 DEF NotifyResult2, ResultIsKnown, TypeOK
  <2>2. QED BY <1>14, <2>1, NotifyType, MessageFacts DEF NotifyResult2, Players, ServerPlaces, Stopped
<1>15. QED
  BY <1>2, <1>3, <1>4, <1>5, <1>6, <1>7, <1>8, <1>9, <1>10, <1>11, <1>12, <1>13, <1>14
     DEF ServerStep

LEMMA ClientType == ASSUME NEW p \in Players PROVE TypeOK /\ ClientStep(p) => TypeOK'
<1> SUFFICES ASSUME TypeOK, ClientStep(p) PROVE TypeOK'
  OBVIOUS
<1>1. CASE Connect(p)
  BY <1>1 DEF Connect, TypeOK, ClientPlaces, serverVars
<1>2. CASE ReceiveReady(p)
  <2>1. Head(s2c[p]).no \in Players
    BY <1>2, ReceivesType, MessageFacts DEF ReceiveReady, Receives
  <2>2. QED BY <1>2, <2>1, ReceivesType DEF ReceiveReady, Receives, TypeOK, serverVars
<1>3. CASE ReceiveTurn(p)
  BY <1>3, ReceivesType DEF ReceiveTurn, Receives, TypeOK, ClientPlaces, serverVars
<1>4. CASE ReceiveState(p)
  <2> DEFINE m == Head(s2c[p])
  <2>1. m.cell \in Cells /\ m.no \in Players
    BY <1>4, ReceivesType, MessageFacts DEF ReceiveState, Receives
  <2>2. [view[p] EXCEPT ![m.cell] = m.no] \in Boards
    BY <2>1 DEF TypeOK, Boards
  <2>3. QED BY <1>4, <2>2, ReceivesType DEF ReceiveState, Receives, TypeOK, serverVars
<1>5. CASE ReceiveResult(p)
  BY <1>5, ReceivesType DEF ReceiveResult, Receives, TypeOK, Verdicts, serverVars
<1>6. CASE Choose(p)
  <2>1. PICK c \in Cells : /\ view[p][c] = 0
                           /\ choice' = [choice EXCEPT ![p] = c]
                           /\ view' = [view EXCEPT ![p] = [@ EXCEPT ![c] = playerno[p]]]
    BY <1>6 DEF Choose
  <2>2. [view[p] EXCEPT ![c] = playerno[p]] \in Boards
    BY DEF TypeOK, Boards
  <2>3. Append(c2s[p], MoveHeader) \in Seq(MoveParts)
    BY AppendProperties, MovePartFacts DEF TypeOK
  <2>4. QED BY <1>6, <2>1, <2>2, <2>3 DEF Choose, TypeOK, ClientPlaces, serverVars
<1>7. CASE SendPayload(p)
  <2>1. Append(c2s[p], MovePayload(choice[p])) \in Seq(MoveParts)
    BY AppendProperties, MovePartFacts DEF TypeOK
  <2>2. QED BY <1>7, <2>1, SizeFacts DEF SendPayload, TypeOK, ClientPlaces, serverVars
<1>8. CASE ReceiveEnd(p)
  BY <1>8 DEF ReceiveEnd, TypeOK, ClientPlaces, serverVars
<1>9. QED BY <1>1, <1>2, <1>3, <1>4, <1>5, <1>6, <1>7, <1>8 DEF ClientStep

LEMMA CrashType == ASSUME NEW p \in Players PROVE TypeOK /\ Crash(p) => TypeOK'
<1> SUFFICES ASSUME TypeOK, Crash(p) PROVE TypeOK'
  OBVIOUS
<1>1. <<>> \in Seq(Messages) /\ EmptyBoard \in Boards
  BY EmptySeq DEF EmptyBoard, Boards
<1>2. QED BY <1>1, SizeFacts DEF Crash, TypeOK, ClientPlaces, serverVars

----------------------------------------------------------------------------
(* The stages of a move.                                                   *)

LEMMA AllQuiet ==
  ASSUME MoveStages, spc \notin {"header", "payload"}
  PROVE  \A p \in Players : Quiet(p)
BY DEF MoveStages, Notified, Typing, HalfSent, WhollySent

(* A notification puts its message, and nothing else, in one queue.        *)
LEMMA NotifySends ==
  ASSUME TypeOK, NEW p \in Players, NEW msg \in Messages, NEW next,
         Notify(p, msg, next), NEW q \in Players, NEW x
  PROVE  Sent(q, x)' <=> Sent(q, x) \/ (q = p /\ x = msg /\ cpc[p] # "crashed")
<1>1. s2c[p] \in Seq(Messages)
  BY DEF TypeOK
<1>2. CASE cpc[p] # "crashed"
  <2>1. s2c' = [s2c EXCEPT ![p] = Append(s2c[p], msg)]
    BY <1>2 DEF Notify
  <2>2. CASE q = p
    <3>1. s2c'[q] = Append(s2c[p], msg)
      BY <2>1, <2>2 DEF TypeOK
    <3>2. QED BY <1>1, <1>2, <2>2, <3>1, HoldsAfterAppend DEF Sent
  <2>3. CASE q # p
    <3>1. s2c'[q] = s2c[q]
      BY <2>1, <2>3 DEF TypeOK
    <3>2. QED BY <2>3, <3>1 DEF Sent
  <2>4. QED BY <2>2, <2>3
<1>3. CASE cpc[p] = "crashed"
  BY <1>3 DEF Notify, Sent
<1>4. QED BY <1>2, <1>3

(* A client that receives takes the head of its queue, and nothing else.   *)
LEMMA ReceivesTakes ==
  ASSUME TypeOK, NEW p \in Players, NEW type, Receives(p, type),
         NEW q \in Players, NEW x
  PROVE  /\ Sent(q, x)' => Sent(q, x)
         /\ Sent(q, x) => Sent(q, x)' \/ (q = p /\ x = Head(s2c[p]))
<1>1. s2c[p] \in Seq(Messages) /\ s2c[p] # <<>>
  BY DEF TypeOK, Receives
<1>2. s2c' = [s2c EXCEPT ![p] = Tail(s2c[p])]
  BY DEF Receives
<1>3. CASE q = p
  <2>1. s2c'[q] = Tail(s2c[p])
    BY <1>2, <1>3 DEF TypeOK
  <2>2. (\E i \in DOMAIN s2c[p] : s2c[p][i] = x)
          <=> x = Head(s2c[p]) \/ \E i \in DOMAIN Tail(s2c[p]) : Tail(s2c[p])[i] = x
    BY <1>1, HoldsAfterTail
  <2>3. Sent(q, x)' <=> \E i \in DOMAIN Tail(s2c[p]) : Tail(s2c[p])[i] = x
    BY <2>1 DEF Sent
  <2>4. Sent(q, x) <=> \E i \in DOMAIN s2c[p] : s2c[p][i] = x
    BY <1>3 DEF Sent
  <2>5. QED BY <1>3, <2>2, <2>3, <2>4
<1>4. CASE q # p
  <2>1. s2c'[q] = s2c[q]
    BY <1>2, <1>4 DEF TypeOK
  <2>2. QED BY <1>4, <2>1 DEF Sent
<1>5. QED BY <1>3, <1>4

(* A notification other than of the turn leaves everybody quiet; the       *)
(* notification of the turn starts the move of the player it is sent to.   *)
LEMMA NotifyStages ==
  ASSUME TypeOK, MoveStages, NEW p \in Players, NEW msg \in Messages, NEW next,
         Notify(p, msg, next), spc \notin {"header", "payload"},
         \/ msg # YourTurn
         \/ p = turn /\ next = "header"
  PROVE  MoveStages'
<1> SUFFICES ASSUME NEW q \in Players
             PROVE  Quiet(q)' \/ (q = turn' /\ Notified(q)')
  BY DEF MoveStages
<1>1. Quiet(q)
  BY AllQuiet
<1>2. /\ turn' = turn /\ cpc' = cpc /\ c2s' = c2s
  BY DEF Notify, clientVars
<1>3. CASE msg # YourTurn \/ q # p \/ cpc[p] = "crashed"
  <2>1. ~Sent(q, YourTurn)'
    BY <1>1, <1>3, NotifySends DEF Quiet
  <2>2. QED BY <1>1, <1>2, <2>1 DEF Quiet
<1>4. CASE msg = YourTurn /\ q = p /\ cpc[p] # "crashed"
  <2>1. Sent(q, YourTurn)' /\ q = turn'
    BY <1>2, <1>4, NotifySends
  <2>2. spc' = "header"
    BY <1>4 DEF Notify
  <2>3. cpc'[q] \notin {"input", "payload", "crashed"} /\ c2s'[q] = <<>>
    BY <1>1, <1>2, <1>4 DEF Quiet
  <2>4. QED BY <2>1, <2>2, <2>3 DEF Notified
<1>5. QED BY <1>3, <1>4

(* A player who was stopped and of whose MOVE nothing is left to read is   *)
(* quiet.                                                                  *)
LEMMA GoneIsQuiet ==
  ASSUME MoveStages, NEW p \in Players, cpc[p] = "crashed", c2s[p] = <<>>
  PROVE  Quiet(p)
<1>1. ~Notified(p) /\ ~Typing(p)
  BY DEF Notified, Typing
<1>2. ~HalfSent(p)
  <2>1. c2s[p] # <<MoveHeader>>
    OBVIOUS
  <2>2. QED BY <2>1 DEF HalfSent
<1>3. ~WhollySent(p)
  <2>1. \A c \in Cells : c2s[p] # <<MoveHeader, MovePayload(c)>>
                        /\ c2s[p] # <<MovePayload(c)>>
    OBVIOUS
  <2>2. QED BY <2>1 DEF WhollySent
<1>4. QED BY <1>1, <1>2, <1>3 DEF MoveStages

(* Nothing is at stake in the stages of players other than the mover.      *)
LEMMA OtherIsQuiet ==
  ASSUME MoveStages, NEW p \in Players, p # turn
  PROVE  Quiet(p)
BY DEF MoveStages

LEMMA ServerStages ==
  ASSUME TypeOK, MoveStages, ResultIsKnown, ServerStep
  PROVE  MoveStages'
<1>0. turn \in Players /\ move \in Cells /\ status \in {-1, 0} \cup Players
  BY DEF TypeOK
<1>1. CASE Accept
  <2>1. \A q \in Players : Quiet(q)
    BY <1>1, AllQuiet DEF Accept
  <2>2. QED BY <1>1, <2>1 DEF Accept, MoveStages, Quiet, Sent, clientVars
<1>2. CASE NotifyReady1
  BY <1>2, NotifyStages, MessageFacts DEF NotifyReady1, Players
<1>3. CASE NotifyReady2
  BY <1>3, NotifyStages, MessageFacts DEF NotifyReady2, Players
<1>4. CASE NotifyTurn
  BY <1>0, <1>4, NotifyStages, MessageFacts DEF NotifyTurn
<1>5. CASE NotifyState1 \/ NotifyState2
  <2>1. State(move, turn) \in Messages /\ State(move, turn) # YourTurn
    BY <1>0, MessageFacts
  <2>2. QED BY <1>5, <2>1, NotifyStages DEF NotifyState1, NotifyState2, Players
<1>6. CASE NotifyResult1 \/ NotifyResult2
  <2>1. status \in {0} \cup Players
    BY <1>0, <1>6 DEF NotifyResult1, NotifyResult2, ResultIsKnown
  <2>2. Result(status) \in Messages /\ Result(status) # YourTurn
    BY <2>1, MessageFacts
  <2>3. QED BY <1>6, <2>2, NotifyStages DEF NotifyResult1, NotifyResult2, Players
<1>7. CASE RecvHeader
  <2>1. HalfSent(turn) \/ WhollySent(turn)
    BY <1>0, <1>7 DEF RecvHeader, MoveStages, Quiet, Notified, Typing
  <2>2. /\ \A q \in Players : q # turn => c2s'[q] = c2s[q]
        /\ c2s'[turn] = Tail(c2s[turn])
        /\ turn' = turn /\ cpc' = cpc /\ s2c' = s2c
    BY <1>0, <1>7 DEF RecvHeader, TypeOK, clientVars
  <2>3. CASE HalfSent(turn)
    <3>1. c2s[turn] = <<MoveHeader>> /\ cpc[turn] \in {"payload", "crashed"}
      BY <1>7, <2>3 DEF RecvHeader, HalfSent
    <3>2. spc' = "payload" /\ c2s'[turn] = <<>>
      BY <1>7, <2>2, <3>1 DEF RecvHeader
    <3>3. Quiet(turn)' \/ HalfSent(turn)'
      BY <2>2, <2>3, <3>1, <3>2 DEF Quiet, HalfSent, Sent
    <3>4. QED BY <2>2, <3>3, OtherIsQuiet DEF MoveStages, Quiet, Sent
  <2>4. CASE WhollySent(turn)
    <3>1. PICK c \in Cells : c2s[turn] = <<MoveHeader, MovePayload(c)>>
      BY <1>7, <2>4 DEF RecvHeader, WhollySent
    <3>2. spc' = "payload" /\ c2s'[turn] = <<MovePayload(c)>>
      BY <1>7, <2>2, <3>1 DEF RecvHeader
    <3>3. WhollySent(turn)'
      BY <2>2, <2>4, <3>2 DEF WhollySent, Sent
    <3>4. QED BY <2>2, <3>3, OtherIsQuiet DEF MoveStages, Quiet, Sent
  <2>5. QED BY <2>1, <2>3, <2>4
<1>8. CASE RecvHeaderFails
  <2>1. Quiet(turn)
    BY <1>0, <1>8, GoneIsQuiet DEF RecvHeaderFails
  <2>2. QED BY <1>8, <2>1, OtherIsQuiet DEF RecvHeaderFails, MoveStages, Quiet, Sent, clientVars
<1>9. CASE RecvPayload
  <2>1. c2s[turn] = <<MovePayload(Head(c2s[turn]).cell)>>
        /\ cpc[turn] \in {"recv", "crashed"} /\ ~Sent(turn, YourTurn)
    BY <1>9, PayloadWaiting DEF RecvPayload
  <2>2. c2s'[turn] = <<>> /\ \A q \in Players : q # turn => c2s'[q] = c2s[q]
    BY <1>0, <1>9, <2>1 DEF RecvPayload, TypeOK
  <2>3. Quiet(turn)'
    BY <1>9, <2>1, <2>2 DEF RecvPayload, Quiet, Sent, clientVars
  <2>4. QED BY <1>9, <2>2, <2>3, OtherIsQuiet DEF RecvPayload, MoveStages, Quiet, Sent, clientVars
<1>10. CASE RecvPayloadFails
  <2>1. Quiet(turn)
    BY <1>0, <1>10, GoneIsQuiet DEF RecvPayloadFails
  <2>2. QED BY <1>10, <2>1, OtherIsQuiet DEF RecvPayloadFails, MoveStages, Quiet, Sent, clientVars
<1>11. CASE CheckBoard
  <2>1. \A q \in Players : Quiet(q)
    BY <1>11, AllQuiet DEF CheckBoard
  <2>2. QED BY <1>11, <2>1 DEF CheckBoard, MoveStages, Quiet, Sent, clientVars
<1>12. QED
  BY <1>1, <1>2, <1>3, <1>4, <1>5, <1>6, <1>7, <1>8, <1>9, <1>10, <1>11
     DEF ServerStep

(* Receiving anything but the turn changes no stage.                       *)
LEMMA ReceivesStages ==
  ASSUME TypeOK, MoveStages, NEW p \in Players, NEW type, Receives(p, type),
         type # "TURN_NOTIFICATION", UNCHANGED cpc
  PROVE  MoveStages'
<1>1. Head(s2c[p]) \in Messages /\ Head(s2c[p]).type = type /\ cpc[p] = "recv"
  BY ReceivesType DEF Receives
<1>2. Head(s2c[p]) # YourTurn
  BY <1>1 DEF YourTurn
<1>3. /\ spc' = spc /\ turn' = turn /\ c2s' = c2s /\ cpc' = cpc
      /\ \A q \in Players : q # p => s2c'[q] = s2c[q]
  BY DEF Receives, serverVars, TypeOK
<1>4. \A q \in Players : Sent(q, YourTurn)' <=> Sent(q, YourTurn)
  BY <1>2, ReceivesTakes
<1>5. SUFFICES ASSUME NEW q \in Players
               PROVE  \/ Quiet(q)'
                      \/ q = turn' /\ (Notified(q) \/ Typing(q) \/ HalfSent(q) \/ WhollySent(q))'
  BY DEF MoveStages
<1>6. CASE Quiet(q)
  BY <1>3, <1>4, <1>6 DEF Quiet
<1>7. CASE q = turn /\ Notified(q)
  BY <1>3, <1>4, <1>7 DEF Notified
<1>8. CASE q = turn /\ Typing(q)
  <2>1. q # p
    BY <1>1, <1>8 DEF Typing
  <2>2. QED BY <1>3, <1>8, <2>1 DEF Typing
<1>9. CASE q = turn /\ HalfSent(q)
  BY <1>3, <1>4, <1>9 DEF HalfSent
<1>10. CASE q = turn /\ WhollySent(q)
  BY <1>3, <1>4, <1>10 DEF WhollySent
<1>11. QED BY <1>6, <1>7, <1>8, <1>9, <1>10 DEF MoveStages

(* The rest of a queue whose head is the turn is empty.                    *)
LEMMA TurnAtHead ==
  ASSUME TypeOK, TurnIsLast, NEW p \in Players, Receives(p, "TURN_NOTIFICATION")
  PROVE  Sent(p, YourTurn) /\ s2c'[p] = <<>>
<1>1. s2c[p] \in Seq(Messages) /\ s2c[p] # <<>>
  BY DEF TypeOK, Receives
<1>2. Head(s2c[p]) = YourTurn
  BY ReceivesType, MessageFacts DEF Receives
<1>3. /\ Head(s2c[p]) = s2c[p][1] /\ DOMAIN s2c[p] = 1 .. Len(s2c[p])
      /\ Len(s2c[p]) \in Nat /\ Len(s2c[p]) # 0
  BY <1>1, EmptySeq, LenProperties
<1>4. 1 = Len(s2c[p])
  <2>1. 1 \in DOMAIN s2c[p] /\ s2c[p][1] = YourTurn
    BY <1>2, <1>3
  <2>2. QED BY <2>1 DEF TurnIsLast
<1>5. Tail(s2c[p]) \in Seq(Messages) /\ Len(Tail(s2c[p])) = 0
  BY <1>1, <1>4, HeadTailProperties
<1>6. Tail(s2c[p]) = <<>>
  BY <1>5, EmptySeq
<1>7. s2c'[p] = Tail(s2c[p])
  BY DEF Receives, TypeOK
<1>8. Sent(p, YourTurn)
  <2>1. 1 \in DOMAIN s2c[p] /\ s2c[p][1] = YourTurn
    BY <1>2, <1>3
  <2>2. QED BY <2>1 DEF Sent
<1>9. QED BY <1>6, <1>7, <1>8

LEMMA NothingSent ==
  ASSUME NEW p \in Players, s2c[p] = <<>>, NEW x
  PROVE  ~Sent(p, x)
BY DEF Sent

LEMMA AppendToOne ==
  ASSUME NEW m, NEW n
  PROVE  Append(<<m>>, n) = <<m, n>>
<1> DEFINE S == {m, n}
<1>1. <<m>> \in Seq(S) /\ <<m, n>> \in Seq(S) /\ Len(<<m>>) = 1 /\ Len(<<m, n>>) = 2
  OBVIOUS
<1>2. /\ Append(<<m>>, n) \in Seq(S)
      /\ Len(Append(<<m>>, n)) = 2
      /\ Append(<<m>>, n)[1] = m /\ Append(<<m>>, n)[2] = n
  BY <1>1, AppendProperties
<1>3. \A i \in 1 .. Len(Append(<<m>>, n)) : Append(<<m>>, n)[i] = <<m, n>>[i]
  BY <1>2
<1>4. Len(Append(<<m>>, n)) = Len(<<m, n>>)
  BY <1>1, <1>2
<1> HIDE DEF S
<1>5. QED BY <1>1, <1>2, <1>3, <1>4, SeqEqual

LEMMA ClientStages ==
  ASSUME TypeOK, MoveStages, TurnIsLast, NEW p \in Players, ClientStep(p)
  PROVE  MoveStages'
<1> DEFINE Stage(q) == \/ Quiet(q)
                       \/ q = turn /\ (Notified(q) \/ Typing(q) \/ HalfSent(q) \/ WhollySent(q))
<1>1. CASE Connect(p)
  <2>1. /\ spc' = spc /\ turn' = turn /\ c2s' = c2s /\ s2c' = s2c
        /\ cpc[p] = "start" /\ cpc'[p] = "recv"
        /\ \A q \in Players : q # p => cpc'[q] = cpc[q]
    BY <1>1 DEF Connect, serverVars, TypeOK
  <2>2. ASSUME NEW q \in Players PROVE Stage(q)'
    <3>1. Stage(q)
      BY DEF MoveStages
    <3>2. CASE q = p
      <4>1. Quiet(q) \/ (q = turn /\ Notified(q))
        BY <2>1, <3>1, <3>2 DEF Typing, HalfSent, WhollySent
      <4>2. QED BY <2>1, <3>2, <4>1 DEF Quiet, Notified, Sent
    <3>3. CASE q # p
      BY <2>1, <3>1, <3>3 DEF Quiet, Notified, Typing, HalfSent, WhollySent, Sent
    <3>4. QED BY <3>2, <3>3
  <2>3. QED BY <2>2 DEF MoveStages
<1>2. CASE ReceiveReady(p) \/ ReceiveState(p) \/ ReceiveResult(p)
  BY <1>2, ReceivesStages DEF ReceiveReady, ReceiveState, ReceiveResult
<1>3. CASE ReceiveTurn(p)
  <2>1. Sent(p, YourTurn) /\ s2c'[p] = <<>>
    BY <1>3, TurnAtHead DEF ReceiveTurn
  <2>2. p = turn /\ Notified(p)
    BY <2>1, NothingSent DEF MoveStages, Quiet, Typing, HalfSent, WhollySent
  <2>3. /\ spc' = spc /\ turn' = turn /\ c2s' = c2s /\ cpc'[p] = "input"
        /\ \A q \in Players : q # p => cpc'[q] = cpc[q] /\ s2c'[q] = s2c[q]
    BY <1>3 DEF ReceiveTurn, Receives, serverVars, TypeOK
  <2>4. Typing(p)'
    BY <2>1, <2>2, <2>3 DEF Notified, Typing
  <2>5. QED BY <2>2, <2>3, <2>4, OtherIsQuiet DEF MoveStages, Quiet, Sent
<1>4. CASE Choose(p)
  <2>1. p = turn /\ Typing(p)
    BY <1>4 DEF Choose, MoveStages, Quiet, Notified, HalfSent, WhollySent
  <2>2. /\ spc' = spc /\ turn' = turn /\ s2c' = s2c /\ cpc'[p] = "payload"
        /\ c2s'[p] = Append(<<>>, MoveHeader)
        /\ \A q \in Players : q # p => cpc'[q] = cpc[q] /\ c2s'[q] = c2s[q]
    BY <1>4, <2>1 DEF Choose, Typing, serverVars, TypeOK
  <2>3. HalfSent(p)'
    BY <2>1, <2>2 DEF Typing, HalfSent, Sent
  <2>4. QED BY <2>1, <2>2, <2>3, OtherIsQuiet DEF MoveStages, Quiet, Sent
<1>5. CASE SendPayload(p)
  <2>1. p = turn /\ HalfSent(p)
    BY <1>5 DEF SendPayload, MoveStages, Quiet, Notified, Typing, WhollySent
  <2>2. /\ spc' = spc /\ turn' = turn /\ s2c' = s2c /\ cpc'[p] = "recv"
        /\ c2s'[p] = Append(c2s[p], MovePayload(choice[p]))
        /\ \A q \in Players : q # p => cpc'[q] = cpc[q] /\ c2s'[q] = c2s[q]
    BY <1>5 DEF SendPayload, serverVars, TypeOK
  <2>3. choice[p] \in Cells
    BY DEF TypeOK
  <2>4. \/ spc = "header" /\ c2s'[p] = <<MoveHeader, MovePayload(choice[p])>>
        \/ spc = "payload" /\ c2s'[p] = <<MovePayload(choice[p])>>
    <3>1. \/ spc = "header" /\ c2s[p] = <<MoveHeader>>
          \/ spc = "payload" /\ c2s[p] = <<>>
      BY <2>1 DEF HalfSent
    <3>2. CASE spc = "header" /\ c2s[p] = <<MoveHeader>>
      BY <2>2, <3>2, AppendToOne
    <3>3. CASE spc = "payload" /\ c2s[p] = <<>>
      BY <2>2, <3>3
    <3>4. QED BY <3>1, <3>2, <3>3
  <2>5. WhollySent(p)'
    BY <2>1, <2>2, <2>3, <2>4 DEF HalfSent, WhollySent, Sent
  <2>6. QED BY <2>1, <2>2, <2>5, OtherIsQuiet DEF MoveStages, Quiet, Sent
<1>6. CASE ReceiveEnd(p)
  <2>1. \A q \in Players : Quiet(q)
    BY <1>6, AllQuiet DEF ReceiveEnd, Stopped
  <2>2. QED BY <1>6, <2>1 DEF ReceiveEnd, MoveStages, Quiet, Sent, serverVars, TypeOK
<1>7. QED BY <1>1, <1>2, <1>3, <1>4, <1>5, <1>6 DEF ClientStep

LEMMA CrashStages ==
  ASSUME TypeOK, MoveStages, NEW p \in Players, Crash(p)
  PROVE  MoveStages'
<1>1. /\ spc' = spc /\ turn' = turn /\ c2s' = c2s
      /\ cpc'[p] = "crashed" /\ s2c'[p] = <<>>
      /\ \A q \in Players : q # p => cpc'[q] = cpc[q] /\ s2c'[q] = s2c[q]
  BY DEF Crash, serverVars, TypeOK
<1>2. ~Sent(p, YourTurn)'
  BY <1>1 DEF Sent
<1>3. CASE c2s[p] = <<>>
  <2>1. Quiet(p)'
    BY <1>1, <1>2, <1>3 DEF Quiet
  <2>2. QED
    BY <1>1, <2>1 DEF MoveStages, Quiet, Notified, Typing, HalfSent, WhollySent, Sent
<1>4. CASE c2s[p] # <<>>
  <2>1. p = turn /\ (HalfSent(p) \/ WhollySent(p))
    BY <1>4 DEF MoveStages, Quiet, Notified, Typing
  <2>2. HalfSent(p)' \/ WhollySent(p)'
    BY <1>1, <1>2, <1>4, <2>1 DEF HalfSent, WhollySent
  <2>3. QED BY <1>1, <2>1, <2>2, OtherIsQuiet DEF MoveStages, Quiet, Sent
<1>5. QED BY <1>3, <1>4

----------------------------------------------------------------------------
(* The turn is the last message of its queue.                              *)

LEMMA LastAfterAppend ==
  ASSUME NEW S, NEW s \in Seq(S), NEW e \in S, NEW x, \A i \in DOMAIN s : s[i] # x
  PROVE  \A i \in DOMAIN Append(s, e) : Append(s, e)[i] = x => i = Len(Append(s, e))
<1>1. /\ Len(Append(s, e)) = Len(s) + 1 /\ Append(s, e) \in Seq(S)
      /\ \A i \in 1 .. Len(s) : Append(s, e)[i] = s[i]
  BY AppendProperties
<1>2. Len(s) \in Nat /\ DOMAIN s = 1 .. Len(s)
      /\ DOMAIN Append(s, e) = 1 .. (Len(s) + 1)
  BY <1>1, LenProperties
<1>3. QED BY <1>1, <1>2

LEMMA LastAfterTail ==
  ASSUME NEW S, NEW s \in Seq(S), s # <<>>, NEW x,
         \A i \in DOMAIN s : s[i] = x => i = Len(s)
  PROVE  \A i \in DOMAIN Tail(s) : Tail(s)[i] = x => i = Len(Tail(s))
<1>1. /\ Tail(s) \in Seq(S)
      /\ Len(Tail(s)) = Len(s) - 1
      /\ \A i \in 1 .. Len(Tail(s)) : Tail(s)[i] = s[i + 1]
  BY HeadTailProperties
<1>2. Len(s) \in Nat /\ DOMAIN s = 1 .. Len(s) /\ DOMAIN Tail(s) = 1 .. (Len(s) - 1)
  BY <1>1, LenProperties
<1>3. ASSUME NEW i \in DOMAIN Tail(s), Tail(s)[i] = x
      PROVE  i = Len(Tail(s))
  <2>1. i + 1 \in DOMAIN s /\ s[i + 1] = x
    BY <1>1, <1>2, <1>3
  <2>2. i + 1 = Len(s)
    BY <2>1
  <2>3. QED BY <1>1, <1>2, <2>2
<1>4. QED BY <1>3

(* The server's queues change by a notification or not at all.             *)
LEMMA ServerQueues ==
  ASSUME TypeOK, ResultIsKnown, ServerStep
  PROVE  \/ UNCHANGED s2c
         \/ /\ spc \notin {"header", "payload"}
            /\ \E p \in Players, msg \in Messages, next \in ServerPlaces : Notify(p, msg, next)
<1>1. turn \in Players /\ move \in Cells /\ status \in {-1, 0} \cup Players
  BY DEF TypeOK
<1>2. State(move, turn) \in Messages /\ YourTurn \in Messages
      /\ Ready(1) \in Messages /\ Ready(2) \in Messages
  BY <1>1, MessageFacts DEF Players
<1>3. CASE NotifyReady1
  BY <1>2, <1>3 DEF NotifyReady1, Players, ServerPlaces
<1>4. CASE NotifyReady2
  BY <1>2, <1>4 DEF NotifyReady2, Players, ServerPlaces
<1>5. CASE NotifyTurn
  BY <1>1, <1>2, <1>5 DEF NotifyTurn, ServerPlaces
<1>6. CASE NotifyState1
  BY <1>2, <1>6 DEF NotifyState1, Players, ServerPlaces
<1>7. CASE NotifyState2
  BY <1>2, <1>7 DEF NotifyState2, Players, ServerPlaces
<1>8. CASE NotifyResult1 \/ NotifyResult2
  <2>1. Result(status) \in Messages
    BY <1>1, <1>8, MessageFacts DEF NotifyResult1, NotifyResult2, ResultIsKnown
  <2>2. QED BY <1>8, <2>1 DEF NotifyResult1, NotifyResult2, Players, ServerPlaces, Stopped
<1>9. CASE \/ Accept \/ RecvHeader \/ RecvHeaderFails
           \/ RecvPayload \/ RecvPayloadFails \/ CheckBoard
  BY <1>9 DEF Accept, RecvHeader, RecvHeaderFails, RecvPayload, RecvPayloadFails, CheckBoard
<1>10. QED BY <1>3, <1>4, <1>5, <1>6, <1>7, <1>8, <1>9 DEF ServerStep

LEMMA ServerTurnIsLast ==
  ASSUME TypeOK, MoveStages, TurnIsLast, ResultIsKnown, ServerStep
  PROVE  TurnIsLast'
<1>1. CASE UNCHANGED s2c
  BY <1>1 DEF TurnIsLast
<1>2. CASE /\ spc \notin {"header", "payload"}
           /\ \E p \in Players, msg \in Messages, next \in ServerPlaces : Notify(p, msg, next)
  <2>1. PICK p \in Players, msg \in Messages, next \in ServerPlaces : Notify(p, msg, next)
    BY <1>2
  <2>2. CASE s2c' = s2c
    BY <2>2 DEF TurnIsLast
  <2>3. CASE s2c' = [s2c EXCEPT ![p] = Append(@, msg)]
    <3>1. s2c[p] \in Seq(Messages) /\ \A i \in DOMAIN s2c[p] : s2c[p][i] # YourTurn
      BY <1>2, AllQuiet DEF Quiet, Sent, TypeOK
    <3>2. s2c'[p] = Append(s2c[p], msg) /\ \A q \in Players : q # p => s2c'[q] = s2c[q]
      BY <2>3 DEF TypeOK
    <3>3. \A i \in DOMAIN s2c'[p] : s2c'[p][i] = YourTurn => i = Len(s2c'[p])
      BY <3>1, <3>2, LastAfterAppend
    <3>4. QED BY <3>2, <3>3 DEF TurnIsLast
  <2>4. QED BY <2>1, <2>2, <2>3 DEF Notify
<1>3. QED BY <1>1, <1>2, ServerQueues

LEMMA ReceivesTurnIsLast ==
  ASSUME TypeOK, TurnIsLast, NEW p \in Players, NEW type, Receives(p, type)
  PROVE  TurnIsLast'
<1>1. /\ s2c[p] \in Seq(Messages) /\ s2c[p] # <<>>
      /\ \A i \in DOMAIN s2c[p] : s2c[p][i] = YourTurn => i = Len(s2c[p])
  BY DEF TypeOK, Receives, TurnIsLast
<1>2. s2c'[p] = Tail(s2c[p]) /\ \A q \in Players : q # p => s2c'[q] = s2c[q]
  BY DEF Receives, TypeOK
<1>3. \A i \in DOMAIN s2c'[p] : s2c'[p][i] = YourTurn => i = Len(s2c'[p])
  BY <1>1, <1>2, LastAfterTail
<1>4. QED BY <1>2, <1>3 DEF TurnIsLast

LEMMA ClientTurnIsLast ==
  ASSUME TypeOK, TurnIsLast, NEW p \in Players, ClientStep(p) \/ Crash(p)
  PROVE  TurnIsLast'
<1>1. CASE ReceiveReady(p) \/ ReceiveTurn(p) \/ ReceiveState(p) \/ ReceiveResult(p)
  BY <1>1, ReceivesTurnIsLast DEF ReceiveReady, ReceiveTurn, ReceiveState, ReceiveResult
<1>2. CASE Connect(p) \/ Choose(p) \/ SendPayload(p) \/ ReceiveEnd(p)
  <2>1. s2c' = s2c
    BY <1>2 DEF Connect, Choose, SendPayload, ReceiveEnd
  <2>2. QED BY <2>1 DEF TurnIsLast
<1>3. CASE Crash(p)
  <2>1. s2c'[p] = <<>> /\ \A q \in Players : q # p => s2c'[q] = s2c[q]
    BY <1>3 DEF Crash, TypeOK
  <2>2. QED BY <2>1 DEF TurnIsLast
<1>4. QED BY <1>1, <1>2, <1>3 DEF ClientStep

----------------------------------------------------------------------------
(* Every mark reaches every live client.                                   *)

(* A step of the server that marks nothing and has no mark left to notify. *)
LEMMA InformedKept ==
  ASSUME Informed, spc \notin {"failed", "state1", "state2"},
         board' = board, view' = view, cpc' = cpc,
         \A p \in Players : \A x : Sent(p, x) => Sent(p, x)'
  PROVE  Informed'
<1>1. SUFFICES ASSUME NEW p \in Players, NEW c \in Cells,
                      cpc[p] # "crashed", board[c] # 0
               PROVE  view[p][c] # 0 \/ \E q \in Players : Sent(p, State(c, q))'
  BY DEF Informed, Told
<1>2. view[p][c] # 0 \/ \E q \in Players : Sent(p, State(c, q))
  BY <1>1 DEF Informed, Told, StillToSend
<1>3. QED BY <1>2

LEMMA ServerInformed ==
  ASSUME TypeOK, MoveStages, Informed, ResultIsKnown, ServerStep
  PROVE  Informed'
<1>0. turn \in Players /\ move \in Cells
  BY DEF TypeOK
<1>1. \A p \in Players : \A x : Sent(p, x) => Sent(p, x)'
  <2>1. CASE UNCHANGED s2c
    BY <2>1 DEF Sent
  <2>2. CASE \E p \in Players, msg \in Messages, next \in ServerPlaces : Notify(p, msg, next)
    BY <2>2, NotifySends
  <2>3. QED BY <2>1, <2>2, ServerQueues
<1>2. CASE \/ Accept \/ NotifyReady1 \/ NotifyReady2 \/ NotifyTurn
           \/ RecvHeader \/ RecvHeaderFails \/ CheckBoard
           \/ NotifyResult1 \/ NotifyResult2
  <2>1. /\ spc \notin {"failed", "state1", "state2"}
        /\ board' = board /\ view' = view /\ cpc' = cpc
    BY <1>2 DEF Accept, NotifyReady1, NotifyReady2, NotifyTurn, RecvHeader,
                RecvHeaderFails, CheckBoard, NotifyResult1, NotifyResult2, Notify, clientVars
  <2>2. QED BY <1>1, <2>1, InformedKept
<1>3. CASE NotifyState1
  <2>1. PICK d \in Cells, o \in Players : d = move /\ o = turn
    BY <1>0
  <2>2. /\ spc = "state1" /\ spc' \in {"state2", "failed"}
        /\ board' = board /\ view' = view /\ cpc' = cpc /\ move' = move
    BY <1>3 DEF NotifyState1, Notify, clientVars
  <2>3. cpc[1] # "crashed" => Sent(1, State(d, o))'
    <3>1. State(d, o) \in Messages
      BY MessageFacts
    <3>2. 1 \in Players /\ \E next : Notify(1, State(d, o), next)
      BY <1>3, <2>1 DEF NotifyState1, Players
    <3>3. QED BY <3>1, <3>2, NotifySends
  <2>4. SUFFICES ASSUME NEW p \in Players, NEW c \in Cells, spc' = "state2",
                        cpc[p] # "crashed", board[c] # 0
                 PROVE  Told(p, c)'
    BY <2>2 DEF Informed, Told
  <2>5. Told(p, c)
    BY <2>2, <2>4 DEF Informed, Told
  <2>6. CASE move = c
    <3>1. CASE p = 1
      BY <2>1, <2>3, <2>4, <2>6, <3>1 DEF Told
    <3>2. CASE p = 2
      BY <2>2, <2>4, <2>6, <3>2 DEF Told, StillToSend
    <3>3. QED BY <3>1, <3>2 DEF Players
  <2>7. CASE move # c
    BY <1>1, <2>2, <2>5, <2>7 DEF Told
  <2>8. QED BY <2>6, <2>7
<1>4. CASE NotifyState2
  <2>1. PICK d \in Cells, o \in Players : d = move /\ o = turn
    BY <1>0
  <2>2. /\ spc = "state2" /\ spc' \in {"check", "failed"}
        /\ board' = board /\ view' = view /\ cpc' = cpc /\ move' = move
    BY <1>4 DEF NotifyState2, Notify, clientVars
  <2>3. cpc[2] # "crashed" => Sent(2, State(d, o))'
    <3>1. State(d, o) \in Messages
      BY MessageFacts
    <3>2. 2 \in Players /\ \E next : Notify(2, State(d, o), next)
      BY <1>4, <2>1 DEF NotifyState2, Players
    <3>3. QED BY <3>1, <3>2, NotifySends
  <2>4. SUFFICES ASSUME NEW p \in Players, NEW c \in Cells,
                        cpc[p] # "crashed", board[c] # 0
                 PROVE  Told(p, c)'
    BY <2>2 DEF Informed, Told
  <2>5. Told(p, c)
    BY <2>2, <2>4 DEF Informed, Told
  <2>6. CASE p = 2 /\ move = c
    BY <2>1, <2>3, <2>4, <2>6 DEF Told
  <2>7. CASE ~(p = 2 /\ move = c)
    <3>1. ~(StillToSend(p) /\ move = c)
      BY <2>2, <2>7 DEF StillToSend
    <3>2. QED BY <1>1, <2>2, <2>5, <3>1 DEF Told
  <2>8. QED BY <2>6, <2>7
<1>5. CASE RecvPayload \/ RecvPayloadFails
  <2>1. /\ spc = "payload" /\ view' = view /\ cpc' = cpc /\ s2c' = s2c
        /\ \/ \E c : Place(c)
           \/ spc' = "failed"
    BY <1>5 DEF RecvPayload, RecvPayloadFails, clientVars
  <2>2. CASE spc' = "failed"
    BY <2>2 DEF Informed
  <2>3. ASSUME NEW d, Place(d)
        PROVE  Informed'
    <3>1. spc' = "state1" /\ move' = d /\ board' = [board EXCEPT ![d] = turn]
      BY <2>3 DEF Place
    <3>2. SUFFICES ASSUME NEW p \in Players, NEW c \in Cells, cpc[p] # "crashed",
                          board'[c] # 0
                   PROVE  Told(p, c)'
      BY <2>1 DEF Informed, Told
    <3>3. CASE c = d
      BY <3>1, <3>3 DEF Told, StillToSend
    <3>4. CASE c # d
      <4>1. board[c] # 0
        BY <3>1, <3>2, <3>4 DEF TypeOK, Boards
      <4>2. Told(p, c) /\ ~StillToSend(p)
        BY <2>1, <3>2, <4>1 DEF Informed, Told, StillToSend
      <4>3. QED BY <1>1, <2>1, <4>2 DEF Told
    <3>5. QED BY <3>3, <3>4
  <2>4. QED BY <2>1, <2>2, <2>3
<1>6. QED BY <1>2, <1>3, <1>4, <1>5 DEF ServerStep

(* A client that receives a mark has it on its board.                      *)
LEMMA ClientInformed ==
  ASSUME TypeOK, Informed, NEW p \in Players, ClientStep(p)
  PROVE  Informed'
<1>1. /\ spc' = spc /\ board' = board /\ move' = move
      /\ \A q \in Players : cpc'[q] # "crashed" => cpc[q] # "crashed"
  BY DEF ClientStep, Connect, ReceiveReady, ReceiveTurn, ReceiveState, ReceiveResult, Receives,
         Choose, SendPayload, ReceiveEnd, serverVars, TypeOK
<1>2. SUFFICES ASSUME NEW q \in Players, NEW c \in Cells, Told(q, c), spc # "failed",
                      board[c] # 0, cpc[q] # "crashed"
               PROVE  Told(q, c)'
  BY <1>1 DEF Informed
<1>3. CASE view' = view /\ s2c' = s2c
  BY <1>1, <1>2, <1>3 DEF Told, Sent, StillToSend
<1>4. CASE ReceiveReady(p) \/ ReceiveTurn(p) \/ ReceiveResult(p)
  <2>1. PICK type \in {"READY", "TURN_NOTIFICATION", "RESULT"} : Receives(p, type)
    BY <1>4 DEF ReceiveReady, ReceiveTurn, ReceiveResult
  <2>2. Head(s2c[p]).type # "STATE_UPDATE"
    BY <2>1 DEF Receives
  <2>3. \A o \in Players : State(c, o) # Head(s2c[p])
    BY <2>2 DEF State
  <2>4. \A o \in Players : Sent(q, State(c, o)) => Sent(q, State(c, o))'
    BY <2>1, <2>3, ReceivesTakes
  <2>5. view' = view
    BY <1>4 DEF ReceiveReady, ReceiveTurn, ReceiveResult
  <2>6. QED BY <1>1, <1>2, <2>4, <2>5 DEF Told, StillToSend
<1>5. CASE ReceiveState(p)
  <2> DEFINE m == Head(s2c[p])
  <2>1. Receives(p, "STATE_UPDATE")
    BY <1>5 DEF ReceiveState
  <2>2. m.cell \in Cells /\ m.no \in Players /\ m = State(m.cell, m.no)
    BY <2>1, ReceivesType, MessageFacts DEF Receives
  <2>3. view' = [view EXCEPT ![p] = [@ EXCEPT ![m.cell] = m.no]]
    BY <1>5 DEF ReceiveState
  <2>4. /\ \A d \in Cells : view[q][d] # 0 => view'[q][d] # 0
        /\ view'[p][m.cell] # 0
    BY <2>2, <2>3 DEF TypeOK, Boards, Players
  <2>5. CASE q = p /\ c = m.cell
    BY <2>4, <2>5 DEF Told
  <2>6. CASE q # p \/ c # m.cell
    <3>1. \A o \in Players : q = p => State(c, o) # m
      BY <2>6 DEF State
    <3>2. \A o \in Players : Sent(q, State(c, o)) => Sent(q, State(c, o))'
      BY <2>1, <3>1, ReceivesTakes
    <3>3. QED BY <1>1, <1>2, <2>4, <3>2 DEF Told, StillToSend
  <2>7. QED BY <2>5, <2>6
<1>6. CASE Choose(p)
  <2>1. s2c' = s2c /\ \A d \in Cells : view[q][d] # 0 => view'[q][d] # 0
    BY <1>6 DEF Choose, TypeOK, Boards
  <2>2. QED BY <1>1, <1>2, <2>1 DEF Told, Sent, StillToSend
<1>7. CASE Connect(p) \/ SendPayload(p) \/ ReceiveEnd(p)
  BY <1>3, <1>7 DEF Connect, SendPayload, ReceiveEnd
<1>8. QED BY <1>4, <1>5, <1>6, <1>7 DEF ClientStep

LEMMA CrashInformed ==
  ASSUME TypeOK, Informed, NEW p \in Players, Crash(p)
  PROVE  Informed'
<1>1. /\ spc' = spc /\ board' = board /\ move' = move /\ cpc'[p] = "crashed"
      /\ \A q \in Players : q # p => cpc'[q] = cpc[q] /\ s2c'[q] = s2c[q] /\ view'[q] = view[q]
  BY DEF Crash, serverVars, TypeOK
<1>2. SUFFICES ASSUME NEW q \in Players, NEW c \in Cells, q # p, Told(q, c)
               PROVE  Told(q, c)'
  BY <1>1 DEF Informed
<1>3. QED BY <1>1, <1>2 DEF Told, Sent, StillToSend

----------------------------------------------------------------------------
(* A chosen cell stays empty.                                              *)

LEMMA ServerChoiceIsFree ==
  ASSUME TypeOK, MoveStages, ChoiceIsFree, ResultIsKnown, ServerStep
  PROVE  ChoiceIsFree'
<1>1. CASE board' = board /\ c2s' = c2s /\ cpc' = cpc /\ choice' = choice
  BY <1>1 DEF ChoiceIsFree, InFlight
<1>2. CASE RecvHeader
  <2>1. /\ board' = board /\ cpc' = cpc /\ choice' = choice
        /\ c2s' = [c2s EXCEPT ![turn] = Tail(@)]
        /\ turn \in Players /\ c2s[turn] # <<>> /\ c2s[turn] \in Seq(MoveParts)
    BY <1>2 DEF RecvHeader, clientVars, TypeOK
  <2>2. ASSUME NEW p \in Players, NEW c \in Cells, InFlight(p, c)'
        PROVE  InFlight(p, c)
    <3>1. CASE p = turn
      <4>1. c2s'[p] = Tail(c2s[turn])
        BY <2>1, <3>1 DEF TypeOK
      <4>2. PICK x : x = MovePayload(c)
        OBVIOUS
      <4>3. (\E i \in DOMAIN Tail(c2s[turn]) : Tail(c2s[turn])[i] = x)
              => \E i \in DOMAIN c2s[turn] : c2s[turn][i] = x
        BY <2>1, HoldsAfterTail
      <4>4. QED BY <2>1, <2>2, <3>1, <4>1, <4>2, <4>3 DEF InFlight
    <3>2. CASE p # turn
      BY <2>1, <2>2, <3>2 DEF InFlight, TypeOK
    <3>3. QED BY <3>1, <3>2
  <2>3. QED BY <2>1, <2>2 DEF ChoiceIsFree
<1>3. CASE RecvPayload \/ RecvPayloadFails
  <2>1. spc' \notin {"header", "payload"}
    BY <1>3 DEF RecvPayload, RecvPayloadFails, Place
  <2>2. \A p \in Players : Quiet(p)'
    <3>1. MoveStages'
      BY ServerStages
    <3>2. QED BY <2>1, <3>1 DEF MoveStages, Notified, Typing, HalfSent, WhollySent
  <2>3. QED BY <2>2 DEF ChoiceIsFree, InFlight, Quiet
<1>4. CASE \/ Accept \/ NotifyReady1 \/ NotifyReady2 \/ NotifyTurn \/ RecvHeaderFails
           \/ NotifyState1 \/ NotifyState2 \/ CheckBoard \/ NotifyResult1 \/ NotifyResult2
  BY <1>1, <1>4 DEF Accept, NotifyReady1, NotifyReady2, NotifyTurn, RecvHeaderFails, NotifyState1,
       NotifyState2, CheckBoard, NotifyResult1, NotifyResult2, Notify, clientVars
<1>5. QED BY <1>2, <1>3, <1>4 DEF ServerStep

LEMMA ClientChoiceIsFree ==
  ASSUME TypeOK, MoveStages, Informed, ChoiceIsFree, NEW p \in Players, ClientStep(p) \/ Crash(p)
  PROVE  ChoiceIsFree'
<1>1. board' = board
  BY DEF ClientStep, Connect, ReceiveReady, ReceiveTurn, ReceiveState, ReceiveResult, Receives,
         Choose, SendPayload, ReceiveEnd, Crash, serverVars
<1>2. CASE Choose(p)
  <2>1. PICK d \in Cells : view[p][d] = 0 /\ choice' = [choice EXCEPT ![p] = d]
    BY <1>2 DEF Choose
  <2>2. spc = "header" /\ s2c[p] = <<>> /\ cpc[p] = "input"
    BY <1>2 DEF Choose, MoveStages, Quiet, Notified, Typing, HalfSent, WhollySent
  <2>3. board[d] = 0
    <3>1. ~Told(p, d)
      BY <2>1, <2>2 DEF Told, Sent, StillToSend
    <3>2. QED BY <2>2, <3>1 DEF Informed
  <2>4. c2s'[p] = Append(c2s[p], MoveHeader) /\ choice'[p] = d
        /\ \A q \in Players : q # p => c2s'[q] = c2s[q] /\ choice'[q] = choice[q] /\ cpc'[q] = cpc[q]
    BY <1>2, <2>1 DEF Choose, TypeOK
  <2>5. ASSUME NEW c \in Cells, InFlight(p, c)'
        PROVE  c = d \/ InFlight(p, c)
    <3>1. c2s[p] \in Seq(MoveParts) /\ MoveHeader \in MoveParts /\ MovePayload(c) # MoveHeader
      BY MovePartFacts DEF TypeOK
    <3>2. (\E i \in DOMAIN Append(c2s[p], MoveHeader) : Append(c2s[p], MoveHeader)[i] = MovePayload(c))
            <=> MovePayload(c) = MoveHeader \/ \E i \in DOMAIN c2s[p] : c2s[p][i] = MovePayload(c)
      BY <3>1, HoldsAfterAppend
    <3>3. QED BY <2>4, <2>5, <3>1, <3>2 DEF InFlight
  <2>6. \A q \in Players, c \in Cells : q # p => (InFlight(q, c)' <=> InFlight(q, c))
    BY <2>4 DEF InFlight
  <2>7. QED BY <1>1, <2>3, <2>5, <2>6 DEF ChoiceIsFree
<1>3. CASE SendPayload(p)
  <2>1. /\ c2s'[p] = Append(c2s[p], MovePayload(choice[p])) /\ cpc'[p] = "recv" /\ cpc[p] = "payload"
        /\ choice[p] \in Cells
        /\ \A q \in Players : q # p => c2s'[q] = c2s[q] /\ choice'[q] = choice[q] /\ cpc'[q] = cpc[q]
    BY <1>3 DEF SendPayload, TypeOK
  <2>2. ASSUME NEW c \in Cells, InFlight(p, c)'
        PROVE  InFlight(p, c)
    <3>1. PICK e \in MoveParts, x \in MoveParts : e = MovePayload(choice[p]) /\ x = MovePayload(c)
      BY <2>1, MovePartFacts
    <3>2. (\E i \in DOMAIN Append(c2s[p], e) : Append(c2s[p], e)[i] = x)
            => x = e \/ \E i \in DOMAIN c2s[p] : c2s[p][i] = x
      <4>1. c2s[p] \in Seq(MoveParts)
        BY DEF TypeOK
      <4>2. QED BY <4>1, HoldsAfterAppend
    <3>3. x = e => c = choice[p]
      BY <2>1, <3>1, MovePartFacts
    <3>4. QED BY <2>1, <2>2, <3>1, <3>2, <3>3 DEF InFlight
  <2>3. \A q \in Players, c \in Cells : q # p => (InFlight(q, c)' <=> InFlight(q, c))
    BY <2>1 DEF InFlight
  <2>4. QED BY <1>1, <2>2, <2>3 DEF ChoiceIsFree
<1>4. CASE ~Choose(p) /\ ~SendPayload(p)
  <2>1. /\ c2s' = c2s
        /\ \A q \in Players : cpc'[q] = "payload" => cpc[q] = "payload" /\ choice'[q] = choice[q]
    BY <1>4 DEF ClientStep, Connect, ReceiveReady, ReceiveTurn, ReceiveState, ReceiveResult, Receives,
         ReceiveEnd, Crash, TypeOK
  <2>2. QED BY <1>1, <2>1 DEF ChoiceIsFree, InFlight
<1>5. QED BY <1>2, <1>3, <1>4

----------------------------------------------------------------------------
(* The theorems.                                                           *)

LEMMA StepKeepsResult ==
  ASSUME ResultIsKnown, [Next]_vars
  PROVE  ResultIsKnown'
<1>1. CASE ServerStep
  BY <1>1 DEF ServerStep, Accept, NotifyReady1, NotifyReady2, NotifyTurn, RecvHeader,
       RecvHeaderFails, RecvPayload, RecvPayloadFails, Place, NotifyState1, NotifyState2,
       CheckBoard, NotifyResult1, NotifyResult2, Notify, Stopped, ResultIsKnown
<1>2. CASE \E p \in Players : ClientStep(p) \/ Crash(p)
  BY <1>2 DEF ClientStep, Connect, ReceiveReady, ReceiveTurn, ReceiveState, ReceiveResult,
       Receives, Choose, SendPayload, ReceiveEnd, Crash, serverVars, ResultIsKnown
<1>3. CASE UNCHANGED vars
  BY <1>3 DEF vars, serverVars, ResultIsKnown
<1>4. QED BY <1>1, <1>2, <1>3 DEF Next, Terminated

LEMMA SafetyInit == Init => SafetyInv
<1> SUFFICES ASSUME Init PROVE SafetyInv
  OBVIOUS
<1>1. TypeOK
  BY InitType
<1>2. \A p \in Players : Quiet(p)
  BY DEF Init, Quiet, Sent
<1>3. MoveStages /\ TurnIsLast /\ ResultIsKnown
  BY <1>2 DEF MoveStages, TurnIsLast, ResultIsKnown, Init
<1>4. Informed /\ ChoiceIsFree
  BY DEF Init, Informed, ChoiceIsFree, EmptyBoard
<1>5. QED BY <1>1, <1>3, <1>4 DEF SafetyInv

LEMMA SafetyStep == SafetyInv /\ [Next]_vars => SafetyInv'
<1> SUFFICES ASSUME SafetyInv, [Next]_vars PROVE SafetyInv'
  OBVIOUS
<1>0. /\ TypeOK /\ MoveStages /\ TurnIsLast /\ Informed /\ ChoiceIsFree /\ ResultIsKnown
      /\ ResultIsKnown'
  BY StepKeepsResult DEF SafetyInv
<1>1. CASE ServerStep
  BY <1>0, <1>1, ServerType, ServerStages, ServerTurnIsLast, ServerInformed, ServerChoiceIsFree
     DEF SafetyInv
<1>2. ASSUME NEW p \in Players, ClientStep(p)
      PROVE  SafetyInv'
  BY <1>0, <1>2, ClientType, ClientStages, ClientTurnIsLast, ClientInformed, ClientChoiceIsFree
     DEF SafetyInv
<1>3. ASSUME NEW p \in Players, Crash(p)
      PROVE  SafetyInv'
  BY <1>0, <1>3, CrashType, CrashStages, ClientTurnIsLast, CrashInformed, ClientChoiceIsFree
     DEF SafetyInv
<1>4. CASE UNCHANGED vars
  BY <1>4 DEF SafetyInv, vars, serverVars, clientVars, TypeOK, MoveStages, Quiet, Notified,
       Typing, HalfSent, WhollySent, TurnIsLast, Informed, Told, StillToSend, ChoiceIsFree,
       InFlight, ResultIsKnown, Sent
<1>5. QED BY <1>1, <1>2, <1>3, <1>4 DEF Next, Terminated

(* SafetyInv is an invariant of the server and its clients.                *)
THEOREM SafetyInvariant == Spec => []SafetyInv
BY SafetyInit, SafetyStep, PTL DEF Spec

(* The variables of the server and the clients keep their types.           *)
THEOREM TypeCorrect == Spec => []TypeOK
<1>1. SafetyInv => TypeOK
  BY DEF SafetyInv
<1>2. QED BY <1>1, SafetyInvariant, PTL

(* Whichever players are stopped, the turn (server.c:60-63) is held by one *)
(* player at a time, the one the server reads from.                        *)
THEOREM OneMoverHolds == Spec => []OneMover
<1>1. SafetyInv => OneMover
  BY DEF SafetyInv, OneMover, HoldsTurn, MoveStages, Quiet, Notified, Typing, HalfSent,
         WhollySent, Sent
<1>2. QED BY <1>1, SafetyInvariant, PTL

(* On a board of any size, a mark is overwritten (server.c:87, which does  *)
(* not look) only in the move of a player stopped between its two sends.   *)
THEOREM NoOverwriteHolds == Spec => NoOverwrite
<1>1. ASSUME SafetyInv, [Next]_vars,
             NEW c \in Cells, board[c] # 0, board'[c] # board[c]
      PROVE  cpc[turn] = "crashed"
  <2>1. CASE RecvPayload
    <3>1. /\ TypeOK /\ MoveStages /\ ChoiceIsFree
          /\ spc = "payload" /\ c2s[turn] # <<>> /\ Place(Head(c2s[turn]).cell)
      BY <1>1, <2>1 DEF SafetyInv, RecvPayload
    <3>2. PICK d \in Cells : d = Head(c2s[turn]).cell /\ c2s[turn] = <<MovePayload(d)>>
      BY <3>1, PayloadWaiting
    <3>3. InFlight(turn, d)
      BY <3>2 DEF InFlight
    <3>4. turn \in Players
      BY <3>1 DEF TypeOK
    <3>5. board[d] = 0
      BY <3>1, <3>3, <3>4 DEF ChoiceIsFree
    <3>6. c = d
      BY <1>1, <3>1, <3>2 DEF Place, TypeOK, Boards
    <3>7. QED BY <1>1, <3>5, <3>6
  <2>2. CASE RecvPayloadFails
    BY <2>2 DEF RecvPayloadFails
  <2>3. CASE board' = board
    BY <1>1, <2>3
  <2>4. RecvPayload \/ RecvPayloadFails \/ board' = board
    BY <1>1 DEF Next, ServerStep, Accept, NotifyReady1, NotifyReady2, NotifyTurn, RecvHeader,
         RecvHeaderFails, NotifyState1, NotifyState2, CheckBoard, NotifyResult1, NotifyResult2,
         Notify, ClientStep, Connect, ReceiveReady, ReceiveTurn, ReceiveState, ReceiveResult,
         Receives, Choose, SendPayload, ReceiveEnd, Crash, Terminated, vars, serverVars
  <2>5. QED BY <2>1, <2>2, <2>3, <2>4
<1>2. SafetyInv /\ [Next]_vars
        => [\A c \in Cells : board[c] # 0 /\ board'[c] # board[c] => cpc[turn] = "crashed"]_vars
  BY <1>1
<1>3. QED BY <1>2, SafetyInvariant, PTL DEF Spec, NoOverwrite

----------------------------------------------------------------------------
(* The end of the game.                                                    *)

LEMMA HeadAfterAppend ==
  ASSUME NEW S, NEW s \in Seq(S), NEW e \in S
  PROVE  /\ Append(s, e) # <<>>
         /\ Append(s, e)[1] = IF s = <<>> THEN e ELSE s[1]
<1>1. /\ Append(s, e) \in Seq(S) /\ Len(Append(s, e)) = Len(s) + 1
      /\ \A i \in 1 .. Len(s) : Append(s, e)[i] = s[i]
      /\ Append(s, e)[Len(s) + 1] = e
  BY AppendProperties
<1>2. Len(s) \in Nat /\ (s = <<>> <=> Len(s) = 0) /\ (Append(s, e) = <<>> <=> Len(Append(s, e)) = 0)
  BY <1>1, LenProperties, EmptySeq
<1>3. CASE s = <<>>
  BY <1>1, <1>2, <1>3
<1>4. CASE s # <<>>
  <2>1. 1 \in 1 .. Len(s)
    BY <1>2, <1>4
  <2>2. QED BY <1>1, <1>2, <1>4, <2>1
<1>5. QED BY <1>3, <1>4

(* What a server step that notifies does to the queues, place by place.    *)
Note(p, msg, place) == spc = place /\ \E next : Notify(p, msg, next)

LEMMA ServerNotes ==
  ASSUME TypeOK, ResultIsKnown, ServerStep
  PROVE  /\ UNCHANGED clientVars
         /\ \/ /\ UNCHANGED s2c
               /\ spc \in {"accept", "header", "payload", "check"}
            \/ Note(1, Ready(1), "ready1") /\ spc' \in {"ready2", "failed"}
            \/ Note(2, Ready(2), "ready2") /\ spc' \in {"turn", "failed"}
            \/ Note(turn, YourTurn, "turn") /\ spc' \in {"header", "failed"}
            \/ Note(1, State(move, turn), "state1") /\ spc' \in {"state2", "failed"}
            \/ Note(2, State(move, turn), "state2") /\ spc' \in {"check", "failed"}
            \/ Note(1, Result(status), "result1") /\ spc' \in {"result2", "failed"}
            \/ Note(2, Result(status), "result2") /\ spc' \in {"closed", "failed"}
<1>1. CASE \/ NotifyReady1 \/ NotifyReady2 \/ NotifyTurn \/ NotifyState1 \/ NotifyState2
           \/ NotifyResult1 \/ NotifyResult2
  BY <1>1 DEF NotifyReady1, NotifyReady2, NotifyTurn, NotifyState1, NotifyState2, NotifyResult1,
       NotifyResult2, Note, Notify
<1>2. CASE \/ Accept \/ RecvHeader \/ RecvHeaderFails \/ RecvPayload \/ RecvPayloadFails \/ CheckBoard
  BY <1>2 DEF Accept, RecvHeader, RecvHeaderFails, RecvPayload, RecvPayloadFails, CheckBoard
<1>3. QED BY <1>1, <1>2 DEF ServerStep

(* The one message of a notification, for a player it may be sent to.      *)
LEMMA NoteFacts ==
  ASSUME TypeOK, NEW p \in Players, NEW msg \in Messages, NEW place, Note(p, msg, place)
  PROVE  /\ status' = status /\ turn' = turn /\ board' = board /\ move' = move
         /\ \A q \in Players : q # p => s2c'[q] = s2c[q]
         /\ \/ cpc[p] # "crashed" /\ s2c'[p] = Append(s2c[p], msg)
            \/ cpc[p] = "crashed" /\ s2c'[p] = s2c[p]
         /\ \A q \in Players : \A x :
              Sent(q, x)' <=> Sent(q, x) \/ (q = p /\ x = msg /\ cpc[p] # "crashed")
<1>1. PICK next : Notify(p, msg, next)
  BY DEF Note
<1>2. \A q \in Players : \A x :
        Sent(q, x)' <=> Sent(q, x) \/ (q = p /\ x = msg /\ cpc[p] # "crashed")
  BY <1>1, NotifySends
<1>3. QED BY <1>1, <1>2 DEF Notify, TypeOK

LEMMA ServerNumbered ==
  ASSUME TypeOK, ResultIsKnown, Numbered, ServerStep
  PROVE  Numbered'
<1>1. UNCHANGED <<cpc, playerno>>
  BY ServerNotes DEF clientVars
<1>2. CASE UNCHANGED s2c /\ spc \in {"accept", "header", "payload", "check"}
  <2>1. spc = "accept" => spc' = "ready1"
    BY DEF ServerStep, Accept, NotifyReady1, NotifyReady2, NotifyTurn, RecvHeader, RecvHeaderFails,
           RecvPayload, RecvPayloadFails, NotifyState1, NotifyState2, CheckBoard, NotifyResult1,
           NotifyResult2
  <2>2. QED BY <1>1, <1>2, <2>1 DEF Numbered
<1>3. ASSUME NEW p \in Players, NEW msg \in Messages, NEW place \in ServerPlaces,
             Note(p, msg, place), msg.type = "READY" => msg = Ready(p),
             /\ place = "ready1" => p = 1 /\ msg = Ready(p) /\ spc' \in {"ready2", "failed"}
             /\ place = "ready2" => p = 2 /\ msg = Ready(p)
             /\ place \notin {"accept", "failed"}
      PROVE  Numbered'
  <2>1. spc = place
    BY <1>3 DEF Note
  <2>2. \A q \in Players : q # p => s2c'[q] = s2c[q]
    BY <1>3, NoteFacts
  <2>3. \/ cpc[p] # "crashed" /\ s2c'[p] = Append(s2c[p], msg)
        \/ cpc[p] = "crashed" /\ s2c'[p] = s2c[p]
    BY <1>3, NoteFacts
  <2>4. ASSUME NEW q \in Players, NEW i \in DOMAIN s2c'[q], s2c'[q][i].type = "READY"
        PROVE  s2c'[q][i].no = q
    <3>1. PICK x : x = s2c'[q][i]
      OBVIOUS
    <3>2. Sent(q, x) \/ (q = p /\ x = msg)
      <4>1. Sent(q, x)'
        BY <3>1 DEF Sent
      <4>2. QED BY <1>3, <4>1, NoteFacts
    <3>3. Ready(p).no = p
      BY DEF Ready
    <3>4. QED BY <1>3, <2>4, <3>1, <3>2, <3>3 DEF Numbered, Sent
  <2>5. ASSUME NEW q \in Players, cpc[q] # "crashed", playerno[q] # q
        PROVE  \/ s2c'[q] # <<>> /\ s2c'[q][1] = Ready(q)
               \/ s2c'[q] = <<>> /\ spc' \in {"ready2", "failed"} /\ q = 2
    <3>1. \/ s2c[q] # <<>> /\ s2c[q][1] = Ready(q)
          \/ s2c[q] = <<>> /\ (place = "ready1" \/ (place = "ready2" /\ q = 2))
      BY <1>3, <2>1, <2>5 DEF Numbered
    <3>2. CASE q = p
      <4>1. s2c'[q] = Append(s2c[q], msg) /\ s2c[q] \in Seq(Messages)
        BY <2>3, <2>5, <3>2 DEF TypeOK
      <4>2. s2c'[q] # <<>> /\ s2c'[q][1] = IF s2c[q] = <<>> THEN msg ELSE s2c[q][1]
        BY <4>1, HeadAfterAppend
      <4>3. QED BY <1>3, <3>1, <3>2, <4>2
    <3>3. CASE q # p
      BY <1>3, <2>2, <3>1, <3>3 DEF Players
    <3>4. QED BY <3>2, <3>3
  <2>6. QED BY <1>1, <2>4, <2>5 DEF Numbered
<1>4. turn \in Players /\ move \in Cells /\ 1 \in Players /\ 2 \in Players
  BY DEF TypeOK, Players
<1>5. /\ Ready(1) \in Messages /\ Ready(2) \in Messages /\ YourTurn \in Messages
      /\ State(move, turn) \in Messages
      /\ YourTurn.type # "READY" /\ State(move, turn).type # "READY" /\ Result(status).type # "READY"
  BY <1>4, MessageFacts DEF YourTurn, State, Result
<1>6. spc \in {"result1", "result2"} => Result(status) \in Messages
  BY MessageFacts DEF ResultIsKnown, TypeOK
<1>7. CASE Note(1, Ready(1), "ready1") /\ spc' \in {"ready2", "failed"}
  BY <1>3, <1>4, <1>5, <1>7 DEF ServerPlaces
<1>8. CASE Note(2, Ready(2), "ready2")
  BY <1>3, <1>4, <1>5, <1>8 DEF ServerPlaces
<1>9. CASE Note(turn, YourTurn, "turn")
  BY <1>3, <1>4, <1>5, <1>9 DEF ServerPlaces
<1>10. CASE Note(1, State(move, turn), "state1")
  BY <1>3, <1>4, <1>5, <1>10 DEF ServerPlaces
<1>11. CASE Note(2, State(move, turn), "state2")
  BY <1>3, <1>4, <1>5, <1>11 DEF ServerPlaces
<1>12. CASE Note(1, Result(status), "result1")
  <2>1. Result(status) \in Messages
    BY <1>6, <1>12 DEF Note
  <2>2. QED BY <1>3, <1>4, <1>5, <1>12, <2>1 DEF ServerPlaces
<1>13. CASE Note(2, Result(status), "result2")
  <2>1. Result(status) \in Messages
    BY <1>6, <1>13 DEF Note
  <2>2. QED BY <1>3, <1>4, <1>5, <1>13, <2>1 DEF ServerPlaces
<1>14. QED
  BY <1>2, <1>7, <1>8, <1>9, <1>10, <1>11, <1>12, <1>13, ServerNotes

LEMMA ClientNumbered ==
  ASSUME TypeOK, Numbered, NEW p \in Players, ClientStep(p) \/ Crash(p)
  PROVE  Numbered'
<1>1. spc' = spc
  BY DEF ClientStep, Connect, ReceiveReady, ReceiveTurn, ReceiveState, ReceiveResult, Receives,
         Choose, SendPayload, ReceiveEnd, Crash, serverVars
<1>2. \A q \in Players : q # p => s2c'[q] = s2c[q] /\ playerno'[q] = playerno[q] /\ cpc'[q] = cpc[q]
  BY DEF ClientStep, Connect, ReceiveReady, ReceiveTurn, ReceiveState, ReceiveResult, Receives,
         Choose, SendPayload, ReceiveEnd, Crash, TypeOK
<1>3. SUFFICES /\ \A i \in DOMAIN s2c'[p] : s2c'[p][i].type = "READY" => s2c'[p][i].no = p
               /\ \/ cpc'[p] = "crashed"
                  \/ playerno'[p] = p
                  \/ s2c'[p] # <<>> /\ s2c'[p][1] = Ready(p)
                  \/ /\ s2c'[p] = <<>>
                     /\ spc' \in {"accept", "ready1", "failed"} \/ (spc' = "ready2" /\ p = 2)
  BY <1>1, <1>2 DEF Numbered
<1>4. CASE ReceiveReady(p) \/ ReceiveTurn(p) \/ ReceiveState(p) \/ ReceiveResult(p)
  <2>1. PICK type : Receives(p, type)
    BY <1>4 DEF ReceiveReady, ReceiveTurn, ReceiveState, ReceiveResult
  <2>2. s2c[p] \in Seq(Messages) /\ s2c[p] # <<>> /\ cpc[p] = "recv"
    BY <2>1 DEF TypeOK, Receives
  <2>3. Head(s2c[p]) = s2c[p][1] /\ 1 \in DOMAIN s2c[p]
    BY <2>2, HeadTailProperties, LenProperties, EmptySeq
  <2>4. \A i \in DOMAIN s2c'[p] : s2c'[p][i].type = "READY" => s2c'[p][i].no = p
    <3> TAKE i \in DOMAIN s2c'[p]
    <3>1. PICK x : x = s2c'[p][i]
      OBVIOUS
    <3>2. Sent(p, x)'
      BY <3>1 DEF Sent
    <3>3. Sent(p, x)
      BY <2>1, <3>2, ReceivesTakes
    <3>4. QED BY <3>1, <3>3 DEF Sent, Numbered
  <2>5. playerno'[p] = p
    <3>1. CASE ReceiveReady(p)
      <4>1. Head(s2c[p]).type = "READY" /\ playerno'[p] = Head(s2c[p]).no
        BY <3>1 DEF ReceiveReady, Receives, TypeOK
      <4>2. QED BY <2>3, <4>1 DEF Numbered
    <3>2. CASE ~ReceiveReady(p)
      <4>1. playerno'[p] = playerno[p] /\ Head(s2c[p]).type # "READY"
        BY <1>4, <3>2 DEF ReceiveTurn, ReceiveState, ReceiveResult, Receives
      <4>2. s2c[p][1] # Ready(p)
        BY <2>3, <4>1 DEF Ready
      <4>3. QED BY <2>2, <4>1, <4>2 DEF Numbered
    <3>3. QED BY <3>1, <3>2
  <2>6. QED BY <2>4, <2>5
<1>5. CASE Connect(p) \/ Choose(p) \/ SendPayload(p) \/ ReceiveEnd(p)
  <2>1. UNCHANGED <<s2c, playerno>> /\ cpc[p] # "crashed"
    BY <1>5 DEF Connect, Choose, SendPayload, ReceiveEnd
  <2>2. QED BY <1>1, <2>1 DEF Numbered
<1>6. CASE Crash(p)
  <2>1. s2c'[p] = <<>> /\ cpc'[p] = "crashed"
    BY <1>6 DEF Crash, TypeOK
  <2>2. QED BY <2>1
<1>7. QED BY <1>4, <1>5, <1>6 DEF ClientStep

LEMMA StepStatus ==
  ASSUME StatusIsFinal, Next
  PROVE  StatusIsFinal'
<1>1. CASE ServerStep
  BY <1>1 DEF ServerStep, Accept, NotifyReady1, NotifyReady2, NotifyTurn, RecvHeader,
       RecvHeaderFails, RecvPayload, RecvPayloadFails, Place, NotifyState1, NotifyState2,
       CheckBoard, NotifyResult1, NotifyResult2, Notify, Stopped, StatusIsFinal
<1>2. CASE Terminated \/ \E p \in Players : ClientStep(p) \/ Crash(p)
  BY <1>2 DEF ClientStep, Connect, ReceiveReady, ReceiveTurn, ReceiveState, ReceiveResult,
       Receives, Choose, SendPayload, ReceiveEnd, Crash, Terminated, vars, serverVars, StatusIsFinal
<1>3. QED BY <1>1, <1>2 DEF Next

(* Once check() has decided, its value stays (server.c:70-76).             *)
LEMMA ServerStatus ==
  ASSUME StatusIsFinal, ServerStep, status # -1
  PROVE  status' = status
BY DEF StatusIsFinal, Stopped, ServerStep, Accept, NotifyReady1, NotifyReady2, NotifyTurn, RecvHeader,
       RecvHeaderFails, RecvPayload, RecvPayloadFails, Place, NotifyState1, NotifyState2,
       CheckBoard, NotifyResult1, NotifyResult2, Notify

LEMMA ServerResults ==
  ASSUME TypeOK, ResultIsKnown, StatusIsFinal, ResultsTrue, ServerStep
  PROVE  ResultsTrue'
<1>1. UNCHANGED <<says, playerno>>
  BY ServerNotes DEF clientVars
<1>2. \A q \in Players : says[q] # "none" =>
        playerno[q] = q /\ status # -1 /\ status' = status /\ says[q] = Verdict(q)
  BY ServerStatus DEF ResultsTrue
<1>3. ASSUME NEW q \in Players, NEW i \in DOMAIN s2c'[q], s2c'[q][i].type = "RESULT"
      PROVE  status' # -1 /\ s2c'[q][i] = Result(status')
  <2>1. PICK x : x = s2c'[q][i]
    OBVIOUS
  <2>2. Sent(q, x)'
    BY <2>1 DEF Sent
  <2>3. ASSUME Sent(q, x)
        PROVE  status' # -1 /\ x = Result(status')
    <3>1. status # -1 /\ x = Result(status)
      BY <1>3, <2>1, <2>3 DEF Sent, ResultsTrue
    <3>2. QED BY <3>1, ServerStatus
  <2>4. ASSUME NEW p \in Players, NEW msg \in Messages, NEW place \in ServerPlaces,
               Note(p, msg, place),
               msg.type = "RESULT" => status # -1 /\ msg = Result(status)
        PROVE  status' # -1 /\ x = Result(status')
    <3>1. Sent(q, x) \/ x = msg
      BY <2>2, <2>4, NoteFacts
    <3>2. status' = status
      BY <2>4, NoteFacts
    <3>3. QED BY <1>3, <2>1, <2>3, <2>4, <3>1, <3>2
  <2>5. turn \in Players /\ move \in Cells /\ 1 \in Players /\ 2 \in Players
    BY DEF TypeOK, Players
  <2>6. /\ Ready(1) \in Messages /\ Ready(2) \in Messages /\ YourTurn \in Messages
        /\ State(move, turn) \in Messages
        /\ Ready(1).type # "RESULT" /\ Ready(2).type # "RESULT"
        /\ YourTurn.type # "RESULT" /\ State(move, turn).type # "RESULT"
    BY <2>5, MessageFacts DEF YourTurn, State, Ready
  <2>7. CASE Note(1, Ready(1), "ready1")
    BY <2>1, <2>4, <2>5, <2>6, <2>7 DEF ServerPlaces
  <2>8. CASE Note(2, Ready(2), "ready2")
    BY <2>1, <2>4, <2>5, <2>6, <2>8 DEF ServerPlaces
  <2>9. CASE Note(turn, YourTurn, "turn")
    BY <2>1, <2>4, <2>5, <2>6, <2>9 DEF ServerPlaces
  <2>10. CASE Note(1, State(move, turn), "state1")
    BY <2>1, <2>4, <2>5, <2>6, <2>10 DEF ServerPlaces
  <2>11. CASE Note(2, State(move, turn), "state2")
    BY <2>1, <2>4, <2>5, <2>6, <2>11 DEF ServerPlaces
  <2>12. spc \in {"result1", "result2"} => status # -1 /\ Result(status) \in Messages
    BY MessageFacts DEF TypeOK, ResultIsKnown
  <2>13. CASE Note(1, Result(status), "result1")
    <3>1. status # -1 /\ Result(status) \in Messages
      BY <2>12, <2>13 DEF Note
    <3>2. QED BY <2>1, <2>4, <2>5, <2>13, <3>1 DEF ServerPlaces
  <2>14. CASE Note(2, Result(status), "result2")
    <3>1. status # -1 /\ Result(status) \in Messages
      BY <2>12, <2>14 DEF Note
    <3>2. QED BY <2>1, <2>4, <2>5, <2>14, <3>1 DEF ServerPlaces
  <2>15. CASE UNCHANGED s2c
    BY <2>2, <2>3, <2>1, <2>15 DEF Sent
  <2>16. QED
    BY <2>7, <2>8, <2>9, <2>10, <2>11, <2>13, <2>14, <2>15, ServerNotes
<1>4. QED BY <1>1, <1>2, <1>3 DEF ResultsTrue, Verdict

LEMMA ClientResults ==
  ASSUME TypeOK, Numbered, ResultsTrue, NEW p \in Players, ClientStep(p) \/ Crash(p)
  PROVE  ResultsTrue'
<1>1. status' = status
  BY DEF ClientStep, Connect, ReceiveReady, ReceiveTurn, ReceiveState, ReceiveResult, Receives,
         Choose, SendPayload, ReceiveEnd, Crash, serverVars
<1>2. \A q \in Players : q # p => s2c'[q] = s2c[q] /\ playerno'[q] = playerno[q] /\ says'[q] = says[q]
  BY DEF ClientStep, Connect, ReceiveReady, ReceiveTurn, ReceiveState, ReceiveResult, Receives,
         Choose, SendPayload, ReceiveEnd, Crash, TypeOK
<1>3. SUFFICES /\ \A i \in DOMAIN s2c'[p] :
                    s2c'[p][i].type = "RESULT" => status # -1 /\ s2c'[p][i] = Result(status)
               /\ says'[p] # "none" => playerno'[p] = p /\ status # -1 /\ says'[p] = Verdict(p)
  BY <1>1, <1>2 DEF ResultsTrue, Verdict
<1>4. CASE ReceiveReady(p) \/ ReceiveTurn(p) \/ ReceiveState(p) \/ ReceiveResult(p)
  <2>1. PICK type : Receives(p, type)
    BY <1>4 DEF ReceiveReady, ReceiveTurn, ReceiveState, ReceiveResult
  <2>2. s2c[p] \in Seq(Messages) /\ s2c[p] # <<>> /\ cpc[p] = "recv"
    BY <2>1 DEF TypeOK, Receives
  <2>3. Head(s2c[p]) = s2c[p][1] /\ 1 \in DOMAIN s2c[p]
    BY <2>2, HeadTailProperties, LenProperties, EmptySeq
  <2>4. \A i \in DOMAIN s2c'[p] :
          s2c'[p][i].type = "RESULT" => status # -1 /\ s2c'[p][i] = Result(status)
    <3> TAKE i \in DOMAIN s2c'[p]
    <3>1. PICK x : x = s2c'[p][i]
      OBVIOUS
    <3>2. Sent(p, x)'
      BY <3>1 DEF Sent
    <3>3. Sent(p, x)
      BY <2>1, <3>2, ReceivesTakes
    <3>4. QED BY <3>1, <3>3 DEF Sent, ResultsTrue
  <2>5. CASE ReceiveResult(p)
    <3>1. /\ Head(s2c[p]).type = "RESULT" /\ playerno' = playerno
          /\ says'[p] = IF Head(s2c[p]).winner = playerno[p] THEN "win"
                         ELSE IF Head(s2c[p]).winner = 0 THEN "tie" ELSE "lose"
      BY <2>5 DEF ReceiveResult, Receives, TypeOK
    <3>2. status # -1 /\ Head(s2c[p]) = Result(status)
      BY <2>3, <3>1 DEF ResultsTrue
    <3>3. playerno[p] = p
      <4>1. s2c[p][1] # Ready(p)
        BY <2>3, <3>1 DEF Ready
      <4>2. QED BY <2>2, <4>1 DEF Numbered
    <3>4. Head(s2c[p]).winner = status
      BY <3>2 DEF Result
    <3>5. QED BY <2>4, <3>1, <3>2, <3>3, <3>4 DEF Verdict
  <2>6. CASE ReceiveReady(p)
    <3>1. Head(s2c[p]).type = "READY" /\ playerno'[p] = Head(s2c[p]).no /\ says' = says
      BY <2>6 DEF ReceiveReady, Receives, TypeOK
    <3>2. playerno'[p] = p
      BY <2>3, <3>1 DEF Numbered
    <3>3. QED BY <2>4, <3>1, <3>2 DEF ResultsTrue
  <2>7. CASE ReceiveTurn(p) \/ ReceiveState(p)
    <3>1. UNCHANGED <<says, playerno>>
      BY <2>7 DEF ReceiveTurn, ReceiveState
    <3>2. QED BY <2>4, <3>1 DEF ResultsTrue
  <2>8. QED BY <1>4, <2>5, <2>6, <2>7
<1>5. CASE Connect(p) \/ Choose(p) \/ SendPayload(p) \/ ReceiveEnd(p)
  <2>1. UNCHANGED <<s2c, playerno, says>>
    BY <1>5 DEF Connect, Choose, SendPayload, ReceiveEnd
  <2>2. QED BY <2>1 DEF ResultsTrue
<1>6. CASE Crash(p)
  <2>1. s2c'[p] = <<>> /\ UNCHANGED <<playerno, says>>
    BY <1>6 DEF Crash, TypeOK
  <2>2. QED BY <2>1 DEF ResultsTrue
<1>7. QED BY <1>4, <1>5, <1>6 DEF ClientStep

(* What the server reads first of a MOVE is its header, so it fails of a   *)
(* player only if that player was stopped.                                 *)
LEMMA HeaderWaiting ==
  ASSUME TypeOK, MoveStages, RecvHeader
  PROVE  spc' = "payload"
<1>1. turn \in Players /\ spc = "header" /\ c2s[turn] # <<>>
  BY DEF RecvHeader, TypeOK
<1>2. HalfSent(turn) \/ WhollySent(turn)
  BY <1>1 DEF MoveStages, Quiet, Notified, Typing
<1>3. Head(c2s[turn]) = MoveHeader
  BY <1>1, <1>2 DEF HalfSent, WhollySent
<1>4. QED BY <1>3 DEF RecvHeader

LEMMA ServerReason ==
  ASSUME TypeOK, MoveStages, ResultIsKnown, StatusIsFinal, EndHasReason, ServerStep
  PROVE  EndHasReason'
<1>1. UNCHANGED <<cpc, says>>
  BY ServerNotes DEF clientVars
<1>2. SUFFICES ASSUME \A q \in Players : cpc[q] # "crashed"
               PROVE  /\ spc' = "result2" => HearsResult(1)'
                      /\ spc' \in Stopped => \A p \in Players : HearsResult(p)'
  BY <1>1 DEF EndHasReason
<1>3. 1 \in Players /\ 2 \in Players
  BY DEF Players
<1>4. CASE NotifyResult1
  <2>1. /\ spc = "result1" /\ spc' = "result2" /\ status' = status
        /\ s2c' = [s2c EXCEPT ![1] = Append(@, Result(status))]
    BY <1>2, <1>3, <1>4 DEF NotifyResult1, Notify
  <2>2. Result(status) \in Messages
    BY <2>1, MessageFacts DEF ResultIsKnown, TypeOK
  <2>3. s2c[1] \in Seq(Messages) /\ s2c'[1] = Append(s2c[1], Result(status))
    BY <1>3, <2>1 DEF TypeOK
  <2>4. \E i \in DOMAIN s2c'[1] : s2c'[1][i] = Result(status)
    BY <2>2, <2>3, HoldsAfterAppend
  <2>5. QED BY <2>1, <2>4 DEF HearsResult, Sent, Stopped
<1>5. CASE NotifyResult2
  <2>1. /\ spc = "result2" /\ spc' = "closed" /\ status' = status
        /\ s2c' = [s2c EXCEPT ![2] = Append(@, Result(status))]
    BY <1>2, <1>3, <1>5 DEF NotifyResult2, Notify
  <2>2. Result(status) \in Messages
    BY <2>1, MessageFacts DEF ResultIsKnown, TypeOK
  <2>3. /\ s2c[2] \in Seq(Messages) /\ s2c'[2] = Append(s2c[2], Result(status))
        /\ s2c'[1] = s2c[1]
    BY <1>3, <2>1 DEF TypeOK
  <2>4. \E i \in DOMAIN s2c'[2] : s2c'[2][i] = Result(status)
    BY <2>2, <2>3, HoldsAfterAppend
  <2>5. HearsResult(1)
    BY <1>2, <2>1 DEF EndHasReason
  <2>6. HearsResult(1)' /\ HearsResult(2)'
    BY <1>1, <2>1, <2>3, <2>4, <2>5 DEF HearsResult, Sent
  <2>7. QED BY <2>1, <2>6 DEF Players
<1>6. CASE RecvHeader
  BY <1>6, HeaderWaiting DEF Stopped
<1>7. CASE RecvHeaderFails \/ RecvPayloadFails
  BY <1>2, <1>7 DEF RecvHeaderFails, RecvPayloadFails, TypeOK
<1>8. CASE \/ Accept \/ NotifyReady1 \/ NotifyReady2 \/ NotifyTurn \/ RecvPayload
           \/ NotifyState1 \/ NotifyState2 \/ CheckBoard
  <2>1. spc' \notin {"result2"} \cup Stopped
    BY <1>2, <1>8 DEF Accept, NotifyReady1, NotifyReady2, NotifyTurn, RecvPayload, Place, NotifyState1,
         NotifyState2, CheckBoard, Notify, Stopped, TypeOK, Players
  <2>2. QED BY <2>1
<1>9. QED BY <1>4, <1>5, <1>6, <1>7, <1>8 DEF ServerStep

LEMMA ClientReason ==
  ASSUME TypeOK, Numbered, ResultsTrue, EndHasReason, NEW p \in Players, ClientStep(p) \/ Crash(p)
  PROVE  EndHasReason'
<1>1. spc' = spc /\ status' = status
  BY DEF ClientStep, Connect, ReceiveReady, ReceiveTurn, ReceiveState, ReceiveResult, Receives,
         Choose, SendPayload, ReceiveEnd, Crash, serverVars
<1>2. CASE Crash(p)
  <2>1. cpc'[p] = "crashed"
    BY <1>2 DEF Crash, TypeOK
  <2>2. QED BY <2>1 DEF EndHasReason
<1>3. CASE ClientStep(p)
  <2>1. \A q \in Players : cpc[q] = "crashed" => cpc'[q] = "crashed"
    BY <1>3 DEF ClientStep, Connect, ReceiveReady, ReceiveTurn, ReceiveState, ReceiveResult, Receives,
         Choose, SendPayload, ReceiveEnd, TypeOK
  <2>2. ASSUME NEW q \in Players, HearsResult(q)
        PROVE  HearsResult(q)'
    <3>1. CASE says[q] # "none"
      <4>1. says'[q] # "none"
        BY <1>3, <3>1 DEF ClientStep, Connect, ReceiveReady, ReceiveTurn, ReceiveState, ReceiveResult,
             Receives, Choose, SendPayload, ReceiveEnd, TypeOK
      <4>2. QED BY <4>1 DEF HearsResult
    <3>2. CASE Sent(q, Result(status))
      <4>1. PICK x : x = Result(status)
        OBVIOUS
      <4>2. CASE UNCHANGED s2c
        BY <1>1, <3>2, <4>2 DEF HearsResult, Sent
      <4>3. CASE ReceiveReady(p) \/ ReceiveTurn(p) \/ ReceiveState(p)
        <5>1. PICK type : Receives(p, type) /\ type # "RESULT"
          BY <4>3 DEF ReceiveReady, ReceiveTurn, ReceiveState
        <5>2. Head(s2c[p]) # x
          BY <4>1, <5>1 DEF Receives, Result
        <5>3. Sent(q, x)'
          BY <3>2, <4>1, <5>1, <5>2, ReceivesTakes
        <5>4. QED BY <1>1, <4>1, <5>3 DEF HearsResult, Sent
      <4>4. CASE ReceiveResult(p)
        <5>1. Receives(p, "RESULT")
          BY <4>4 DEF ReceiveResult
        <5>2. CASE q = p
          <6>1. says'[p] # "none"
            BY <4>4 DEF ReceiveResult, TypeOK
          <6>2. QED BY <5>2, <6>1 DEF HearsResult
        <5>3. CASE q # p
          <6>1. Sent(q, x)'
            BY <3>2, <4>1, <5>1, <5>3, ReceivesTakes
          <6>2. QED BY <1>1, <4>1, <6>1 DEF HearsResult, Sent
        <5>4. QED BY <5>2, <5>3
      <4>5. QED BY <1>3, <4>2, <4>3, <4>4
                DEF ClientStep, Connect, Choose, SendPayload, ReceiveEnd
    <3>3. QED BY <2>2, <3>1, <3>2 DEF HearsResult
  <2>3. QED BY <1>1, <2>1, <2>2 DEF EndHasReason, Players
<1>4. QED BY <1>2, <1>3

LEMMA StepSilentEnd ==
  ASSUME TypeOK, EndHasReason, NoSilentEnd, Next
  PROVE  NoSilentEnd'
<1>1. CASE ServerStep \/ Terminated
  <2>1. UNCHANGED <<cpc, says>>
    BY <1>1 DEF ServerStep, Accept, NotifyReady1, NotifyReady2, NotifyTurn, RecvHeader,
         RecvHeaderFails, RecvPayload, RecvPayloadFails, NotifyState1, NotifyState2, CheckBoard,
         NotifyResult1, NotifyResult2, Notify, Terminated, vars, clientVars
  <2>2. QED BY <2>1 DEF NoSilentEnd
<1>2. ASSUME NEW p \in Players, ReceiveEnd(p)
      PROVE  NoSilentEnd'
  <2>1. /\ cpc[p] = "recv" /\ s2c[p] = <<>> /\ spc \in Stopped /\ says' = says
        /\ cpc' = [cpc EXCEPT ![p] = "done"]
    BY <1>2 DEF ReceiveEnd
  <2>2. says[p] = "none" => \E q \in Players : cpc[q] = "crashed"
    BY <2>1 DEF EndHasReason, HearsResult, Sent
  <2>3. says[p] = "none" => cpc[Other(p)] = "crashed"
    BY <2>1, <2>2 DEF Players, Other
  <2>4. \A q \in Players : q # p => cpc'[q] = cpc[q]
    BY <2>1 DEF TypeOK
  <2>5. Other(p) \in Players /\ Other(p) # p
    BY DEF Other, Players
  <2>6. \A q \in Players : Other(q) \in Players /\ (cpc[Other(q)] = "crashed" => cpc'[Other(q)] = "crashed")
    BY <2>1, <2>4 DEF Other, Players
  <2>7. QED BY <2>1, <2>3, <2>4, <2>5, <2>6 DEF NoSilentEnd
<1>3. ASSUME NEW p \in Players, ClientStep(p) \/ Crash(p), ~ReceiveEnd(p)
      PROVE  NoSilentEnd'
  <2>1. /\ cpc'[p] # "done"
        /\ cpc[p] \notin {"done", "crashed"}
        /\ \A q \in Players : q # p => cpc'[q] = cpc[q] /\ says'[q] = says[q]
    BY <1>3 DEF ClientStep, Connect, ReceiveReady, ReceiveTurn, ReceiveState, ReceiveResult, Receives,
         Choose, SendPayload, Crash, TypeOK
  <2>2. \A q \in Players : Other(q) \in Players
    BY DEF Other, Players
  <2>3. ASSUME NEW q \in Players, cpc'[q] = "done", says'[q] = "none"
        PROVE  cpc'[Other(q)] = "crashed"
    <3>1. q # p /\ cpc[q] = "done" /\ says[q] = "none"
      BY <2>1, <2>3
    <3>2. cpc[Other(q)] = "crashed"
      BY <3>1 DEF NoSilentEnd
    <3>3. QED BY <2>1, <2>2, <3>2
  <2>4. QED BY <2>3 DEF NoSilentEnd
<1>4. QED BY <1>1, <1>2, <1>3 DEF Next

LEMMA InitVerdict == Init => VerdictInv
BY DEF Init, VerdictInv, StatusIsFinal, Numbered, ResultsTrue, EndHasReason, NoSilentEnd, Stopped,
       Players

LEMMA NextVerdict ==
  ASSUME SafetyInv, VerdictInv, [Next]_vars
  PROVE  VerdictInv'
<1>1. /\ TypeOK /\ MoveStages /\ ResultIsKnown
      /\ StatusIsFinal /\ Numbered /\ ResultsTrue /\ EndHasReason /\ NoSilentEnd
  BY DEF SafetyInv, VerdictInv
<1>2. CASE UNCHANGED vars
  BY <1>1, <1>2 DEF VerdictInv, StatusIsFinal, Numbered, ResultsTrue, EndHasReason, NoSilentEnd,
       Verdict, HearsResult, Sent, vars, serverVars, clientVars
<1>3. CASE Next
  <2>1. StatusIsFinal' /\ NoSilentEnd'
    BY <1>1, <1>3, StepStatus, StepSilentEnd
  <2>2. CASE ServerStep
    BY <1>1, <2>1, <2>2, ServerNumbered, ServerResults, ServerReason DEF VerdictInv
  <2>3. CASE \E p \in Players : ClientStep(p) \/ Crash(p)
    BY <1>1, <2>1, <2>3, ClientNumbered, ClientResults, ClientReason DEF VerdictInv
  <2>4. CASE Terminated
    BY <1>2, <2>4 DEF Terminated
  <2>5. QED BY <1>3, <2>2, <2>3, <2>4 DEF Next
<1>4. QED BY <1>2, <1>3

(* What each client prints, and why it may print nothing.                  *)
THEOREM VerdictInvariant == Spec => []VerdictInv
<1>1. Init => VerdictInv
  BY InitVerdict
<1>2. SafetyInv /\ VerdictInv /\ [Next]_vars => VerdictInv'
  BY NextVerdict
<1>3. QED BY <1>1, <1>2, SafetyInvariant, PTL DEF Spec

(* Both clients print what check() said of them, so one wins and the other *)
(* loses, or both tie (client.c:84-93), whoever is stopped and when.       *)
THEOREM VerdictsOppositeHolds == Spec => []VerdictsOpposite
<1>1. TypeOK /\ VerdictInv => VerdictsOpposite
  <2> SUFFICES ASSUME TypeOK, VerdictInv, NEW p \in Players, says[p] # "none"
               PROVE  /\ playerno[p] = p
                      /\ says[Other(p)] \in {"none", CASE says[p] = "win"  -> "lose"
                                                       [] says[p] = "lose" -> "win"
                                                       [] says[p] = "tie"  -> "tie"}
    BY DEF VerdictsOpposite
  <2>1. playerno[p] = p /\ status # -1 /\ says[p] = Verdict(p)
    BY DEF VerdictInv, ResultsTrue
  <2>2. says[Other(p)] \in {"none", Verdict(Other(p))}
    BY DEF VerdictInv, ResultsTrue, Other, Players
  <2>3. status \in {0, 1, 2}
    BY <2>1 DEF TypeOK, Players
  <2>4. QED BY <2>1, <2>2, <2>3 DEF Verdict, Other, Players
<1>2. QED BY <1>1, TypeCorrect, VerdictInvariant, PTL

(* A client is left without a verdict only if its opponent was stopped:    *)
(* the server fails of no live player (server.c:63-76).                    *)
THEOREM NoSilentEndHolds == Spec => []NoSilentEnd
<1>1. VerdictInv => NoSilentEnd
  BY DEF VerdictInv
<1>2. QED BY <1>1, VerdictInvariant, PTL

----------------------------------------------------------------------------
(* The boards agree.                                                       *)

LEMMA StateFacts ==
  /\ \A c, d \in Cells : \A p, q : State(c, p) = State(d, q) => c = d /\ p = q
  /\ \A c, p : State(c, p).type = "STATE_UPDATE"
<1>1. \A c, p : State(c, p).cell = c /\ State(c, p).no = p /\ State(c, p).type = "STATE_UPDATE"
  BY DEF State
<1>2. QED BY <1>1

(* A later update of a cell makes the queue true of it; any other message  *)
(* leaves it as true as it was.                                            *)
LEMMA InOrderAppend ==
  ASSUME NEW s \in Seq(Messages), NEW e \in Messages, NEW c \in Cells, NEW mark,
         \/ e = State(c, mark)
         \/ InOrder(s, c, mark) /\ \A p \in Players : e # State(c, p)
  PROVE  InOrder(Append(s, e), c, mark)
<1>1. /\ Len(Append(s, e)) = Len(s) + 1 /\ Append(s, e) \in Seq(Messages)
      /\ \A i \in 1 .. Len(s) : Append(s, e)[i] = s[i]
      /\ Append(s, e)[Len(s) + 1] = e
  BY AppendProperties
<1>2. Len(s) \in Nat /\ DOMAIN s = 1 .. Len(s) /\ DOMAIN Append(s, e) = 1 .. (Len(s) + 1)
  BY <1>1, LenProperties
<1>3. SUFFICES ASSUME NEW i \in DOMAIN Append(s, e), NEW p \in Players,
                      Append(s, e)[i] = State(c, p), p # mark
               PROVE  \E j \in DOMAIN Append(s, e) : j > i /\ Append(s, e)[j] = State(c, mark)
  BY DEF InOrder
<1>4. CASE e = State(c, mark)
  <2>1. i # Len(s) + 1
    BY <1>1, <1>3, <1>4, StateFacts
  <2>2. Len(s) + 1 \in DOMAIN Append(s, e) /\ Len(s) + 1 > i
    BY <1>2, <1>3, <2>1
  <2>3. QED BY <1>1, <1>4, <2>2
<1>5. CASE InOrder(s, c, mark) /\ e # State(c, p)
  <2>1. i \in DOMAIN s /\ s[i] = State(c, p)
    BY <1>1, <1>2, <1>3, <1>5
  <2>2. PICK j \in DOMAIN s : j > i /\ s[j] = State(c, mark)
    BY <1>3, <1>5, <2>1 DEF InOrder
  <2>3. j \in DOMAIN Append(s, e) /\ Append(s, e)[j] = State(c, mark)
    BY <1>1, <1>2, <2>2
  <2>4. QED BY <2>2, <2>3
<1>6. QED BY <1>4, <1>5

(* The head of a queue is true, or the rest of the queue corrects it.      *)
LEMMA InOrderTail ==
  ASSUME NEW s \in Seq(Messages), s # <<>>, NEW c \in Cells, NEW mark, InOrder(s, c, mark)
  PROVE  /\ InOrder(Tail(s), c, mark)
         /\ \A p \in Players : Head(s) = State(c, p) =>
              p = mark \/ \E j \in DOMAIN Tail(s) : Tail(s)[j] = State(c, mark)
<1>1. /\ Tail(s) \in Seq(Messages)
      /\ Len(Tail(s)) = Len(s) - 1
      /\ \A i \in 1 .. Len(Tail(s)) : Tail(s)[i] = s[i + 1]
  BY HeadTailProperties
<1>2. /\ Len(s) \in Nat /\ DOMAIN s = 1 .. Len(s) /\ DOMAIN Tail(s) = 1 .. (Len(s) - 1)
      /\ Head(s) = s[1] /\ Len(s) # 0
  BY <1>1, LenProperties, EmptySeq
<1>3. ASSUME NEW i \in DOMAIN s, NEW p \in Players, s[i] = State(c, p), p # mark
      PROVE  \E j \in DOMAIN Tail(s) : j > i - 1 /\ Tail(s)[j] = State(c, mark)
  <2>1. PICK j \in DOMAIN s : j > i /\ s[j] = State(c, mark)
    BY <1>3 DEF InOrder
  <2>2. j - 1 \in DOMAIN Tail(s) /\ j - 1 > i - 1 /\ Tail(s)[j - 1] = s[j]
    BY <1>1, <1>2, <2>1
  <2>3. QED BY <2>1, <2>2
<1>4. ASSUME NEW i \in DOMAIN Tail(s), NEW p \in Players, Tail(s)[i] = State(c, p), p # mark
      PROVE  \E j \in DOMAIN Tail(s) : j > i /\ Tail(s)[j] = State(c, mark)
  <2>1. i + 1 \in DOMAIN s /\ s[i + 1] = State(c, p) /\ i + 1 - 1 = i
    BY <1>1, <1>2, <1>4
  <2>2. \E j \in DOMAIN Tail(s) : j > (i + 1) - 1 /\ Tail(s)[j] = State(c, mark)
    BY <1>3, <1>4, <2>1
  <2>3. QED BY <2>1, <2>2
<1>5. 1 \in DOMAIN s
  BY <1>2
<1>6. QED BY <1>2, <1>3, <1>4, <1>5 DEF InOrder

(* A notification of a live client keeps its updates in order, if it is    *)
(* about another cell or about the mark the cell has.                      *)
LEMMA NotifyKeepsOrder ==
  ASSUME TypeOK, NEW p \in Players, NEW msg \in Messages, NEW place, Note(p, msg, place),
         NEW q \in Players, cpc[q] # "crashed", NEW c \in Cells, NEW mark, board[c] = mark,
         InOrder(s2c[q], c, board[c]) /\ UpToDate(q, c),
         \A o \in Players : msg = State(c, o) => o = mark
  PROVE  (InOrder(s2c[q], c, board[c]) /\ UpToDate(q, c))'
<1>1. UNCHANGED <<board, view, cpc, choice, c2s>>
  BY DEF Note, Notify, clientVars
<1>2. UpToDate(q, c)'
  <2>1. \A x : Sent(q, x) => Sent(q, x)'
    BY NoteFacts
  <2>2. Sent(q, State(c, mark)) => Sent(q, State(c, mark))'
    <3>1. PICK x : x = State(c, mark)
      OBVIOUS
    <3>2. QED BY <2>1, <3>1 DEF Sent
  <2>3. QED BY <1>1, <2>2 DEF UpToDate, Sent, InFlight
<1>3. InOrder(s2c'[q], c, mark)
  <2>1. CASE s2c'[q] = s2c[q]
    BY <2>1
  <2>2. CASE s2c'[q] # s2c[q]
    <3>1. s2c'[q] = Append(s2c[q], msg) /\ s2c[q] \in Seq(Messages)
      BY <2>2, NoteFacts DEF TypeOK
    <3>2. QED BY <3>1, InOrderAppend
  <2>3. QED BY <2>1, <2>2
<1>4. QED BY <1>1, <1>2, <1>3 DEF InOrder

(* The notification of the mark itself brings the client up to date.       *)
LEMMA NotifyUpdates ==
  ASSUME TypeOK, NEW p \in Players, NEW c \in Cells, NEW mark \in Players,
         NEW msg \in Messages, msg = State(c, mark), NEW place,
         Note(p, msg, place), cpc[p] # "crashed", board[c] = mark
  PROVE  (InOrder(s2c[p], c, board[c]) /\ UpToDate(p, c))'
<1>1. board' = board
  BY DEF Note, Notify
<1>2. s2c'[p] = Append(s2c[p], msg) /\ s2c[p] \in Seq(Messages)
  BY NoteFacts DEF TypeOK
<1>3. InOrder(s2c'[p], c, mark)
  <2>1. InOrder(Append(s2c[p], msg), c, mark)
    BY <1>2, InOrderAppend
  <2>2. QED BY <1>2, <2>1
<1>4. \E i \in DOMAIN s2c'[p] : s2c'[p][i] = msg
  BY <1>2, HoldsAfterAppend
<1>5. QED BY <1>1, <1>3, <1>4 DEF InOrder, UpToDate, Sent

(* A step of the server that sends nothing: a mark is on its way to both,  *)
(* and a move read is either the header or the move that is marked.        *)
LEMMA SilentServerViews ==
  ASSUME TypeOK, MoveStages, ViewsUpdated, ServerStep, UNCHANGED s2c,
         spc \in {"accept", "header", "payload", "check"}, spc' # "failed"
  PROVE  ViewsUpdated'
<1>1. /\ UNCHANGED <<view, cpc, choice>>
      /\ RecvHeader \/ RecvPayload \/ RecvPayloadFails \/ UNCHANGED <<board, c2s>>
  BY DEF ServerStep, Accept, NotifyReady1, NotifyReady2, NotifyTurn, RecvHeader, RecvHeaderFails,
         RecvPayload, RecvPayloadFails, NotifyState1, NotifyState2, CheckBoard, NotifyResult1,
         NotifyResult2, Notify, clientVars
<1>2. SUFFICES ASSUME NEW p \in Players, NEW c \in Cells, cpc[p] # "crashed",
                      InOrder(s2c[p], c, board[c]) /\ UpToDate(p, c)
               PROVE  \/ (StillToSend(p) /\ move = c)'
                      \/ (InOrder(s2c[p], c, board[c]) /\ UpToDate(p, c))'
  BY <1>1 DEF ViewsUpdated, StillToSend
<1>3. CASE board' = board /\ (InFlight(p, c) => InFlight(p, c)')
  BY <1>1, <1>2, <1>3 DEF InOrder, UpToDate, Sent
<1>4. CASE UNCHANGED <<board, c2s>>
  BY <1>1, <1>3, <1>4 DEF InFlight
<1>5. CASE RecvHeader
  <2>1. /\ board' = board /\ turn \in Players /\ c2s' = [c2s EXCEPT ![turn] = Tail(@)]
        /\ c2s[turn] # <<>> /\ c2s[turn] \in Seq(MoveParts)
        /\ Head(c2s[turn]) = MoveHeader
    BY <1>5, HeaderWaiting DEF RecvHeader, TypeOK
  <2>2. PICK x : x = MovePayload(c)
    OBVIOUS
  <2>3. (\E i \in DOMAIN c2s[turn] : c2s[turn][i] = x)
          => \E i \in DOMAIN Tail(c2s[turn]) : Tail(c2s[turn])[i] = x
    <3>1. x # Head(c2s[turn])
      BY <2>1, <2>2, MovePartFacts
    <3>2. (\E i \in DOMAIN c2s[turn] : c2s[turn][i] = x)
            <=> x = Head(c2s[turn]) \/ \E i \in DOMAIN Tail(c2s[turn]) : Tail(c2s[turn])[i] = x
      BY <2>1, HoldsAfterTail
    <3>3. QED BY <3>1, <3>2
  <2>4. c2s'[turn] = Tail(c2s[turn]) /\ \A q \in Players : q # turn => c2s'[q] = c2s[q]
    BY <2>1 DEF TypeOK
  <2>5. InFlight(p, c) => InFlight(p, c)'
    BY <1>1, <2>2, <2>3, <2>4 DEF InFlight
  <2>6. QED BY <1>3, <2>1, <2>5
<1>6. CASE RecvPayload \/ RecvPayloadFails
  <2>1. PICK d : /\ Place(d)
                 /\ \/ c2s' = c2s
                    \/ /\ c2s[turn] = <<MovePayload(d)>> /\ d \in Cells
                       /\ c2s' = [c2s EXCEPT ![turn] = Tail(@)]
    <3>1. CASE RecvPayload
      <4>1. spc = "payload" /\ c2s[turn] # <<>> /\ Place(Head(c2s[turn]).cell)
            /\ c2s' = [c2s EXCEPT ![turn] = Tail(@)]
        BY <3>1 DEF RecvPayload
      <4>2. Head(c2s[turn]).cell \in Cells /\ c2s[turn] = <<MovePayload(Head(c2s[turn]).cell)>>
        BY <4>1, PayloadWaiting
      <4>3. QED BY <4>1, <4>2
    <3>2. CASE RecvPayloadFails
      BY <3>2 DEF RecvPayloadFails
    <3>3. QED BY <1>6, <3>1, <3>2
  <2>2. CASE c = d
    BY <2>1, <2>2 DEF Place, StillToSend
  <2>3. CASE c # d
    <3>1. board'[c] = board[c]
      BY <2>1, <2>3 DEF Place, TypeOK, Boards
    <3>2. InFlight(p, c) => InFlight(p, c)'
      <4>1. CASE c2s' = c2s
        BY <1>1, <4>1 DEF InFlight
      <4>2. CASE c2s[turn] = <<MovePayload(d)>> /\ d \in Cells /\ c2s' = [c2s EXCEPT ![turn] = Tail(@)]
        <5>1. \A i \in DOMAIN c2s[turn] : c2s[turn][i] # MovePayload(c)
          BY <2>3, <4>2, MovePartFacts
        <5>2. \A q \in Players : q # turn => c2s'[q] = c2s[q]
          BY <4>2 DEF TypeOK
        <5>3. QED BY <1>1, <5>1, <5>2 DEF InFlight
      <4>3. QED BY <2>1, <4>1, <4>2
    <3>3. QED BY <1>1, <1>2, <3>1, <3>2 DEF InOrder, UpToDate, Sent
  <2>4. QED BY <2>2, <2>3
<1>7. QED BY <1>1, <1>4, <1>5, <1>6

LEMMA ServerViews ==
  ASSUME TypeOK, MoveStages, ResultIsKnown, ViewInv, ServerStep
  PROVE  ViewsUpdated'
<1>1. UNCHANGED cpc
  BY ServerNotes DEF clientVars
<1>2. turn \in Players /\ move \in Cells /\ 1 \in Players /\ 2 \in Players
      /\ \A q \in Players : q = 1 \/ q = 2
  BY DEF TypeOK, Players
<1>3. CASE spc' = "failed"
  BY <1>3 DEF ViewsUpdated
<1>4. CASE UNCHANGED s2c /\ spc \in {"accept", "header", "payload", "check"}
  BY <1>3, <1>4, SilentServerViews DEF ViewInv
<1>5. ASSUME NEW p \in Players, NEW msg \in Messages, NEW place \in ServerPlaces,
             Note(p, msg, place), msg.type # "STATE_UPDATE",
             place \notin {"failed", "state1", "state2"}
      PROVE  ViewsUpdated'
  <2>1. SUFFICES ASSUME NEW q \in Players, NEW c \in Cells, cpc[q] # "crashed"
                 PROVE  (InOrder(s2c[q], c, board[c]) /\ UpToDate(q, c))'
    BY <1>1 DEF ViewsUpdated
  <2>2. InOrder(s2c[q], c, board[c]) /\ UpToDate(q, c)
    BY <1>5, <2>1 DEF ViewInv, ViewsUpdated, StillToSend, Note
  <2>3. PICK mark : board[c] = mark
    OBVIOUS
  <2>4. \A o \in Players : msg # State(c, o)
    BY <1>5, StateFacts
  <2>5. QED BY <1>5, <2>1, <2>2, <2>3, <2>4, NotifyKeepsOrder
<1>6. ASSUME NEW p \in Players, NEW msg \in Messages, NEW place \in {"state1", "state2"},
             msg = State(move, turn), Note(p, msg, place),
             \/ place = "state1" /\ p = 1 /\ spc' = "state2"
             \/ place = "state2" /\ p = 2 /\ spc' = "check"
      PROVE  ViewsUpdated'
  <2>1. SUFFICES ASSUME NEW q \in Players, NEW c \in Cells, cpc[q] # "crashed"
                 PROVE  \/ (StillToSend(q) /\ move = c)'
                        \/ (InOrder(s2c[q], c, board[c]) /\ UpToDate(q, c))'
    BY <1>1 DEF ViewsUpdated
  <2>2. spc = place /\ move' = move
    BY <1>6, NoteFacts DEF Note
  <2>3. PICK d \in Cells, o \in Players : d = move /\ o = turn /\ msg = State(d, o)
    BY <1>2, <1>6
  <2>4. board[d] = o
    BY <1>6, <2>2, <2>3 DEF ViewInv, MoveIsMarked
  <2>5. CASE q = p /\ c = d
    BY <1>6, <2>1, <2>3, <2>4, <2>5, NotifyUpdates
  <2>6. CASE q # p /\ c = d /\ (StillToSend(q) /\ move = c)
    BY <1>2, <1>6, <2>2, <2>6 DEF StillToSend
  <2>7. CASE (c # d \/ q # p) /\ ~(StillToSend(q) /\ move = c)
    <3>1. InOrder(s2c[q], c, board[c]) /\ UpToDate(q, c)
      BY <1>6, <2>1, <2>2, <2>7 DEF ViewInv, ViewsUpdated
    <3>2. PICK mark : board[c] = mark
      OBVIOUS
    <3>3. \A r \in Players : msg = State(c, r) => r = mark
      BY <2>3, <2>4, <3>2, StateFacts
    <3>4. QED BY <1>6, <2>1, <3>1, <3>2, <3>3, NotifyKeepsOrder
  <2>8. QED BY <2>3, <2>5, <2>6, <2>7
<1>7. /\ Ready(1) \in Messages /\ Ready(2) \in Messages /\ YourTurn \in Messages
      /\ State(move, turn) \in Messages
      /\ Ready(1).type # "STATE_UPDATE" /\ Ready(2).type # "STATE_UPDATE"
      /\ YourTurn.type # "STATE_UPDATE" /\ Result(status).type # "STATE_UPDATE"
  BY <1>2, MessageFacts DEF YourTurn, Result, Ready
<1>8. spc \in {"result1", "result2"} => Result(status) \in Messages
  BY MessageFacts DEF ResultIsKnown, TypeOK
<1>9. CASE Note(1, Ready(1), "ready1")
  BY <1>2, <1>5, <1>7, <1>9 DEF ServerPlaces
<1>10. CASE Note(2, Ready(2), "ready2")
  BY <1>2, <1>5, <1>7, <1>10 DEF ServerPlaces
<1>11. CASE Note(turn, YourTurn, "turn")
  BY <1>2, <1>5, <1>7, <1>11 DEF ServerPlaces
<1>12. CASE Note(1, State(move, turn), "state1") /\ spc' \in {"state2", "failed"}
  BY <1>2, <1>3, <1>6, <1>7, <1>12
<1>13. CASE Note(2, State(move, turn), "state2") /\ spc' \in {"check", "failed"}
  BY <1>2, <1>3, <1>6, <1>7, <1>13
<1>14. CASE Note(1, Result(status), "result1")
  <2>1. Result(status) \in Messages
    BY <1>8, <1>14 DEF Note
  <2>2. QED BY <1>2, <1>5, <1>7, <1>14, <2>1 DEF ServerPlaces
<1>15. CASE Note(2, Result(status), "result2")
  <2>1. Result(status) \in Messages
    BY <1>8, <1>15 DEF Note
  <2>2. QED BY <1>2, <1>5, <1>7, <1>15, <2>1 DEF ServerPlaces
<1>16. QED
  BY <1>4, <1>9, <1>10, <1>11, <1>12, <1>13, <1>14, <1>15, ServerNotes

LEMMA StepMoveIsMarked ==
  ASSUME TypeOK, MoveStages, MoveIsMarked, Next
  PROVE  MoveIsMarked'
<1>1. CASE RecvPayload
  <2>1. spc = "payload" /\ c2s[turn] # <<>> /\ Place(Head(c2s[turn]).cell) /\ turn' = turn
    BY <1>1 DEF RecvPayload
  <2>2. PICK d \in Cells : d = Head(c2s[turn]).cell
    BY <2>1, PayloadWaiting
  <2>3. move' = d /\ board' = [board EXCEPT ![d] = turn]
    BY <2>1, <2>2 DEF Place
  <2>4. QED BY <2>1, <2>3 DEF MoveIsMarked, TypeOK, Boards
<1>2. CASE RecvPayloadFails
  <2>1. CASE \E c \in Cells : Place(c)
    BY <1>2, <2>1 DEF RecvPayloadFails, Place, MoveIsMarked, TypeOK, Boards
  <2>2. CASE spc' = "failed"
    BY <2>2 DEF MoveIsMarked
  <2>3. QED BY <1>2, <2>1, <2>2 DEF RecvPayloadFails
<1>3. CASE NotifyState1 \/ NotifyState2
  BY <1>3 DEF NotifyState1, NotifyState2, Notify, MoveIsMarked
<1>4. CASE \/ Accept \/ NotifyReady1 \/ NotifyReady2 \/ NotifyTurn \/ RecvHeader
           \/ RecvHeaderFails \/ CheckBoard \/ NotifyResult1 \/ NotifyResult2
  <2>1. spc' \notin {"state1", "state2"}
    BY <1>4 DEF Accept, NotifyReady1, NotifyReady2, NotifyTurn, RecvHeader, RecvHeaderFails,
         CheckBoard, NotifyResult1, NotifyResult2, Notify, Stopped
  <2>2. QED BY <2>1 DEF MoveIsMarked
<1>5. CASE Terminated \/ \E p \in Players : ClientStep(p) \/ Crash(p)
  <2>1. UNCHANGED serverVars
    BY <1>5 DEF ClientStep, Connect, ReceiveReady, ReceiveTurn, ReceiveState, ReceiveResult, Receives,
         Choose, SendPayload, ReceiveEnd, Crash, Terminated, vars
  <2>2. QED BY <2>1 DEF serverVars, MoveIsMarked
<1>6. QED BY <1>1, <1>2, <1>3, <1>4, <1>5 DEF Next, ServerStep

(* A client that receives anything but a mark knows as much as before.     *)
LEMMA ReceivesViews ==
  ASSUME TypeOK, NEW p \in Players, NEW type, Receives(p, type), type # "STATE_UPDATE",
         NEW c \in Cells, InOrder(s2c[p], c, board[c]), UpToDate(p, c), view' = view
  PROVE  (InOrder(s2c[p], c, board[c]) /\ UpToDate(p, c))'
<1>1. /\ s2c[p] \in Seq(Messages) /\ s2c[p] # <<>> /\ s2c'[p] = Tail(s2c[p])
      /\ UNCHANGED <<board, choice, c2s>> /\ cpc[p] = "recv" /\ Head(s2c[p]).type = type
  BY DEF TypeOK, Receives, serverVars
<1>2. PICK mark, x : board[c] = mark /\ x = State(c, mark)
  OBVIOUS
<1>3. InOrder(Tail(s2c[p]), c, mark)
  BY <1>1, <1>2, InOrderTail
<1>4. x # Head(s2c[p])
  BY <1>1, <1>2, StateFacts
<1>5. Sent(p, x) => Sent(p, x)'
  BY <1>4, ReceivesTakes
<1>6. InFlight(p, c) => InFlight(p, c)'
  BY <1>1 DEF InFlight
<1>7. UpToDate(p, c)'
  BY <1>1, <1>2, <1>5, <1>6 DEF UpToDate, Sent
<1>8. QED BY <1>1, <1>2, <1>3, <1>7 DEF InOrder

(* A client that receives a mark has it, or the mark that corrects it is   *)
(* still to come.                                                          *)
LEMMA ReceiveStateViews ==
  ASSUME TypeOK, NEW p \in Players, ReceiveState(p), NEW c \in Cells,
         InOrder(s2c[p], c, board[c]), UpToDate(p, c)
  PROVE  (InOrder(s2c[p], c, board[c]) /\ UpToDate(p, c))'
<1>1. /\ s2c[p] \in Seq(Messages) /\ s2c[p] # <<>> /\ s2c'[p] = Tail(s2c[p])
      /\ UNCHANGED <<board, choice, c2s, cpc>> /\ Receives(p, "STATE_UPDATE")
  BY DEF ReceiveState, TypeOK, Receives, serverVars
<1>2. PICK mark, x : board[c] = mark /\ x = State(c, mark)
  OBVIOUS
<1>3. PICK d \in Cells, o \in Players :
        Head(s2c[p]) = State(d, o) /\ view' = [view EXCEPT ![p] = [@ EXCEPT ![d] = o]]
  <2>1. Head(s2c[p]) \in Messages /\ Head(s2c[p]).type = "STATE_UPDATE"
    BY <1>1, ReceivesType DEF Receives
  <2>2. QED BY <2>1, MessageFacts DEF ReceiveState
<1>4. /\ InOrder(Tail(s2c[p]), c, mark)
      /\ \A q \in Players : Head(s2c[p]) = State(c, q) =>
           q = mark \/ \E j \in DOMAIN Tail(s2c[p]) : Tail(s2c[p])[j] = State(c, mark)
  <2>1. InOrder(s2c[p], c, mark)
    BY <1>2
  <2>2. QED BY <1>1, <2>1, InOrderTail
<1>5. CASE c = d
  <2>1. view'[p][c] = o
    BY <1>3, <1>5 DEF TypeOK, Boards
  <2>2. o = mark \/ \E j \in DOMAIN Tail(s2c[p]) : Tail(s2c[p])[j] = x
    BY <1>2, <1>3, <1>4, <1>5
  <2>3. UpToDate(p, c)'
    BY <1>1, <1>2, <2>1, <2>2 DEF UpToDate, Sent
  <2>4. QED BY <1>1, <1>2, <1>4, <2>3 DEF InOrder
<1>6. CASE c # d
  <2>1. view'[p][c] = view[p][c]
    BY <1>3, <1>6 DEF TypeOK, Boards
  <2>2. x # Head(s2c[p])
    BY <1>2, <1>3, <1>6 DEF State
  <2>3. Sent(p, x) => Sent(p, x)'
    BY <1>1, <2>2, ReceivesTakes
  <2>4. InFlight(p, c) => InFlight(p, c)'
    BY <1>1 DEF InFlight
  <2>5. UpToDate(p, c)'
    BY <1>1, <1>2, <2>1, <2>3, <2>4 DEF UpToDate, Sent
  <2>6. QED BY <1>1, <1>2, <1>4, <2>5 DEF InOrder
<1>7. QED BY <1>5, <1>6

(* A client that chooses a cell marks it on its own board, and the move is *)
(* on its way to the server.                                               *)
LEMMA MoveViews ==
  ASSUME TypeOK, MoveStages, Informed, ChoiceIsFree, NEW p \in Players, Choose(p) \/ SendPayload(p),
         NEW c \in Cells, InOrder(s2c[p], c, board[c]), UpToDate(p, c)
  PROVE  (InOrder(s2c[p], c, board[c]) /\ UpToDate(p, c))'
<1>1. UNCHANGED <<board, s2c>>
  BY DEF Choose, SendPayload, serverVars
<1>2. /\ c2s[p] \in Seq(MoveParts) /\ MoveHeader \in MoveParts
      /\ \A e \in MoveParts : \A x : (\E i \in DOMAIN c2s[p] : c2s[p][i] = x)
            => \E i \in DOMAIN Append(c2s[p], e) : Append(c2s[p], e)[i] = x
  <2>1. c2s[p] \in Seq(MoveParts) /\ MoveHeader \in MoveParts
    BY MovePartFacts DEF TypeOK
  <2>2. QED BY <2>1, HoldsAfterAppend
<1>3. PICK x \in MoveParts : x = MovePayload(c)
  BY MovePartFacts
<1>4. CASE Choose(p)
  <2>1. PICK d \in Cells : /\ choice' = [choice EXCEPT ![p] = d]
                           /\ view' = [view EXCEPT ![p] = [@ EXCEPT ![d] = playerno[p]]]
    BY <1>4 DEF Choose
  <2>2. cpc[p] = "input" /\ cpc'[p] = "payload" /\ choice'[p] = d
        /\ c2s'[p] = Append(c2s[p], MoveHeader)
    BY <1>4, <2>1 DEF Choose, TypeOK
  <2>3. CASE c = d
    <3>1. InFlight(p, c)'
      BY <2>2, <2>3 DEF InFlight
    <3>2. board'[c] = 0
      <4>1. ChoiceIsFree'
        BY <1>4, ClientChoiceIsFree DEF ClientStep
      <4>2. QED BY <3>1, <4>1 DEF ChoiceIsFree
    <3>3. QED BY <1>1, <3>1, <3>2 DEF UpToDate, InOrder
  <2>4. CASE c # d
    <3>1. view'[p][c] = view[p][c]
      BY <2>1, <2>4 DEF TypeOK, Boards
    <3>2. InFlight(p, c) => InFlight(p, c)'
      BY <1>2, <1>3, <2>2 DEF InFlight
    <3>3. QED BY <1>1, <3>1, <3>2 DEF UpToDate, InOrder, Sent
  <2>5. QED BY <2>3, <2>4
<1>5. CASE SendPayload(p)
  <2>1. view' = view /\ c2s'[p] = Append(c2s[p], MovePayload(choice[p])) /\ choice[p] \in Cells
    BY <1>5 DEF SendPayload, TypeOK
  <2>2. PICK e \in MoveParts : e = MovePayload(choice[p])
    BY <2>1, MovePartFacts
  <2>3. (x = e \/ \E i \in DOMAIN c2s[p] : c2s[p][i] = x)
          => \E i \in DOMAIN Append(c2s[p], e) : Append(c2s[p], e)[i] = x
    <3>1. PICK s \in Seq(MoveParts) : s = c2s[p]
      BY <1>2
    <3>2. (\E i \in DOMAIN Append(s, e) : Append(s, e)[i] = x)
            <=> x = e \/ \E i \in DOMAIN s : s[i] = x
      BY HoldsAfterAppend
    <3>3. QED BY <3>1, <3>2
  <2>4. InFlight(p, c) => InFlight(p, c)'
    <3>1. InFlight(p, c) => x = e \/ \E i \in DOMAIN c2s[p] : c2s[p][i] = x
      BY <1>3, <2>2 DEF InFlight
    <3>2. c2s'[p] = Append(c2s[p], e)
      BY <2>1, <2>2
    <3>3. QED BY <1>3, <2>3, <3>1, <3>2 DEF InFlight
  <2>5. QED BY <1>1, <2>1, <2>4 DEF UpToDate, InOrder, Sent
<1>6. QED BY <1>4, <1>5

LEMMA ClientViews ==
  ASSUME TypeOK, MoveStages, Informed, ChoiceIsFree, ViewsUpdated,
         NEW p \in Players, ClientStep(p) \/ Crash(p)
  PROVE  ViewsUpdated'
<1>1. UNCHANGED <<spc, board, move>>
  BY DEF ClientStep, Connect, ReceiveReady, ReceiveTurn, ReceiveState, ReceiveResult, Receives,
         Choose, SendPayload, ReceiveEnd, Crash, serverVars
<1>2. \A q \in Players : q # p => /\ s2c'[q] = s2c[q] /\ view'[q] = view[q] /\ cpc'[q] = cpc[q]
                                  /\ choice'[q] = choice[q] /\ c2s'[q] = c2s[q]
  BY DEF ClientStep, Connect, ReceiveReady, ReceiveTurn, ReceiveState, ReceiveResult, Receives,
         Choose, SendPayload, ReceiveEnd, Crash, TypeOK
<1>3. SUFFICES ASSUME NEW q \in Players, NEW c \in Cells, cpc'[q] # "crashed",
                      InOrder(s2c[q], c, board[c]) /\ UpToDate(q, c)
               PROVE  (InOrder(s2c[q], c, board[c]) /\ UpToDate(q, c))'
  <2>1. \A q \in Players : cpc[q] = "crashed" => cpc'[q] = "crashed"
    BY DEF ClientStep, Connect, ReceiveReady, ReceiveTurn, ReceiveState, ReceiveResult, Receives,
           Choose, SendPayload, ReceiveEnd, Crash, TypeOK
  <2>2. QED BY <1>1, <2>1 DEF ViewsUpdated, StillToSend
<1>4. CASE q # p
  BY <1>1, <1>2, <1>3, <1>4 DEF InOrder, UpToDate, Sent, InFlight
<1>5. CASE q = p
  <2>1. CASE ReceiveReady(p) \/ ReceiveTurn(p) \/ ReceiveResult(p)
    <3>1. PICK type : Receives(p, type) /\ type # "STATE_UPDATE" /\ view' = view
      BY <2>1 DEF ReceiveReady, ReceiveTurn, ReceiveResult
    <3>2. QED BY <1>3, <1>5, <3>1, ReceivesViews
  <2>2. CASE ReceiveState(p)
    BY <1>3, <1>5, <2>2, ReceiveStateViews
  <2>3. CASE Choose(p) \/ SendPayload(p)
    BY <1>3, <1>5, <2>3, MoveViews
  <2>4. CASE Connect(p) \/ ReceiveEnd(p)
    <3>1. UNCHANGED <<s2c, view, choice, c2s>> /\ cpc[p] # "payload"
      BY <2>4 DEF Connect, ReceiveEnd
    <3>2. QED BY <1>1, <1>3, <1>5, <3>1 DEF InOrder, UpToDate, Sent, InFlight
  <2>5. CASE Crash(p)
    BY <1>3, <1>5, <2>5 DEF Crash, TypeOK
  <2>6. QED BY <2>1, <2>2, <2>3, <2>4, <2>5 DEF ClientStep
<1>6. QED BY <1>4, <1>5

LEMMA InitViews == Init => ViewInv
BY DEF Init, ViewInv, MoveIsMarked, ViewsUpdated, InOrder, UpToDate, EmptyBoard

LEMMA NextViews ==
  ASSUME SafetyInv, ViewInv, [Next]_vars
  PROVE  ViewInv'
<1>1. /\ TypeOK /\ MoveStages /\ Informed /\ ChoiceIsFree /\ ResultIsKnown
      /\ MoveIsMarked /\ ViewsUpdated
  BY DEF SafetyInv, ViewInv
<1>2. CASE UNCHANGED vars
  BY <1>1, <1>2 DEF ViewInv, MoveIsMarked, ViewsUpdated, InOrder, UpToDate, StillToSend, Sent,
       InFlight, vars, serverVars, clientVars
<1>3. CASE ServerStep
  <2>1. MoveIsMarked'
    BY <1>1, <1>3, StepMoveIsMarked DEF Next
  <2>2. QED BY <1>1, <1>3, <2>1, ServerViews DEF ViewInv
<1>4. ASSUME NEW p \in Players, ClientStep(p) \/ Crash(p)
      PROVE  ViewInv'
  <2>1. MoveIsMarked'
    BY <1>1, <1>4, StepMoveIsMarked DEF Next
  <2>2. QED BY <1>1, <1>4, <2>1, ClientViews DEF ViewInv
<1>5. QED BY <1>2, <1>3, <1>4 DEF Next, Terminated

(* Every live client is told of every mark, in the order of the marks.     *)
THEOREM ViewInvariant == Spec => []ViewInv
<1>1. Init => ViewInv
  BY InitViews
<1>2. SafetyInv /\ ViewInv /\ [Next]_vars => ViewInv'
  BY NextViews
<1>3. QED BY <1>1, <1>2, SafetyInvariant, PTL DEF Spec

(* A client's board differs from the server's only by an update on its way *)
(* or by its own move (server.c:87-90, client.c:66 and 79-82).             *)
THEOREM ViewsFollowBoardHolds == Spec => []ViewsFollowBoard
<1>1. ViewInv => ViewsFollowBoard
  BY DEF ViewInv, ViewsUpdated, UpToDate, ViewsFollowBoard, OnItsWay
<1>2. QED BY <1>1, ViewInvariant, PTL

----------------------------------------------------------------------------
(* The game.                                                               *)

(* check() finds a line exactly when a player owns one, though it may name *)
(* the other player (server.c:111-114), and without a line it says -1 as   *)
(* long as a cell is empty.                                                *)
LEMMA HitIsLine ==
  ASSUME NEW b \in Boards, NEW i \in Hits(b)
  PROVE  /\ \E p \in Players : OwnsLine(b, p)
         /\ b[<<i, 0>>] \in Players \/ b[<<0, i>>] \in Players
<1>1. i \in Idx /\ 0 \in Idx
  BY SizeFacts DEF Hits
<1>2. CASE UniformRow(b, i)
  <2>1. b[<<i, 0>>] \in Players
    BY <1>1, <1>2 DEF UniformRow, Boards, Cells
  <2>2. {<<i, j>> : j \in Idx} \in Lines
    BY <1>1 DEF Lines
  <2>3. \A c \in {<<i, j>> : j \in Idx} : b[c] = b[<<i, 0>>]
    BY <1>2 DEF UniformRow
  <2>4. QED BY <2>1, <2>2, <2>3 DEF OwnsLine
<1>3. CASE UniformColumn(b, i)
  <2>1. b[<<0, i>>] \in Players
    BY <1>1, <1>3 DEF UniformColumn, Boards, Cells
  <2>2. {<<j, i>> : j \in Idx} \in Lines
    BY <1>1 DEF Lines
  <2>3. \A c \in {<<j, i>> : j \in Idx} : b[c] = b[<<0, i>>]
    BY <1>3 DEF UniformColumn
  <2>4. QED BY <2>1, <2>2, <2>3 DEF OwnsLine
<1>4. QED BY <1>2, <1>3 DEF Hits

LEMMA FirstHitNamesPlayer ==
  ASSUME NEW b \in Boards, Hits(b) # {}
  PROVE  FirstHitMark(b) \in Players
<1> DEFINE First(h) == \A k \in Hits(b) : h <= k
           i == CHOOSE h \in Hits(b) : First(h)
<1>1. Hits(b) \subseteq Nat
  BY SizeFacts DEF Hits, Idx
<1>2. \E h \in Hits(b) : First(h)
  BY <1>1, LeastElement
<1>3. i \in Hits(b)
  BY <1>2
<1> HIDE DEF First, i
<1>4. b[<<i, 0>>] \in Players \/ b[<<0, i>>] \in Players
  BY <1>3, HitIsLine
<1>5. b[<<i, 0>>] \in {0} \cup Players
  BY <1>3, SizeFacts DEF Hits, Cells, Boards
<1>6. QED BY <1>4, <1>5 DEF FirstHitMark, i, First, Players

LEMMA DiagonalIsLine ==
  ASSUME NEW b \in Boards, UniformDiagonal(b)
  PROVE  b[Centre] \in Players /\ OwnsLine(b, b[Centre])
<1>1. b[Centre] \in Players
  BY SizeFacts DEF UniformDiagonal, Boards
<1>2. {<<i, i>> : i \in Idx} \in Lines /\ {<<i, Size - 1 - i>> : i \in Idx} \in Lines
  BY DEF Lines
<1>3. QED BY <1>1, <1>2 DEF UniformDiagonal, OwnsLine

(* Both diagonals cross in the centre, as the size is odd.                 *)
LEMMA CentreOnDiagonals ==
  /\ Centre \in {<<i, i>> : i \in Idx}
  /\ Centre \in {<<i, Size - 1 - i>> : i \in Idx}
<1>1. Size \div 2 \in Idx /\ Size - 1 - (Size \div 2) = Size \div 2
  BY SizeAssumption, SizeFacts
<1>2. QED BY <1>1 DEF Centre

LEMMA LineIsSeen ==
  ASSUME NEW b \in Boards, NEW p \in Players, OwnsLine(b, p)
  PROVE  Hits(b) # {} \/ UniformDiagonal(b)
<1>1. PICK line \in Lines : \A c \in line : b[c] = p
  BY DEF OwnsLine
<1>2. p # 0 /\ 0 \in Idx
  BY SizeFacts DEF Players
<1>3. CASE \E i \in Idx : line = {<<i, j>> : j \in Idx}
  <2>1. PICK i \in Idx : line = {<<i, j>> : j \in Idx}
    BY <1>3
  <2>2. \A j \in Idx : b[<<i, j>>] = p
    BY <1>1, <2>1
  <2>3. QED BY <1>2, <2>2 DEF Hits, UniformRow
<1>4. CASE \E j \in Idx : line = {<<i, j>> : i \in Idx}
  <2>1. PICK j \in Idx : line = {<<i, j>> : i \in Idx}
    BY <1>4
  <2>2. \A i \in Idx : b[<<i, j>>] = p
    BY <1>1, <2>1
  <2>3. QED BY <1>2, <2>2 DEF Hits, UniformColumn
<1>5. CASE line = {<<i, i>> : i \in Idx}
  <2>1. b[Centre] = p /\ \A i \in Idx : b[<<i, i>>] = p
    BY <1>1, <1>5, CentreOnDiagonals
  <2>2. QED BY <1>2, <2>1 DEF UniformDiagonal
<1>6. CASE line = {<<i, Size - 1 - i>> : i \in Idx}
  <2>1. b[Centre] = p /\ \A i \in Idx : b[<<i, Size - 1 - i>>] = p
    BY <1>1, <1>6, CentreOnDiagonals
  <2>2. QED BY <1>2, <2>1 DEF UniformDiagonal
<1>7. QED BY <1>1, <1>3, <1>4, <1>5, <1>6 DEF Lines

LEMMA CheckDecides ==
  ASSUME NEW b \in Boards
  PROVE  /\ check(b) = -1 <=> ~Decided(b)
         /\ (\E p \in Players : OwnsLine(b, p)) => check(b) \in Players
         /\ check(b) # -1 /\ ~(\E p \in Players : OwnsLine(b, p)) => check(b) = 0
<1>1. CASE Hits(b) # {}
  <2>1. check(b) \in Players
    BY <1>1, FirstHitNamesPlayer DEF check
  <2>2. \E p \in Players : OwnsLine(b, p)
    BY <1>1, HitIsLine
  <2>3. QED BY <2>1, <2>2 DEF Decided, Players
<1>2. CASE Hits(b) = {} /\ UniformDiagonal(b)
  <2>1. check(b) = b[Centre] /\ b[Centre] \in Players /\ OwnsLine(b, b[Centre])
    BY <1>2, DiagonalIsLine DEF check
  <2>2. QED BY <2>1 DEF Decided, Players
<1>3. CASE Hits(b) = {} /\ ~UniformDiagonal(b)
  <2>1. ~\E p \in Players : OwnsLine(b, p)
    BY <1>3, LineIsSeen
  <2>2. check(b) = IF Full(b) THEN 0 ELSE -1
    BY <1>3 DEF check
  <2>3. QED BY <2>1, <2>2 DEF Decided
<1>4. QED BY <1>1, <1>2, <1>3

Owned(b, p) == {c \in Cells : b[c] = p}

LEMMA OwnedFinite ==
  ASSUME NEW b, NEW p
  PROVE  IsFiniteSet(Owned(b, p)) /\ Cardinality(Owned(b, p)) \in Nat
<1>1. IsFiniteSet(Idx)
  BY SizeFacts, FS_Interval DEF Idx
<1>2. IsFiniteSet(Cells)
  BY <1>1, FS_Product DEF Cells
<1>3. Owned(b, p) \in SUBSET Cells
  BY DEF Owned
<1>4. QED BY <1>2, <1>3, FS_Subset, FS_CardinalityType

(* Marking an empty cell gives its player one mark more.                   *)
LEMMA MarkCounts ==
  ASSUME NEW b \in Boards, NEW m \in Boards, NEW d \in Cells, NEW p \in Players,
         b[d] = 0, \A c \in Cells : m[c] = IF c = d THEN p ELSE b[c]
  PROVE  /\ Cardinality(Owned(m, p)) = Cardinality(Owned(b, p)) + 1
         /\ \A q \in Players : q # p => Owned(m, q) = Owned(b, q)
<1>1. d \notin Owned(b, p)
  BY DEF Owned, Players
<1>2. Owned(m, p) = Owned(b, p) \cup {d}
  BY DEF Owned, Boards
<1>3. Cardinality(Owned(b, p) \cup {d}) = Cardinality(Owned(b, p)) + 1
  BY <1>1, OwnedFinite, FS_AddElement
<1>4. ASSUME NEW q \in Players, q # p
      PROVE  Owned(m, q) = Owned(b, q)
  BY <1>4 DEF Owned, Boards, Players
<1>5. QED BY <1>2, <1>3, <1>4

(* The words of TicTacToeGame mean what they mean here.                    *)
LEMMA GameWords ==
  /\ Game!Cells = Cells /\ Game!Players = Players /\ Game!EmptyBoard = EmptyBoard
  /\ \A b, p : Game!OwnsLine(b, p) <=> OwnsLine(b, p)
  /\ \A b : Game!Decided(b) <=> Decided(b)
<1>1. Game!Idx = Idx /\ Game!Cells = Cells /\ Game!Players = Players
      /\ Game!EmptyBoard = EmptyBoard
  BY DEF Game!Idx, Idx, Game!Cells, Cells, Game!Players, Players, Game!EmptyBoard, EmptyBoard
<1>2. Game!Lines = Lines
  BY <1>1 DEF Game!Lines, Lines
<1>3. \A b, p : Game!OwnsLine(b, p) <=> OwnsLine(b, p)
  BY <1>2 DEF Game!OwnsLine, OwnsLine
<1>4. \A b : Game!Decided(b) <=> Decided(b)
  BY <1>1, <1>3 DEF Game!Decided, Decided, Game!Full, Full
<1>5. QED BY <1>1, <1>3, <1>4

LEMMA GameMarks ==
  ASSUME NEW p \in Players
  PROVE  Game!Marks(p) = Cardinality(Owned(board, p)) /\ Game!Marks(p) \in Nat
<1>1. Game!Marks(p) = Cardinality(Owned(board, p))
  BY GameWords DEF Game!Marks, Owned, Game!Cardinality, Cardinality
<1>2. QED BY <1>1, OwnedFinite

(* A move marks an empty cell of an undecided board for the player to      *)
(* move, and then it is the other player's turn.                           *)
LEMMA MoveAlternates ==
  ASSUME TypeOK, MovesAlternate, Asking, NEW d \in Cells, board[d] = 0,
         board' = [board EXCEPT ![d] = turn], turn' = turn, Judging', ~Asking'
  PROVE  MovesAlternate'
<1>1. PICK b \in Boards, m \in Boards, p \in Players : b = board /\ m = board' /\ p = turn
  <2>1. board \in Boards /\ turn \in Players
    BY DEF TypeOK
  <2>2. board' \in Boards
    BY <2>1 DEF Boards
  <2>3. QED BY <2>1, <2>2
<1>2. p \in {1, 2} /\ 1 \in Players /\ 2 \in Players
  BY DEF Players
<1>3. /\ Cardinality(Owned(m, p)) = Cardinality(Owned(b, p)) + 1
      /\ \A q \in Players : q # p => Owned(m, q) = Owned(b, q)
  <2>1. b[d] = 0 /\ \A c \in Cells : m[c] = IF c = d THEN p ELSE b[c]
    BY <1>1 DEF Boards
  <2>2. QED BY <2>1, MarkCounts
<1>4. /\ Game!Marks(1) = Cardinality(Owned(b, 1)) /\ Game!Marks(1) \in Nat
      /\ Game!Marks(2) = Cardinality(Owned(b, 2)) /\ Game!Marks(2) \in Nat
  BY <1>1, <1>2, GameMarks
<1>5. /\ (Game!Marks(1))' = Cardinality(Owned(m, 1))
      /\ (Game!Marks(2))' = Cardinality(Owned(m, 2))
  BY <1>1, GameWords DEF Game!Marks, Owned, Game!Cardinality, Cardinality
<1>6. CASE p = 1
  <2>1. Game!Marks(1) = Game!Marks(2)
    BY <1>1, <1>6 DEF MovesAlternate, Game!ToMove
  <2>2. Cardinality(Owned(m, 1)) = Cardinality(Owned(b, 1)) + 1 /\ Owned(m, 2) = Owned(b, 2)
    BY <1>2, <1>3, <1>6
  <2>3. (Game!Marks(1))' = Game!Marks(1) + 1 /\ (Game!Marks(2))' = Game!Marks(2)
    BY <1>4, <1>5, <2>2
  <2>4. (Game!ToMove)' = 2
    BY <1>4, <2>1, <2>3 DEF Game!ToMove
  <2>5. QED BY <1>1, <1>6, <2>1, <2>3, <2>4 DEF MovesAlternate, Other
<1>7. CASE p = 2
  <2>1. Game!Marks(1) = Game!Marks(2) + 1
    BY <1>1, <1>4, <1>7 DEF MovesAlternate, Game!ToMove
  <2>2. Cardinality(Owned(m, 2)) = Cardinality(Owned(b, 2)) + 1 /\ Owned(m, 1) = Owned(b, 1)
    BY <1>2, <1>3, <1>7
  <2>3. (Game!Marks(1))' = Game!Marks(1) /\ (Game!Marks(2))' = Game!Marks(2) + 1
    BY <1>4, <1>5, <2>2
  <2>4. (Game!ToMove)' = 1
    BY <2>1, <2>3 DEF Game!ToMove
  <2>5. QED BY <1>1, <1>7, <2>1, <2>3, <2>4 DEF MovesAlternate, Other
<1>8. QED BY <1>2, <1>6, <1>7

LEMMA BoardKeepsTurn ==
  ASSUME MovesAlternate, UNCHANGED <<board, turn>>, Asking' => Asking, Judging' => Judging
  PROVE  MovesAlternate'
<1>1. (Game!Marks(1))' = Game!Marks(1) /\ (Game!Marks(2))' = Game!Marks(2)
  BY DEF Game!Marks
<1>2. (Game!ToMove)' = Game!ToMove
  BY <1>1 DEF Game!ToMove
<1>3. QED BY <1>1, <1>2 DEF MovesAlternate

LEMMA GameServer ==
  ASSUME SafetyInv, StatusIsFinal, GameInv, ServerStep
  PROVE  GameInv' /\ (Game!Next \/ UNCHANGED <<board, status>>)
<1>0. TypeOK /\ MoveStages /\ ChoiceIsFree /\ NobodyStopped /\ MovesAlternate /\ Undecided
  BY DEF SafetyInv, GameInv
<1>1. turn \in Players /\ board \in Boards /\ cpc[turn] # "crashed"
  BY <1>0 DEF TypeOK, NobodyStopped
<1>2. NobodyStopped'
  <2>1. cpc' = cpc
    BY DEF ServerStep, Accept, NotifyReady1, NotifyReady2, NotifyTurn, RecvHeader, RecvHeaderFails,
           RecvPayload, RecvPayloadFails, NotifyState1, NotifyState2, CheckBoard, NotifyResult1,
           NotifyResult2, Notify, clientVars
  <2>2. QED BY <1>0, <2>1 DEF NobodyStopped
<1>3. CASE RecvPayload
  <2>1. /\ spc = "payload" /\ c2s[turn] # <<>> /\ Place(Head(c2s[turn]).cell)
        /\ turn' = turn /\ status' = status
    BY <1>3 DEF RecvPayload
  <2>2. PICK d \in Cells : d = Head(c2s[turn]).cell /\ c2s[turn] = <<MovePayload(d)>>
    BY <1>0, <2>1, PayloadWaiting
  <2>3. InFlight(turn, d)
    BY <2>2 DEF InFlight
  <2>4. board[d] = 0
    BY <1>0, <1>1, <2>3 DEF ChoiceIsFree
  <2>5. board' = [board EXCEPT ![d] = turn] /\ spc' = "state1"
    BY <2>1, <2>2 DEF Place
  <2>6. Asking /\ ~Asking' /\ Judging'
    BY <2>1, <2>5 DEF Asking, Judging
  <2>7. MovesAlternate'
    BY <1>0, <2>1, <2>4, <2>5, <2>6, MoveAlternates
  <2>8. Game!Mark
    <3>1. ~Game!Decided(board) /\ turn = Game!ToMove
      BY <1>0, <2>6, GameWords DEF Undecided, MovesAlternate
    <3>2. d \in Game!Cells
      BY GameWords
    <3>3. QED BY <2>1, <2>4, <2>5, <3>1, <3>2 DEF Game!Mark
  <2>9. QED BY <1>2, <2>6, <2>7, <2>8 DEF GameInv, Undecided, Game!Next
<1>4. CASE RecvPayloadFails \/ RecvHeaderFails
  BY <1>1, <1>4 DEF RecvPayloadFails, RecvHeaderFails
<1>5. CASE CheckBoard
  <2>1. /\ spc = "check" /\ status' = check(board) /\ board' = board
        /\ \/ status' = -1 /\ spc' = "turn" /\ turn' = Other(turn)
           \/ status' # -1 /\ spc' = "result1" /\ turn' = turn
    BY <1>5 DEF CheckBoard
  <2>2. status = -1
    BY <2>1 DEF StatusIsFinal, Stopped
  <2>3. Judging /\ ~Judging'
    BY <2>1 DEF Judging
  <2>4. (Game!Marks(1))' = Game!Marks(1) /\ (Game!Marks(2))' = Game!Marks(2)
        /\ (Game!ToMove)' = Game!ToMove
    BY <2>1 DEF Game!Marks, Game!ToMove
  <2>5. Game!ToMove \in Players
    BY DEF Game!ToMove, Players
  <2>6. turn = Other(Game!ToMove)
    BY <1>0, <2>3 DEF MovesAlternate
  <2>7. CASE status' = -1
    <3>1. turn' = Game!ToMove /\ ~Decided(board)
      BY <1>1, <2>1, <2>5, <2>6, <2>7, CheckDecides DEF Other, Players
    <3>2. MovesAlternate' /\ Undecided'
      BY <1>0, <2>1, <2>3, <2>4, <3>1 DEF MovesAlternate, Undecided
    <3>3. QED BY <1>2, <2>1, <2>2, <2>7, <3>2 DEF GameInv
  <2>8. CASE status' # -1
    <3>1. ~Asking'
      BY <2>1, <2>8 DEF Asking
    <3>2. MovesAlternate' /\ Undecided'
      BY <1>0, <2>3, <2>4, <3>1 DEF MovesAlternate, Undecided
    <3>3. Game!Conclude
      <4>1. Game!Decided(board)
        BY <1>1, <2>1, <2>8, CheckDecides, GameWords
      <4>2. status' \in IF \E p \in Game!Players : Game!OwnsLine(board, p) THEN Game!Players ELSE {0}
        BY <1>1, <2>1, <2>8, CheckDecides, GameWords
      <4>3. QED BY <2>1, <2>2, <4>1, <4>2 DEF Game!Conclude
    <3>4. QED BY <1>2, <3>2, <3>3 DEF GameInv, Game!Next
  <2>9. QED BY <2>7, <2>8
<1>6. CASE \/ Accept \/ NotifyReady1 \/ NotifyReady2 \/ NotifyTurn \/ RecvHeader
           \/ NotifyState1 \/ NotifyState2 \/ NotifyResult1 \/ NotifyResult2
  <2>1. UNCHANGED <<board, turn, status>>
    BY <1>6 DEF Accept, NotifyReady1, NotifyReady2, NotifyTurn, RecvHeader,
         NotifyState1, NotifyState2, NotifyResult1, NotifyResult2, Notify
  <2>2. (Asking' => Asking) /\ (Judging' => Judging)
    BY <1>6 DEF Accept, NotifyReady1, NotifyReady2, NotifyTurn, RecvHeader,
         NotifyState1, NotifyState2, NotifyResult1, NotifyResult2, Notify, Asking, Judging
  <2>3. MovesAlternate' /\ Undecided'
    BY <1>0, <2>1, <2>2, BoardKeepsTurn DEF Undecided
  <2>4. QED BY <1>2, <2>1, <2>3 DEF GameInv
<1>7. QED BY <1>3, <1>4, <1>5, <1>6 DEF ServerStep

LEMMA GameStep ==
  ASSUME MayCrash = {}, SafetyInv, StatusIsFinal, GameInv, [Next]_vars
  PROVE  GameInv' /\ (Game!Next \/ UNCHANGED <<board, status>>)
<1>1. CASE ServerStep
  BY <1>1, GameServer
<1>2. CASE UNCHANGED vars \/ \E p \in Players : ClientStep(p)
  <2>1. UNCHANGED serverVars /\ NobodyStopped'
    <3>1. NobodyStopped /\ TypeOK
      BY DEF GameInv, SafetyInv
    <3>2. CASE UNCHANGED vars
      BY <3>1, <3>2 DEF vars, clientVars, NobodyStopped
    <3>3. CASE \E p \in Players : ClientStep(p)
      BY <3>1, <3>3 DEF NobodyStopped, TypeOK, ClientStep, Connect, ReceiveReady, ReceiveTurn,
           ReceiveState, ReceiveResult, Receives, Choose, SendPayload, ReceiveEnd
    <3>4. QED BY <1>2, <3>2, <3>3
  <2>2. UNCHANGED <<spc, board, turn, status>>
    BY <2>1 DEF serverVars
  <2>3. MovesAlternate' /\ Undecided'
    BY <2>2, BoardKeepsTurn DEF GameInv, Undecided, Asking, Judging
  <2>4. QED BY <2>1, <2>2, <2>3 DEF GameInv
<1>3. ~\E p \in Players : Crash(p)
  BY DEF Crash
<1>4. QED BY <1>1, <1>2, <1>3 DEF Next, Terminated

LEMMA GameInit == Init => GameInv /\ Game!Init
<1> SUFFICES ASSUME Init PROVE GameInv /\ Game!Init
  OBVIOUS
<1>1. board = EmptyBoard /\ status = -1 /\ spc = "accept" /\ turn = 1
      /\ \A p \in Players : cpc[p] = "start"
  BY DEF Init
<1>2. Game!Init
  BY <1>1, GameWords DEF Game!Init
<1>3. \A p \in Players : Game!Marks(p) = 0
  <2> TAKE p \in Players
  <2>1. Owned(board, p) = {}
    BY <1>1 DEF Owned, EmptyBoard, Players
  <2>2. QED BY <2>1, GameMarks, FS_EmptySet
<1>4. MovesAlternate
  <2>1. Game!Marks(1) = 0 /\ Game!Marks(2) = 0
    BY <1>3 DEF Players
  <2>2. QED BY <1>1, <2>1 DEF MovesAlternate, Game!ToMove, Judging
<1>5. ~Decided(board)
  <2>1. \A c \in Cells : board[c] = 0
    BY <1>1 DEF EmptyBoard
  <2>2. board \in Boards
    BY <1>1 DEF EmptyBoard, Boards
  <2>3. Hits(board) = {} /\ ~UniformDiagonal(board) /\ ~Full(board)
    BY <2>1, SizeFacts DEF Hits, UniformRow, UniformColumn, UniformDiagonal, Full, Cells
  <2>4. QED BY <2>2, <2>3, LineIsSeen DEF Decided
<1>6. QED BY <1>1, <1>2, <1>4, <1>5 DEF GameInv, NobodyStopped, Undecided

(* When nobody can be stopped, the server's board and status go through a  *)
(* game of tic-tac-toe on a board of any odd size: server.c:60-123 is a    *)
(* refinement of TicTacToeGame.                                            *)
THEOREM PlaysGameHolds ==
  ASSUME MayCrash = {}
  PROVE  Spec => PlaysGame
<1>1. Init => GameInv /\ Game!Init
  BY GameInit
<1>2. SafetyInv /\ VerdictInv /\ GameInv /\ [Next]_vars
        => GameInv' /\ [Game!Next]_<<board, status>>
  BY GameStep DEF VerdictInv
<1>3. QED BY <1>1, <1>2, SafetyInvariant, VerdictInvariant, PTL DEF Spec, PlaysGame, Game!Spec
=============================================================================
