------------------------- MODULE ForkHandlersProofs -------------------------
(***************************************************************************)
(* Theorems about ForkHandlers, for any number of clients and questions,   *)
(* any limits on children and any clients that leave: the types, no more   *)
(* children than the system allows, and Told.                              *)
(***************************************************************************)
EXTENDS ForkHandlers, TLAPS, FiniteSetTheorems, SequenceTheorems

Own(c) == Connect(c) \/ Leave(c) \/ Client(c) \/ Child(c)

(* A step of one client or of its child leaves what the others have as it  *)
(* is, adds to their notes at most, and changes a file they use only       *)
(* together with their notes (Share, http.c:117-131).                      *)
LEMMA OthersUntouched ==
  ASSUME ToldInv, NEW c \in Clients, NEW d \in Clients, c # d, Own(c)
  PROVE  /\ cli'[d] = cli[d] /\ todo'[d] = todo[d] /\ got'[d] = got[d]
         /\ up'[d] = up[d] /\ down'[d] = down[d]
         /\ at'[d] = at[d] /\ kind'[d] = kind[d] /\ num'[d] = num[d] /\ off'[d] = off[d]
         /\ kid'[d] = kid[d] /\ (d \in backlog' <=> d \in backlog)
         /\ note[d] \subseteq note'[d]
         /\ UNCHANGED <<prog, parent, current, limit>>
         /\ \A k \in {"POST", "PUT"} : file'[k] = file[k] \/ (d \in Sharers(k) => "shared" \in note'[d])
<1> USE DEF Set, Add, talk, work, procs
<1>1. ToldInv /\ TypeOK /\ StreamsOK /\ ProcTypeOK
  BY DEF ToldInv, TypeOK
<1>2. CASE Connect(c)
  BY <1>1, <1>2 DEF Connect, Enqueue, TypeOK, StreamsOK, ProcTypeOK
<1>3. CASE Leave(c)
  BY <1>1, <1>3 DEF Leave, TypeOK, StreamsOK, ProcTypeOK
<1>4. CASE SendMore(c)
  BY <1>1, <1>4 DEF SendMore, TypeOK, StreamsOK, ProcTypeOK
<1>5. CASE Await(c)
  BY <1>1, <1>5 DEF Await, TypeOK, StreamsOK, ProcTypeOK
<1>6. CASE ReadQuiz(c)
  BY <1>1, <1>6 DEF ReadQuiz, TypeOK, StreamsOK, ProcTypeOK
<1>7. CASE AnswerQuiz(c)
  BY <1>1, <1>7 DEF AnswerQuiz, TypeOK, StreamsOK, ProcTypeOK
<1>8. CASE ReadRequest(c)
  BY <1>1, <1>8 DEF ReadRequest, TypeOK, StreamsOK, ProcTypeOK
<1>9. CASE ReadHeader(c)
  BY <1>1, <1>9 DEF ReadHeader, TypeOK, StreamsOK, ProcTypeOK
<1>10. CASE OpenFile(c)
  <2>1. /\ UNCHANGED <<prog, parent, current, limit, kid, backlog, cli, todo, got, up, down, kind, off>>
        /\ file' = [file EXCEPT ![kind[c]] = <<>>]
        /\ \E more : Share(c, kind[c], more)
        /\ \E len : num' = [num EXCEPT ![c] = len]
        /\ \E place : at' = [at EXCEPT ![c] = place]
    BY <1>10 DEF OpenFile
  <2>2. note[d] \subseteq note'[d]
        /\ \A k : k = kind[c] /\ d \in Sharers(k) => "shared" \in note'[d]
    BY <2>1 DEF Share, Sharers
  <2>3. \A k \in {"POST", "PUT"} : file'[k] = file[k] \/ k = kind[c]
    BY <1>1, <2>1 DEF StreamsOK
  <2>4. num'[d] = num[d] /\ at'[d] = at[d]
    BY <1>1, <2>1 DEF TypeOK
  <2>5. \A k \in {"POST", "PUT"} : file'[k] = file[k] \/ (d \in Sharers(k) => "shared" \in note'[d])
    BY <2>2, <2>3
  <2>6. note[d] \subseteq note'[d] /\ num'[d] = num[d] /\ at'[d] = at[d]
    BY <2>2, <2>4
  <2>7. QED BY <2>1, <2>5, <2>6
<1>11. CASE ReadBody(c)
  <2>1. /\ UNCHANGED <<prog, parent, current, limit, kid, backlog, cli, todo, got, down, kind>>
        /\ up'[d] = up[d] /\ off'[d] = off[d] /\ num'[d] = num[d] /\ at'[d] = at[d]
    BY <1>1, <1>11 DEF ReadBody, TypeOK, StreamsOK
  <2>2. \/ UNCHANGED <<file, note>>
        \/ /\ \E f : file' = [file EXCEPT ![kind[c]] = f]
           /\ \E more : Share(c, kind[c], more)
    BY <1>11 DEF ReadBody
  <2>3. note[d] \subseteq note'[d]
        /\ \A k : k = kind[c] /\ d \in Sharers(k) => "shared" \in note'[d] \/ UNCHANGED file
    BY <2>2 DEF Share, Sharers
  <2>4. \A k \in {"POST", "PUT"} : file'[k] = file[k] \/ k = kind[c]
    BY <1>1, <2>2 DEF StreamsOK
  <2>5. \A k \in {"POST", "PUT"} : file'[k] = file[k] \/ (d \in Sharers(k) => "shared" \in note'[d])
    BY <2>3, <2>4
  <2>6. QED BY <2>1, <2>3, <2>5
<1>12. CASE AnswerHttp(c)
  BY <1>1, <1>12 DEF AnswerHttp, TypeOK, StreamsOK, ProcTypeOK
<1>13. CASE SendFile(c)
  BY <1>1, <1>13 DEF SendFile, TypeOK, StreamsOK, ProcTypeOK
<1>14. CASE Register(c)
  BY <1>1, <1>14 DEF Register, TypeOK, StreamsOK, ProcTypeOK
<1>15. CASE Introduce(c)
  BY <1>1, <1>15 DEF Introduce, TypeOK, StreamsOK, ProcTypeOK
<1>16. CASE AskQuestion(c)
  BY <1>1, <1>16 DEF AskQuestion, TypeOK, StreamsOK, ProcTypeOK
<1>17. CASE ReadAnswer(c)
  BY <1>1, <1>17 DEF ReadAnswer, TypeOK, StreamsOK, ProcTypeOK
<1>18. CASE ExitChild(c)
  BY <1>1, <1>18 DEF ExitChild, Exit, TypeOK, StreamsOK, ProcTypeOK
<1>19. QED
  BY <1>2, <1>3, <1>4, <1>5, <1>6, <1>7, <1>8, <1>9, <1>10, <1>11, <1>12, <1>13, <1>14,
     <1>15, <1>16, <1>17, <1>18 DEF Own, Client, Child
----------------------------------------------------------------------------
(* The parent.                                                             *)

(* A fork() within the limit adds one child; no other step adds any.       *)
LEMMA ChildrenBounded ==
  ASSUME ProcTypeOK, IsFiniteSet(Clients),
         \/ kid' = [kid EXCEPT ![current] = "run"] /\ Cardinality(Uncollected) < limit
         \/ Uncollected' \subseteq Uncollected,
         limit' = limit
  PROVE  Cardinality(Uncollected') <= limit'
<1>1. /\ IsFiniteSet(Uncollected) /\ Cardinality(Uncollected) <= limit
      /\ limit \in Nat /\ Cardinality(Uncollected) \in Nat
  <2>1. Uncollected \subseteq Clients
    BY DEF Uncollected
  <2>2. IsFiniteSet(Uncollected)
    BY <2>1, FS_Subset
  <2>3. QED BY <2>2, FS_CardinalityType, LimitsAssumption DEF ProcTypeOK, Uncollected
<1>2. CASE kid' = [kid EXCEPT ![current] = "run"] /\ Cardinality(Uncollected) < limit
  <2>1. Uncollected' \subseteq Uncollected \cup {current}
    BY <1>2 DEF Uncollected, ProcTypeOK
  <2>2. /\ IsFiniteSet(Uncollected \cup {current})
        /\ Cardinality(Uncollected \cup {current}) <= Cardinality(Uncollected) + 1
    BY <1>1, FS_AddElement
  <2>3. /\ IsFiniteSet(Uncollected') /\ Cardinality(Uncollected') <= Cardinality(Uncollected \cup {current})
    BY <2>1, <2>2, FS_Subset
  <2>4. Cardinality(Uncollected') \in Nat /\ Cardinality(Uncollected \cup {current}) \in Nat
    BY <2>2, <2>3, FS_CardinalityType
  <2>5. QED BY <1>1, <1>2, <2>2, <2>3, <2>4
<1>3. CASE Uncollected' \subseteq Uncollected
  <2>1. Cardinality(Uncollected') <= Cardinality(Uncollected) /\ IsFiniteSet(Uncollected')
    BY <1>1, <1>3, FS_Subset
  <2>2. Cardinality(Uncollected') \in Nat
    BY <2>1, FS_CardinalityType
  <2>3. QED BY <1>1, <2>1, <2>2
<1>4. QED BY <1>2, <1>3

LEMMA StepProc ==
  ASSUME ToldInv, Parent \/ \E c \in Clients : Enqueue(c) \/ (Exit(c) /\ kid[c] = "run")
  PROVE  ProcTypeOK'
<1>1. ProcTypeOK /\ IsFiniteSet(Clients) /\ "none" \notin Clients
  BY ClientsAssumption DEF ToldInv, TypeOK
<1>2. /\ prog' \in {"http", "registration", "quiz"} /\ limit' \in Limits /\ limit' = limit
      /\ parent' \in {"accept", "fork", "close"}
      /\ current' \in Clients \cup {"none"} /\ (parent' = "accept" <=> current' = "none")
      /\ backlog' \subseteq Clients
      /\ kid' \in [Clients -> {"none", "run", "zombie", "gone"}]
      /\ {sigchld', handling'} \subseteq BOOLEAN
  <2>1. CASE Accept
    BY <1>1, <2>1 DEF Accept, ProcTypeOK
  <2>2. CASE Fork
    BY <1>1, <2>2 DEF Fork, ProcTypeOK
  <2>3. CASE CloseCopy
    BY <1>1, <2>3 DEF CloseCopy, ProcTypeOK
  <2>4. CASE Handler
    BY <1>1, <2>4 DEF Handler, ProcTypeOK
  <2>5. CASE Collect
    BY <1>1, <2>5 DEF Collect, ProcTypeOK
  <2>6. CASE \E c \in Clients : Enqueue(c)
    BY <1>1, <2>6 DEF Enqueue, ProcTypeOK
  <2>7. CASE \E c \in Clients : Exit(c)
    BY <1>1, <2>7 DEF Exit, ProcTypeOK
  <2>8. QED BY <2>1, <2>2, <2>3, <2>4, <2>5, <2>6, <2>7 DEF Parent
<1>3. \/ kid' = [kid EXCEPT ![current] = "run"] /\ Cardinality(Uncollected) < limit
      \/ Uncollected' \subseteq Uncollected
  <2>1. CASE kid' = kid
    BY <2>1 DEF Uncollected
  <2>2. CASE Fork
    BY <2>1, <2>2 DEF Fork
  <2>3. CASE Collect
    BY <1>1, <2>1, <2>3 DEF Collect, Zombies, Uncollected, ProcTypeOK
  <2>4. CASE \E c \in Clients : Exit(c) /\ kid[c] = "run"
    BY <1>1, <2>4 DEF Exit, Uncollected, ProcTypeOK
  <2>5. QED
    BY <2>1, <2>2, <2>3, <2>4 DEF Parent, Accept, CloseCopy, Handler, Enqueue
<1>4. Cardinality(Uncollected') <= limit'
  BY <1>1, <1>2, <1>3, ChildrenBounded
<1>5. QED BY <1>2, <1>4 DEF ProcTypeOK, Uncollected
----------------------------------------------------------------------------
(* Reading.                                                                *)

LEMMA RequestFacts ==
  \A r \in Requests \cup {<<>>} :
    \/ r = <<>> /\ Len(r) = 0
    \/ Len(r) = 2 /\ r[1] \in {"GET", "DELETE", "other"} /\ r[2] = "end"
    \/ Len(r) = 5 /\ r[1] \in {"PUT", "POST"} /\ r[2] = "Len" /\ r[3] = "end"
    \/ Len(r) = 3 /\ r[1] = "POST" /\ r[2] = "end"
BY DEF Requests

LEMMA SuffixFacts ==
  ASSUME NEW S, NEW s \in Seq(S), NEW n \in 1 .. Len(s)
  PROVE  /\ SubSeq(s, n + 1, Len(s)) \in Seq(S)
         /\ Len(SubSeq(s, n + 1, Len(s))) = Len(s) - n
         /\ \A i \in 1 .. Len(s) - n : SubSeq(s, n + 1, Len(s))[i] = s[n + i]
<1>1. Len(s) \in Nat /\ n + 1 \in Int /\ \A i \in n + 1 .. Len(s) : s[i] \in S
  BY LenProperties, ElementOfSeq
<1>2. /\ SubSeq(s, n + 1, Len(s)) \in Seq(S)
      /\ Len(SubSeq(s, n + 1, Len(s))) = IF n + 1 <= Len(s) THEN Len(s) - (n + 1) + 1 ELSE 0
      /\ \A i \in 1 .. Len(s) - (n + 1) + 1 : SubSeq(s, n + 1, Len(s))[i] = s[n + 1 + i - 1]
  BY <1>1, SubSeqProperties
<1>3. QED BY <1>1, <1>2

LEMMA TailFacts ==
  ASSUME NEW S, NEW s \in Seq(S), s # <<>>
  PROVE  /\ Len(s) \in Nat \ {0} /\ Head(s) = s[1] /\ Head(s) \in S
         /\ Tail(s) \in Seq(S) /\ Len(Tail(s)) = Len(s) - 1
         /\ \A i \in 1 .. Len(s) - 1 : Tail(s)[i] = s[1 + i]
BY HeadTailProperties, EmptySeq, LenProperties

(* What the child reads in one go is the next of its client's request.     *)
LEMMA ReadOn ==
  ASSUME StreamsOK, NEW c \in Clients, NEW r, Len(r) \in Nat, NEW k \in Nat, HasRead(c, r, k),
         NEW n \in 1 .. Len(up[c]), NEW next, next = k + n, cli' = cli, todo' = todo,
         \/ up' = [up EXCEPT ![c] = SubSeq(up[c], n + 1, Len(up[c]))]
         \/ n = 1 /\ up' = [up EXCEPT ![c] = Tail(up[c])]
  PROVE  HasRead(c, r, next)'
<1>1. /\ up[c] \in Seq(Pieces) /\ Len(up[c]) \in Nat /\ todo[c] \in Seq(Pieces) /\ Len(todo[c]) \in Nat
      /\ up[c] # <<>>
  BY LenProperties, EmptySeq DEF StreamsOK
<1>2. /\ up'[c] \in Seq(Pieces) /\ Len(up'[c]) = Len(up[c]) - n
      /\ \A i \in 1 .. Len(up[c]) - n : up'[c][i] = up[c][n + i]
  <2>1. CASE up' = [up EXCEPT ![c] = SubSeq(up[c], n + 1, Len(up[c]))]
    BY <1>1, <2>1, SuffixFacts DEF StreamsOK
  <2>2. CASE n = 1 /\ up' = [up EXCEPT ![c] = Tail(up[c])]
    BY <1>1, <2>2, TailFacts DEF StreamsOK
  <2>3. QED BY <2>1, <2>2
<1>3. k + n + Len(up'[c]) = k + Len(up[c])
  <2>1. PICK a \in Nat : a = Len(up[c])
    BY <1>1
  <2>2. n \in 1 .. a /\ Len(up'[c]) = a - n
    BY <1>2, <2>1
  <2>3. k + n + (a - n) = k + a
    BY <2>2
  <2>4. QED BY <2>1, <2>2, <2>3
<1>4. \A i \in 1 .. Len(up'[c]) : up'[c][i] = r[k + n + i]
  <2>1. TAKE i \in 1 .. Len(up'[c])
  <2>2. n + i \in 1 .. Len(up[c])
    BY <1>1, <1>2, <2>1
  <2>3. up[c][n + i] = r[k + (n + i)]
    BY <2>2 DEF HasRead
  <2>4. QED BY <1>1, <1>2, <2>1, <2>3
<1>5. cli[c] = "await" =>
        /\ k + n + Len(up'[c]) + Len(todo[c]) = Len(r)
        /\ \A i \in 1 .. Len(todo[c]) : todo[c][i] = r[k + n + Len(up'[c]) + i]
  <2>1. k + n + Len(up'[c]) = k + Len(up[c])
    BY <1>3
  <2>2. SUFFICES ASSUME cli[c] = "await"
                 PROVE  /\ k + n + Len(up'[c]) + Len(todo[c]) = Len(r)
                        /\ \A i \in 1 .. Len(todo[c]) : todo[c][i] = r[k + n + Len(up'[c]) + i]
    OBVIOUS
  <2>3. /\ k + Len(up[c]) + Len(todo[c]) = Len(r)
        /\ \A i \in 1 .. Len(todo[c]) : todo[c][i] = r[k + Len(up[c]) + i]
    BY <2>2 DEF HasRead
  <2>4. QED BY <2>1, <2>3
<1>6. k + n + Len(up'[c]) <= Len(r)
  <2>1. k + Len(up[c]) <= Len(r)
    BY DEF HasRead
  <2>2. QED BY <1>3, <2>1
<1>7. QED BY <1>2, <1>4, <1>5, <1>6 DEF HasRead

LEMMA ReadOne ==
  ASSUME StreamsOK, NEW c \in Clients, NEW r, Len(r) \in Nat, NEW k \in Nat, HasRead(c, r, k),
         NEW next, next = k + 1, up[c] # <<>>, cli' = cli, todo' = todo,
         up' = [up EXCEPT ![c] = Tail(up[c])]
  PROVE  HasRead(c, r, next)'
<1>1. PICK n \in 1 .. Len(up[c]) : n = 1
  BY TailFacts DEF StreamsOK
<1>2. next = k + n
  BY <1>1
<1>3. n = 1 /\ up' = [up EXCEPT ![c] = Tail(up[c])]
  BY <1>1
<1>4. QED BY <1>2, <1>3, ReadOn
----------------------------------------------------------------------------
(* The types.                                                              *)

LEMMA FirstPiece ==
  ASSUME ToldInv, NEW c \in Clients, prog = "http", at[c] = "start", up[c] # <<>>
  PROVE  \E r \in Requests :
           HasRead(c, r, 0) /\ Head(up[c]) = r[1] /\ num[c] = Unset /\ off[c] = 0
<1>1. PICK r \in Requests \cup {<<>>} : \E k \in 0..5 : Progress(c, r, k)
  BY DEF ToldInv, OneRequest, RequestKnown
<1>2. HasRead(c, r, 0) /\ num[c] = Unset /\ off[c] = 0
  BY <1>1 DEF Progress
<1>3. Len(up[c]) \in Nat \ {0} /\ Head(up[c]) = up[c][1]
  BY TailFacts DEF ToldInv, StreamsOK
<1>4. up[c][1] = r[1] /\ r # <<>>
  BY <1>2, <1>3, RequestFacts DEF HasRead
<1>5. QED BY <1>2, <1>3, <1>4

LEMMA BodyFits ==
  ASSUME ToldInv, NEW c \in Clients, Runs(c, "body"), NEW n \in 1 .. Len(up[c])
  PROVE  off[c] + n \in 0 .. 2 /\ prog = "http" /\ kind[c] \in {"POST", "PUT"}
<1>1. prog = "http"
  BY DEF ToldInv, OwnProgram, InProgram, Runs
<1>2. PICK r \in Requests \cup {<<>>}, k \in 0..5 : Progress(c, r, k)
  BY <1>1 DEF ToldInv, OneRequest, RequestKnown, Runs
<1>3. HasRead(c, r, k) /\ InBody(c, r, k) /\ r # <<>>
  BY <1>2 DEF Progress, Runs
<1>4. k + Len(up[c]) <= Len(r) /\ Len(up[c]) \in Nat /\ off[c] \in 0 .. 2
  BY <1>3, LenProperties DEF HasRead, ToldInv, StreamsOK, TypeOK
<1>5. \/ Len(r) = 5 /\ k = 3 + off[c]
      \/ Len(r) = 3 /\ k = 2 + off[c]
  <2>1. CASE HasLength(r)
    BY <1>3, <2>1, RequestFacts DEF InBody, Stores, HasLength
  <2>2. CASE ~HasLength(r)
    BY <1>3, <2>2, RequestFacts DEF InBody, Stores, HasLength
  <2>3. QED BY <2>1, <2>2
<1>6. kind[c] \in {"POST", "PUT"}
  BY <1>3 DEF InBody, Stores
<1>7. off[c] + n \in 0 .. 2
  <2>1. PICK a \in Nat : a = Len(up[c])
    BY <1>4
  <2>2. PICK o \in 0 .. 2 : o = off[c]
    BY <1>4
  <2>3. \/ 3 + o + a <= 5
        \/ 2 + o + a <= 3
    BY <1>4, <1>5, <2>1, <2>2
  <2>4. n \in 1 .. a
    BY <2>1
  <2>5. QED BY <2>2, <2>3, <2>4
<1>8. QED BY <1>1, <1>6, <1>7

(* The types of what the clients and the children have, apart from procs.  *)
Types ==
  /\ cli \in [Clients -> {"new", "await", "intro", "next", "answer", "verdict", "done", "left"}]
  /\ got \in [Clients -> {"nothing", "ok", "err", "short"}]
  /\ at \in [Clients -> Places]
  /\ kind \in [Clients -> {"none", "GET", "DELETE", "POST", "PUT", "other"}]
  /\ num \in [Clients -> Nat]
  /\ prog = "quiz" => \A c \in Clients : num[c] \in 0..Questions \cup {Unset}
  /\ off \in [Clients -> 0..2]
  /\ note \in [Clients -> SUBSET Notes]
  /\ StreamsOK

LEMMA TypesSuffice == (TypeOK /\ StreamsOK) <=> (ProcTypeOK /\ Types)
<1>1. StreamsOK => \A k \in {"POST", "PUT"} : Range(file[k]) \subseteq Clients \cup {"hole"}
  <2>1. ASSUME NEW s \in Seq(Clients \cup {"hole"}) PROVE Range(s) \subseteq Clients \cup {"hole"}
    BY <2>1, LenProperties DEF Range
  <2>2. QED BY <2>1 DEF StreamsOK
<1>2. QED BY <1>1 DEF TypeOK, Types

LEMMA TypesSufficeNext == ProcTypeOK' /\ Types' => TypeOK' /\ StreamsOK'
BY TypesSuffice, PTL

LEMMA ClientTypes ==
  ASSUME ToldInv, NEW c \in Clients, Connect(c) \/ Leave(c) \/ Client(c)
  PROVE  Types'
<1> USE DEF Set, Add, talk, work, procs
<1>1. Types /\ OwnProgram /\ ProcTypeOK
  BY TypesSuffice DEF ToldInv, TypeOK
<1>2. CASE Connect(c)
  <2>1. Requests \cup Lines \subseteq Seq(Pieces)
    BY DEF Requests, Lines, Pieces
  <2>2. todo' = todo \/ \E s \in Requests \cup Lines : todo' = [todo EXCEPT ![c] = s]
    BY <1>2 DEF Connect
  <2>3. todo' \in [Clients -> Seq(Pieces)]
    BY <1>1, <2>1, <2>2 DEF Types, StreamsOK
  <2>4. QED BY <1>1, <1>2, <2>3 DEF Connect, Enqueue, Types, StreamsOK
<1>3. CASE Leave(c)
  BY <1>1, <1>3 DEF Leave, Types, StreamsOK
<1>4. CASE SendMore(c)
  BY <1>1, <1>4 DEF SendMore, Types, StreamsOK
<1>5. CASE Await(c)
  <2>1. down[c] # <<>> => Last(down[c]) \in {"ok", "err", "short"}
    BY <1>1, <1>5 DEF Await, ToldInv, OwnProgram, InProgram, AnswersKnown, AnswerKnown, Last
  <2>2. QED BY <1>1, <1>5, <2>1 DEF Await, Types, StreamsOK, Notes
<1>6. CASE ReadQuiz(c)
  <2>1. PICK s \in Seq(Replies) : s = down[c]
    BY <1>1 DEF Types, StreamsOK
  <2>2. \A n \in 1 .. Len(s) : SubSeq(s, n + 1, Len(s)) \in Seq(Replies)
    BY SuffixFacts
  <2>3. /\ \/ down' = down
           \/ \E n \in 1 .. Len(s) : down' = [down EXCEPT ![c] = SubSeq(s, n + 1, Len(s))]
        /\ \E v \in {"answer", "next", "done"} : cli' = [cli EXCEPT ![c] = v]
        /\ \/ note' = note
           \/ \E m \in {{}, {"merged"}} : note' = [note EXCEPT ![c] = @ \cup m]
        /\ UNCHANGED <<prog, todo, got, up, at, kind, num, off, file>>
    BY <1>6, <2>1 DEF ReadQuiz
  <2>4. down \in [Clients -> Seq(Replies)] /\ note \in [Clients -> SUBSET Notes]
    BY <1>1 DEF Types, StreamsOK
  <2>5. down' \in [Clients -> Seq(Replies)]
    BY <2>2, <2>3, <2>4
  <2>6. note' \in [Clients -> SUBSET Notes]
    BY <2>3, <2>4 DEF Notes
  <2>7. cli' \in [Clients -> {"new", "await", "intro", "next", "answer", "verdict", "done", "left"}]
    BY <1>1, <2>3 DEF Types
  <2>8. UNCHANGED <<prog, todo, got, up, at, kind, num, off, file>>
    BY <2>3
  <2>9. QED BY <1>1, <2>5, <2>6, <2>7, <2>8 DEF Types, StreamsOK
<1>7. CASE AnswerQuiz(c)
  <2>1. PICK s \in Seq(Pieces) : s = up[c]
    BY <1>1 DEF Types, StreamsOK
  <2>2. Append(s, "a") \in Seq(Pieces)
    BY AppendProperties DEF Pieces
  <2>3. QED BY <1>1, <1>7, <2>1, <2>2 DEF AnswerQuiz, Types, StreamsOK
<1>8. QED BY <1>2, <1>3, <1>4, <1>5, <1>6, <1>7 DEF Client

LEMMA WrittenFacts ==
  ASSUME NEW c \in Clients, NEW f \in Seq(Clients \cup {"hole"}), NEW from \in Nat, NEW n \in Nat
  PROVE  /\ Written(f, from, n, c) \in Seq(Clients \cup {"hole"})
         /\ \A next : f = Filled(from, c) /\ next = from + n => Written(f, from, n, c) = Filled(next, c)
<1>1. Len(f) \in Nat /\ DOMAIN f = 1 .. Len(f) /\ \A i \in 1 .. Len(f) : f[i] \in Clients \cup {"hole"}
  BY LenProperties, ElementOfSeq
<1>2. PICK m \in Nat : m = IF from + n > Len(f) THEN from + n ELSE Len(f)
  <2>1. PICK l \in Nat : l = Len(f)
    BY <1>1
  <2>2. from + n \in Nat
    OBVIOUS
  <2>3. QED BY <2>1, <2>2
<1>3. Written(f, from, n, c) \in [1 .. m -> Clients \cup {"hole"}]
  <2>1. Written(f, from, n, c) =
          [i \in 1 .. m |-> IF i \in from + 1 .. from + n THEN c ELSE IF i <= Len(f) THEN f[i] ELSE "hole"]
    BY <1>2 DEF Written
  <2>2. \A i \in 1 .. m : i <= Len(f) => f[i] \in Clients \cup {"hole"}
    BY <1>1
  <2>3. QED BY <2>1, <2>2
<1>4. Written(f, from, n, c) \in Seq(Clients \cup {"hole"})
  BY <1>3
<1>5. ASSUME NEW next, next = from + n, f = Filled(from, c) PROVE Written(f, from, n, c) = Filled(next, c)
  <2>1. Len(f) = from
    <3>1. DOMAIN f = 1 .. from
      BY <1>5 DEF Filled
    <3>2. PICK l \in Nat : l = Len(f)
      BY <1>1
    <3>3. 1 .. l = 1 .. from
      BY <1>1, <3>1, <3>2
    <3>4. (l > from => l \in 1 .. l) /\ (from > l => from \in 1 .. from)
      BY <3>2
    <3>5. QED BY <3>2, <3>3, <3>4
  <2>2. m = from + n
    BY <1>2, <2>1
  <2>3. \A i \in 1 .. from + n : i \in from + 1 .. from + n \/ (i <= Len(f) /\ f[i] = c)
    BY <1>5, <2>1 DEF Filled
  <2>4. QED BY <1>2, <1>5, <2>2, <2>3 DEF Written, Filled
<1>6. QED BY <1>4, <1>5

(* What a child wrote alone stays one run of its own pieces.               *)
LEMMA WrittenOn ==
  ASSUME NEW c \in Clients, NEW f \in Seq(Clients \cup {"hole"}), NEW from \in Nat, NEW n \in Nat,
         NEW next, next = from + n, f = Filled(from, c)
  PROVE  Written(f, from, n, c) = Filled(next, c)
BY WrittenFacts

LEMMA ShareTypes ==
  ASSUME note \in [Clients -> SUBSET Notes], NEW c, NEW k, NEW more \in SUBSET Notes, Share(c, k, more)
  PROVE  note' \in [Clients -> SUBSET Notes]
BY DEF Share, Notes

Steps(f, g, c, S) == g = f \/ \E v \in S : g = [f EXCEPT ![c] = v]

NumSteps(c) ==
  Steps(num, num', c, Nat) /\ (prog = "quiz" => Steps(num, num', c, 0..Questions \cup {Unset}))

LEMMA StepsType ==
  ASSUME NEW D, NEW S, NEW f \in [D -> S], NEW g, NEW c, Steps(f, g, c, S)
  PROVE  g \in [D -> S]
BY DEF Steps

LEMMA NumStepsFacts ==
  ASSUME NEW c, NEW v \in Nat, num' = [num EXCEPT ![c] = v],
         prog = "quiz" => v \in 0..Questions \cup {Unset}
  PROVE  NumSteps(c)
BY DEF Steps, NumSteps

LEMMA TypesStep ==
  ASSUME Types, NEW c \in Clients, UNCHANGED <<prog, cli, got>>,
         Steps(todo, todo', c, Seq(Pieces)), Steps(up, up', c, Seq(Pieces)),
         Steps(down, down', c, Seq(Replies)),
         Steps(at, at', c, Places),
         Steps(kind, kind', c, {"none", "GET", "DELETE", "POST", "PUT", "other"}),
         NumSteps(c),
         Steps(off, off', c, 0..2),
         file' \in [{"POST", "PUT"} -> Seq(Clients \cup {"hole"})],
         note' \in [Clients -> SUBSET Notes]
  PROVE  Types'
<1>1. todo' \in [Clients -> Seq(Pieces)] /\ up' \in [Clients -> Seq(Pieces)] /\ down' \in [Clients -> Seq(Replies)]
  <2>1. todo \in [Clients -> Seq(Pieces)] /\ up \in [Clients -> Seq(Pieces)] /\ down \in [Clients -> Seq(Replies)]
    BY DEF Types, StreamsOK
  <2>2. QED BY <2>1, StepsType
<1>2. at' \in [Clients -> Places]
  BY StepsType DEF Types
<1>3. kind' \in [Clients -> {"none", "GET", "DELETE", "POST", "PUT", "other"}]
  BY StepsType DEF Types
<1>4. num' \in [Clients -> Nat] /\ (prog = "quiz" => \A d \in Clients : num'[d] \in 0..Questions \cup {Unset})
  <2>1. num \in [Clients -> Nat] /\ (prog = "quiz" => \A d \in Clients : num[d] \in 0..Questions \cup {Unset})
    BY DEF Types
  <2>2. num' \in [Clients -> Nat]
    BY <2>1, StepsType DEF NumSteps
  <2>3. ASSUME prog = "quiz" PROVE \A d \in Clients : num'[d] \in 0..Questions \cup {Unset}
    BY <2>1, <2>3 DEF Steps, NumSteps
  <2>4. QED BY <2>2, <2>3
<1>5. off' \in [Clients -> 0..2]
  BY StepsType DEF Types
<1>6. QED BY <1>1, <1>2, <1>3, <1>4, <1>5 DEF Types, StreamsOK

LEMMA ChildTypes ==
  ASSUME ToldInv, NEW c \in Clients, Child(c)
  PROVE  Types'
<1> USE DEF Set, Add, talk, work, procs, Runs
<1>1. Types /\ OwnProgram /\ ProcTypeOK
  BY TypesSuffice DEF ToldInv, TypeOK
<1>2. PICK s \in Seq(Pieces) : s = up[c]
  BY <1>1 DEF Types, StreamsOK
<1>3. /\ s # <<>> => Tail(s) \in Seq(Pieces)
      /\ \A n \in 1 .. Len(s) : SubSeq(s, n + 1, Len(s)) \in Seq(Pieces)
      /\ <<>> \in Seq(Pieces) /\ <<>> \in Seq(Replies)
  BY TailFacts, SuffixFacts
<1>4. PICK t \in Seq(Replies) : t = down[c]
  BY <1>1 DEF Types, StreamsOK
<1>5. /\ \A x \in Replies : Append(t, x) \in Seq(Replies) /\ <<x>> \in Seq(Replies)
      /\ {"ok", "err", "short", "intro", "question", "verdict"} \subseteq Replies
  BY AppendProperties DEF Replies
<1>6. /\ file \in [{"POST", "PUT"} -> Seq(Clients \cup {"hole"})]
      /\ note \in [Clients -> SUBSET Notes] /\ num[c] \in Nat /\ off[c] \in 0 .. 2
  BY <1>1 DEF Types, StreamsOK
<1>7. CASE ReadRequest(c)
  <2>1. up[c] # <<>> => Head(up[c]) \in {"GET", "DELETE", "POST", "PUT", "other"}
    BY <1>7, FirstPiece, RequestFacts DEF ReadRequest, Requests
  <2>2. Steps(at, at', c, Places) /\ Steps(up, up', c, Seq(Pieces))
    BY <1>2, <1>3, <1>7 DEF ReadRequest, Steps, Places
  <2>3. Steps(kind, kind', c, {"none", "GET", "DELETE", "POST", "PUT", "other"})
    BY <1>7, <2>1 DEF ReadRequest, Steps
  <2>4. note' \in [Clients -> SUBSET Notes]
    BY <1>6, <1>7 DEF ReadRequest, Notes
  <2>5. UNCHANGED <<prog, cli, got, todo, down, num, off, file>>
    BY <1>7 DEF ReadRequest
  <2>6. QED BY <1>1, <1>6, <2>2, <2>3, <2>4, <2>5, TypesStep DEF Steps, NumSteps
<1>8. CASE ReadHeader(c)
  <2>1. Steps(at, at', c, Places) /\ Steps(up, up', c, Seq(Pieces))
    BY <1>2, <1>3, <1>8 DEF ReadHeader, Steps, Places
  <2>2. NumSteps(c)
    BY <1>8 DEF ReadHeader, Steps, NumSteps
  <2>3. UNCHANGED <<prog, cli, got, todo, down, kind, off, file, note>>
    BY <1>8 DEF ReadHeader
  <2>4. QED BY <1>1, <1>6, <2>1, <2>2, <2>3, TypesStep DEF Steps, NumSteps
<1>9. CASE OpenFile(c)
  <2>1. note' \in [Clients -> SUBSET Notes]
    <3>1. \E more \in SUBSET Notes : Share(c, kind[c], more)
      BY <1>9 DEF OpenFile, Notes
    <3>2. QED BY <1>6, <3>1, ShareTypes
  <2>2. prog # "quiz"
    BY <1>1, <1>9 DEF OwnProgram, InProgram, OpenFile
  <2>3. Steps(at, at', c, Places) /\ NumSteps(c)
    <3>1. PICK len \in 0 .. 2 \cup {num[c]} :
            /\ num' = [num EXCEPT ![c] = len]
            /\ at' = [at EXCEPT ![c] = IF len = 0 THEN "answer" ELSE "body"]
      BY <1>9 DEF OpenFile
    <3>2. len \in Nat
      BY <1>6
    <3>3. NumSteps(c)
      BY <2>2, <3>1, <3>2, NumStepsFacts
    <3>4. QED BY <3>1, <3>3 DEF Steps, Places
  <2>4. file' \in [{"POST", "PUT"} -> Seq(Clients \cup {"hole"})]
    <3>1. file' = [file EXCEPT ![kind[c]] = <<>>] /\ <<>> \in Seq(Clients \cup {"hole"})
      BY <1>9 DEF OpenFile
    <3>2. QED BY <1>6, <3>1
  <2>5. UNCHANGED <<prog, cli, got, todo, up, down, kind, off>>
    BY <1>9 DEF OpenFile
  <2>6. QED BY <1>1, <2>1, <2>3, <2>4, <2>5, TypesStep DEF Steps, NumSteps
<1>10. CASE ReadBody(c)
  <2>1. UNCHANGED <<prog, cli, got, todo, down, kind>>
    BY <1>10 DEF ReadBody
  <2>2. CASE Ended(c) /\ at' = Set(at, c, "answer") /\ UNCHANGED <<up, file, off, num, note>>
    <3>1. Steps(at, at', c, Places)
      BY <2>2 DEF Steps, Places
    <3>2. QED BY <1>1, <1>6, <2>1, <2>2, <3>1, TypesStep DEF Steps, NumSteps
  <2>3. ASSUME NEW n \in 1 .. Len(up[c]),
               /\ up' = Set(up, c, SubSeq(up[c], n + 1, Len(up[c])))
               /\ file' = Set(file, kind[c], Written(file[kind[c]], off[c], n, c))
               /\ off' = Set(off, c, off[c] + n)
               /\ num' = Set(num, c, Remaining(n, num[c]))
               /\ at' = (IF num'[c] = 0 THEN Set(at, c, "answer") ELSE at)
               /\ Share(c, kind[c], {})
        PROVE  Types'
    <3>1. off[c] + n \in 0 .. 2 /\ kind[c] \in {"POST", "PUT"} /\ prog # "quiz"
      BY <1>10, BodyFits DEF ReadBody
    <3>2. note' \in [Clients -> SUBSET Notes]
      BY <1>6, <2>3, ShareTypes
    <3>3. n \in Nat
      BY <1>2, LenProperties
    <3>4. PICK f \in Seq(Clients \cup {"hole"}) : f = file[kind[c]]
      BY <1>6, <3>1
    <3>5. Written(f, off[c], n, c) \in Seq(Clients \cup {"hole"})
      <4>1. PICK o \in Nat : o = off[c]
        BY <1>6
      <4>2. QED BY <3>3, <4>1, WrittenFacts
    <3>6. file' \in [{"POST", "PUT"} -> Seq(Clients \cup {"hole"})]
      BY <1>6, <2>3, <3>4, <3>5
    <3>7. Remaining(n, num[c]) \in Nat
      BY <1>6, <3>3 DEF Remaining
    <3>8. /\ Steps(off, off', c, 0..2) /\ Steps(at, at', c, Places)
          /\ NumSteps(c)
      BY <2>3, <3>1, <3>7 DEF Steps, NumSteps, Places
    <3>9. Steps(up, up', c, Seq(Pieces))
      BY <1>2, <1>3, <2>3 DEF Steps
    <3>10. QED BY <1>1, <2>1, <3>2, <3>6, <3>8, <3>9, TypesStep DEF Steps, NumSteps
  <2>4. QED BY <1>10, <2>2, <2>3 DEF ReadBody
<1>11. CASE AnswerHttp(c)
  <2>1. Len(file["POST"]) \in Nat
    BY <1>6, LenProperties
  <2>2. /\ Steps(at, at', c, Places) /\ Steps(down, down', c, Seq(Replies))
        /\ NumSteps(c)
    BY <1>5, <1>11, <2>1 DEF AnswerHttp, Steps, NumSteps, Places
  <2>3. note' \in [Clients -> SUBSET Notes]
    BY <1>6, <1>11 DEF AnswerHttp, Notes
  <2>4. UNCHANGED <<prog, cli, got, todo, up, kind, off, file>>
    BY <1>11 DEF AnswerHttp
  <2>5. QED BY <1>1, <1>6, <2>2, <2>3, <2>4, TypesStep DEF Steps, NumSteps
<1>12. CASE SendFile(c)
  <2>1. Steps(at, at', c, Places) /\ Steps(down, down', c, Seq(Replies))
    BY <1>5, <1>12 DEF SendFile, Steps, Places
  <2>2. UNCHANGED <<prog, cli, got, todo, up, kind, num, off, file, note>>
    BY <1>12 DEF SendFile
  <2>3. QED BY <1>1, <1>6, <2>1, <2>2, TypesStep DEF Steps, NumSteps
<1>13. CASE Register(c)
  <2>1. Steps(at, at', c, Places) /\ Steps(down, down', c, Seq(Replies)) /\ Steps(up, up', c, Seq(Pieces))
    BY <1>2, <1>3, <1>5, <1>13 DEF Register, Steps, Places
  <2>2. UNCHANGED <<prog, cli, got, todo, kind, num, off, file, note>>
    BY <1>13 DEF Register
  <2>3. QED BY <1>1, <1>6, <2>1, <2>2, TypesStep DEF Steps, NumSteps
<1>14. CASE Introduce(c)
  <2>1. NumSteps(c)
    <3>1. 0 \in Nat /\ 0 \in 0 .. Questions
      BY HandlerAssumption
    <3>2. QED BY <1>14, <3>1, NumStepsFacts DEF Introduce
  <2>2. UNCHANGED <<prog, cli, got, todo, up, kind, off, file, note>>
    BY <1>14 DEF Introduce
  <2>3. Steps(at, at', c, Places) /\ Steps(down, down', c, Seq(Replies))
    BY <1>4, <1>5, <1>14 DEF Introduce, Steps, Places
  <2>4. QED BY <1>1, <1>6, <2>1, <2>2, <2>3, TypesStep DEF Steps, NumSteps
<1>15. CASE AskQuestion(c)
  <2>1. num[c] \in 0 .. Questions
    BY <1>1, <1>15 DEF AskQuestion, OwnProgram, InProgram
  <2>2. num[c] # Questions => num[c] + 1 \in 0 .. Questions
    BY <2>1, HandlerAssumption
  <2>3. NumSteps(c)
    <3>1. num[c] # Questions => num[c] + 1 \in Nat
      BY <1>6
    <3>2. num' = num \/ (num[c] # Questions /\ num' = [num EXCEPT ![c] = num[c] + 1])
      BY <1>15 DEF AskQuestion, AllAsked
    <3>3. QED BY <2>2, <3>1, <3>2, NumStepsFacts DEF NumSteps, Steps
  <2>4. UNCHANGED <<prog, cli, got, todo, up, kind, off, file, note>>
    BY <1>15 DEF AskQuestion
  <2>5. Steps(at, at', c, Places) /\ Steps(down, down', c, Seq(Replies))
    BY <1>4, <1>5, <1>15 DEF AskQuestion, Steps, Places
  <2>6. QED BY <1>1, <1>6, <2>3, <2>4, <2>5, TypesStep DEF Steps, NumSteps
<1>16. CASE ReadAnswer(c)
  <2>1. Steps(at, at', c, Places) /\ Steps(down, down', c, Seq(Replies)) /\ Steps(up, up', c, Seq(Pieces))
    BY <1>3, <1>4, <1>5, <1>16 DEF ReadAnswer, Steps, Places
  <2>2. UNCHANGED <<prog, cli, got, todo, kind, num, off, file, note>>
    BY <1>16 DEF ReadAnswer
  <2>3. QED BY <1>1, <1>6, <2>1, <2>2, TypesStep DEF Steps, NumSteps
<1>17. CASE ExitChild(c)
  <2>1. Steps(todo, todo', c, Seq(Pieces)) /\ Steps(down, down', c, Seq(Replies)) /\ Steps(up, up', c, Seq(Pieces))
    BY <1>3, <1>17 DEF ExitChild, Steps
  <2>2. /\ Steps(kind, kind', c, {"none", "GET", "DELETE", "POST", "PUT", "other"})
        /\ Steps(off, off', c, 0..2)
    BY <1>17 DEF ExitChild, Steps
  <2>3. note' \in [Clients -> SUBSET Notes]
    BY <1>6, <1>17 DEF ExitChild, Notes
  <2>4. UNCHANGED <<prog, cli, got, at, file>>
    BY <1>17 DEF ExitChild, Exit
  <2>5. NumSteps(c)
    <3>1. num' = [num EXCEPT ![c] = Unset]
      BY <1>17 DEF ExitChild
    <3>2. Unset \in Nat
      BY DEF Unset
    <3>3. QED BY <3>1, <3>2, NumStepsFacts
  <2>6. QED BY <1>1, <1>6, <2>1, <2>2, <2>3, <2>4, <2>5, TypesStep DEF Steps, NumSteps
<1>18. QED
  BY <1>7, <1>8, <1>9, <1>10, <1>11, <1>12, <1>13, <1>14, <1>15, <1>16, <1>17 DEF Child

LEMMA StepType ==
  ASSUME ToldInv, Server \/ \E c \in Clients : Own(c)
  PROVE  TypeOK' /\ StreamsOK'
<1>1. CASE Server
  <2>1. ProcTypeOK'
    BY <1>1, StepProc DEF Server
  <2>2. prog' = prog
    BY <1>1 DEF Server, Parent, Accept, Fork, CloseCopy, Handler, Collect
  <2>3. UNCHANGED <<cli, todo, got, up, down, at, kind, num, off, file, note>>
    BY <1>1 DEF Server, talk, work
  <2>4. Types
    BY TypesSuffice DEF ToldInv
  <2>5. Types'
    BY <2>2, <2>3, <2>4 DEF Types, StreamsOK
  <2>6. QED BY <2>1, <2>5, TypesSufficeNext
<1>2. ASSUME NEW c \in Clients, Own(c) PROVE TypeOK' /\ StreamsOK'
  <2>1. ProcTypeOK'
    <3>1. ProcTypeOK
      BY DEF ToldInv, TypeOK
    <3>2. CASE Connect(c)
      BY <3>2, StepProc DEF Connect
    <3>3. CASE ExitChild(c)
      BY <3>3, StepProc DEF ExitChild, Runs
    <3>4. CASE UNCHANGED procs
      BY <3>1, <3>4 DEF procs, ProcTypeOK
    <3>5. QED
      BY <1>2, <3>2, <3>3, <3>4 DEF Own, Client, Child, Leave, SendMore, Await, ReadQuiz, AnswerQuiz,
         ReadRequest, ReadHeader, OpenFile, ReadBody, AnswerHttp, SendFile, Register, Introduce,
         AskQuestion, ReadAnswer, procs
  <2>2. Types'
    BY <1>2, ClientTypes, ChildTypes DEF Own
  <2>3. QED BY <2>1, <2>2, TypesSufficeNext
<1>3. QED BY <1>1, <1>2
----------------------------------------------------------------------------
(* Connections and their children.                                         *)

LEMMA StepOneChild ==
  ASSUME ToldInv, Server \/ \E c \in Clients : Own(c)
  PROVE  OneChildEach'
<1>1. OneChildEach /\ ProcTypeOK /\ "none" \notin Clients
  BY ClientsAssumption DEF ToldInv, TypeOK
<1>2. CASE Server
  <2>1. UNCHANGED <<cli, up, todo, at, num, off>>
    BY <1>2 DEF Server, talk, work
  <2>2. CASE Accept
    BY <1>1, <2>1, <2>2 DEF Accept, OneChildEach, OneChild, ProcTypeOK
  <2>3. CASE Fork
    BY <1>1, <2>1, <2>3 DEF Fork, OneChildEach, OneChild, ProcTypeOK
  <2>4. CASE CloseCopy
    BY <1>1, <2>1, <2>4 DEF CloseCopy, OneChildEach, OneChild, ProcTypeOK
  <2>5. CASE Handler
    BY <1>1, <2>1, <2>5 DEF Handler, OneChildEach, OneChild, ProcTypeOK
  <2>6. CASE Collect
    <3>1. \A c \in Clients : kid'[c] = kid[c] \/ (kid[c] = "zombie" /\ kid'[c] = "gone")
      BY <1>1, <2>6 DEF Collect, Zombies, ProcTypeOK
    <3>2. UNCHANGED <<parent, current, backlog>>
      BY <2>6 DEF Collect
    <3>3. QED BY <1>1, <2>1, <3>1, <3>2 DEF OneChildEach, OneChild
  <2>7. QED BY <1>2, <2>2, <2>3, <2>4, <2>5, <2>6 DEF Server, Parent
<1>3. ASSUME NEW c \in Clients, Own(c) PROVE OneChildEach'
  <2>1. UNCHANGED <<parent, current>>
    BY <1>3 DEF Own, Client, Child, Connect, Enqueue, Leave, SendMore, Await, ReadQuiz, AnswerQuiz,
       ReadRequest, ReadHeader, OpenFile, ReadBody, AnswerHttp, SendFile, Register, Introduce,
       AskQuestion, ReadAnswer, ExitChild, Exit, procs
  <2>2. OneChild(c)'
    <3>1. OneChild(c) /\ up[c] \in Seq(Pieces)
      BY <1>1 DEF OneChildEach, ToldInv, StreamsOK
    <3> USE <1>1, <3>1 DEF Set, Add, talk, work, procs, Runs, ToldInv, TypeOK, StreamsOK, ProcTypeOK
    <3>2. CASE Connect(c)
      BY <2>1, <3>2 DEF Connect, Enqueue, OneChild
    <3>3. CASE Leave(c)
      BY <2>1, <3>3 DEF Leave, OneChild
    <3>4. CASE SendMore(c)
      BY <2>1, <3>4 DEF SendMore, OneChild
    <3>5. CASE Await(c)
      BY <2>1, <3>5 DEF Await, OneChild
    <3>6. CASE ReadQuiz(c)
      BY <2>1, <3>6 DEF ReadQuiz, OneChild
    <3>7. CASE AnswerQuiz(c)
      BY <2>1, <3>7 DEF AnswerQuiz, OneChild
    <3>8. CASE ExitChild(c)
      BY <2>1, <3>8 DEF ExitChild, Exit, OneChild
    <3>9. CASE Child(c) /\ ~ExitChild(c)
      <4>1. kid[c] = "run" /\ kid' = kid /\ backlog' = backlog /\ cli' = cli
        BY <3>9 DEF Child, ReadRequest, ReadHeader, OpenFile, ReadBody, AnswerHttp, SendFile, Register,
           Introduce, AskQuestion, ReadAnswer
      <4>2. QED BY <2>1, <4>1 DEF OneChild
    <3>10. QED
      BY <1>3, <3>2, <3>3, <3>4, <3>5, <3>6, <3>7, <3>8, <3>9 DEF Own, Client
  <2>3. ASSUME NEW d \in Clients, d # c PROVE OneChild(d)'
    BY <1>1, <1>3, <2>1, <2>3, OthersUntouched DEF OneChildEach, OneChild
  <2>4. QED BY <2>2, <2>3 DEF OneChildEach
<1>4. QED BY <1>2, <1>3

LEMMA StepProgram ==
  ASSUME ToldInv, Server \/ \E c \in Clients : Own(c)
  PROVE  OwnProgram'
<1>1. OwnProgram /\ TypeOK
  BY DEF ToldInv
<1>2. CASE Server
  <2>1. UNCHANGED <<prog, cli, got, at, num>>
    BY <1>2 DEF Server, talk, work, Parent, Accept, Fork, CloseCopy, Handler, Collect
  <2>2. QED BY <1>1, <2>1 DEF OwnProgram, InProgram
<1>3. ASSUME NEW c \in Clients, Own(c) PROVE OwnProgram'
  <2>1. prog' = prog
    BY <1>3 DEF Own, Client, Child, Connect, Enqueue, Leave, SendMore, Await, ReadQuiz, AnswerQuiz,
       ReadRequest, ReadHeader, OpenFile, ReadBody, AnswerHttp, SendFile, Register, Introduce,
       AskQuestion, ReadAnswer, ExitChild, Exit, procs
  <2>2. InProgram(c)'
    <3>1. InProgram(c) /\ prog \in {"http", "registration", "quiz"}
      BY <1>1 DEF OwnProgram, TypeOK, ProcTypeOK
    <3> USE <1>1, <3>1 DEF Set, Add, talk, work, procs, Runs, TypeOK
    <3>2. CASE Connect(c)
      BY <2>1, <3>2 DEF Connect, InProgram
    <3>3. CASE Leave(c)
      BY <2>1, <3>3 DEF Leave, InProgram
    <3>4. CASE SendMore(c)
      BY <2>1, <3>4 DEF SendMore, InProgram
    <3>5. CASE Await(c)
      BY <2>1, <3>5 DEF Await, InProgram
    <3>6. CASE ReadQuiz(c)
      BY <2>1, <3>6 DEF ReadQuiz, InProgram
    <3>7. CASE AnswerQuiz(c)
      BY <2>1, <3>7 DEF AnswerQuiz, InProgram
    <3>8. CASE ReadRequest(c)
      BY <2>1, <3>8 DEF ReadRequest, InProgram
    <3>9. CASE ReadHeader(c)
      BY <2>1, <3>9 DEF ReadHeader, InProgram
    <3>10. CASE OpenFile(c)
      <4>1. prog = "http" /\ cli' = cli /\ \E place \in {"answer", "body"} : at' = [at EXCEPT ![c] = place]
        BY <3>10 DEF OpenFile, InProgram
      <4>2. QED BY <2>1, <4>1 DEF InProgram
    <3>11. CASE ReadBody(c)
      <4>1. prog = "http" /\ cli' = cli /\ (at' = at \/ at' = [at EXCEPT ![c] = "answer"])
        BY <3>11 DEF ReadBody, InProgram
      <4>2. QED BY <2>1, <4>1 DEF InProgram
    <3>12. CASE AnswerHttp(c)
      BY <2>1, <3>12 DEF AnswerHttp, InProgram
    <3>13. CASE SendFile(c)
      BY <2>1, <3>13 DEF SendFile, InProgram
    <3>14. CASE Register(c)
      BY <2>1, <3>14 DEF Register, InProgram
    <3>15. CASE Introduce(c)
      BY <2>1, <3>15, HandlerAssumption DEF Introduce, InProgram
    <3>16. CASE AskQuestion(c)
      <4>1. prog = "quiz" /\ num[c] \in 0 .. Questions /\ cli' = cli /\ got' = got
        BY <3>16 DEF AskQuestion, InProgram
      <4>2. at'[c] \in {"exit", "wait"} /\ (at'[c] = "wait" => num'[c] \in 0 .. Questions)
        BY <3>16, <4>1, HandlerAssumption DEF AskQuestion, AllAsked
      <4>3. QED BY <2>1, <4>1, <4>2 DEF InProgram
    <3>17. CASE ReadAnswer(c)
      BY <2>1, <3>17 DEF ReadAnswer, InProgram
    <3>18. CASE ExitChild(c)
      BY <2>1, <3>18 DEF ExitChild, Exit, InProgram
    <3>19. QED
      BY <1>3, <3>2, <3>3, <3>4, <3>5, <3>6, <3>7, <3>8, <3>9, <3>10, <3>11, <3>12, <3>13, <3>14,
         <3>15, <3>16, <3>17, <3>18 DEF Own, Client, Child
  <2>3. ASSUME NEW d \in Clients, d # c PROVE InProgram(d)'
    BY <1>1, <1>3, <2>1, <2>3, OthersUntouched DEF OwnProgram, InProgram
  <2>4. QED BY <2>2, <2>3 DEF OwnProgram
<1>4. QED BY <1>2, <1>3
----------------------------------------------------------------------------
(* How far a child is with its request.                                    *)

(* What the client sends is the next of its request.                       *)
LEMMA SendOn ==
  ASSUME StreamsOK, NEW c \in Clients, NEW r, Len(r) \in Nat, NEW k \in Nat, HasRead(c, r, k),
         cli[c] = "await", todo[c] # <<>>, cli' = cli,
         up' = [up EXCEPT ![c] = Append(up[c], Head(todo[c]))],
         todo' = [todo EXCEPT ![c] = Tail(todo[c])]
  PROVE  HasRead(c, r, k)'
<1>1. PICK u \in Seq(Pieces) : u = up[c]
  BY DEF StreamsOK
<1>2. PICK t \in Seq(Pieces) : t = todo[c]
  BY DEF StreamsOK
<1>3. PICK a \in Nat : a = Len(u)
  BY LenProperties
<1>4. PICK b \in Nat \ {0} : b = Len(t)
  BY <1>2, EmptySeq
<1>5. /\ Len(Append(u, Head(t))) = a + 1
      /\ \A i \in 1 .. a : Append(u, Head(t))[i] = u[i]
      /\ Append(u, Head(t))[a + 1] = t[1]
  BY <1>2, <1>3, TailFacts, AppendProperties
<1>6. Len(Tail(t)) = b - 1 /\ \A i \in 1 .. b - 1 : Tail(t)[i] = t[1 + i]
  BY <1>2, <1>4, TailFacts
<1>7. up'[c] = Append(u, Head(t)) /\ todo'[c] = Tail(t) /\ cli'[c] = "await"
  BY <1>1, <1>2 DEF StreamsOK
<1>8. /\ k + a <= Len(r) /\ \A i \in 1 .. a : u[i] = r[k + i]
      /\ k + a + b = Len(r) /\ \A i \in 1 .. b : t[i] = r[k + a + i]
  BY <1>1, <1>2, <1>3, <1>4 DEF HasRead
<1>9. Len(up'[c]) = a + 1 /\ k + (a + 1) <= Len(r)
  BY <1>5, <1>7, <1>8
<1>10. \A i \in 1 .. a + 1 : up'[c][i] = r[k + i]
  <2>1. TAKE i \in 1 .. a + 1
  <2>2. CASE i = a + 1
    <3>1. 1 \in 1 .. b
      BY <1>4
    <3>2. t[1] = r[k + a + 1]
      BY <1>8, <3>1
    <3>3. k + a + 1 = k + i
      BY <2>2
    <3>4. QED BY <1>5, <1>7, <2>2, <3>2, <3>3
  <2>3. CASE i \in 1 .. a
    BY <1>5, <1>7, <1>8, <2>3
  <2>4. i = a + 1 \/ i \in 1 .. a
    BY <2>1
  <2>5. QED BY <2>2, <2>3, <2>4
<1>11. k + (a + 1) + (b - 1) = Len(r)
  BY <1>8
<1>12. \A i \in 1 .. b - 1 : todo'[c][i] = r[k + (a + 1) + i]
  <2>1. TAKE i \in 1 .. b - 1
  <2>2. 1 + i \in 1 .. b /\ k + a + (1 + i) = k + (a + 1) + i
    BY <2>1
  <2>3. t[1 + i] = r[k + a + (1 + i)]
    BY <1>8, <2>2
  <2>4. QED BY <1>6, <1>7, <2>1, <2>2, <2>3
<1>13. Len(todo'[c]) = b - 1
  BY <1>6, <1>7
<1>14. QED BY <1>9, <1>10, <1>11, <1>12, <1>13 DEF HasRead

(* The others' children: their requests are as far as they were.           *)
LEMMA OtherRequests ==
  ASSUME ToldInv, prog = "http", NEW c \in Clients, NEW d \in Clients, c # d, Own(c)
  PROVE  RequestKnown(d)'
<1>1. RequestKnown(d) /\ OneChild(d) /\ kid[d] \in {"none", "run", "zombie", "gone"}
  BY DEF ToldInv, OneRequest, OneChildEach, TypeOK, ProcTypeOK
<1>2. /\ cli'[d] = cli[d] /\ todo'[d] = todo[d] /\ up'[d] = up[d] /\ kid'[d] = kid[d]
      /\ at'[d] = at[d] /\ kind'[d] = kind[d] /\ num'[d] = num[d] /\ off'[d] = off[d]
      /\ note[d] \subseteq note'[d]
  BY OthersUntouched
<1>3. \A k \in {"POST", "PUT"} : file'[k] = file[k] \/ (d \in Sharers(k) => "shared" \in note'[d])
  BY OthersUntouched
<1>4. at[d] \in {"body", "answer", "send"} => kid[d] = "run"
  BY <1>1 DEF OneChild
<1>5. at[d] \in {"body", "answer"} /\ kind[d] \in {"POST", "PUT"} =>
        file'[kind[d]] = file[kind[d]] \/ "shared" \in note'[d]
  BY <1>3, <1>4 DEF Sharers
<1>6. at[d] = "send" => file'["POST"] = file["POST"] \/ "shared" \in note'[d]
  BY <1>3, <1>4 DEF Sharers, Runs
<1>7. ASSUME NEW r \in Requests \cup {<<>>}, NEW k \in 0..5, Progress(d, r, k)
      PROVE  Progress(d, r, k)'
  <2>1. HasRead(d, r, k)'
    BY <1>2, <1>7 DEF Progress, HasRead
  <2>2. at[d] = "headers" => InHeaders(d, r, k)'
    BY <1>2, <1>7 DEF Progress, InHeaders, Stores
  <2>3. at[d] = "open" => ToOpen(d, r, k)'
    BY <1>2, <1>7 DEF Progress, ToOpen, Stores
  <2>4. at[d] = "body" => InBody(d, r, k)'
    BY <1>2, <1>5, <1>7 DEF Progress, InBody, Stores, OwnFile
  <2>5. QED BY <1>2, <1>7, <2>1, <2>2, <2>3, <2>4 DEF Progress
<1>8. at[d] = "answer" => BodyStored(d)'
  BY <1>1, <1>2, <1>5 DEF RequestKnown, BodyStored
<1>9. QED BY <1>1, <1>2, <1>6, <1>7, <1>8 DEF RequestKnown

(* The client's own steps.                                                 *)
LEMMA ClientRequest ==
  ASSUME ToldInv, prog = "http", NEW c \in Clients, Connect(c) \/ Leave(c) \/ Client(c)
  PROVE  RequestKnown(c)'
<1>1. /\ RequestKnown(c) /\ OneChild(c) /\ cli[c] \in {"new", "await", "done", "left"}
      /\ StreamsOK /\ TypeOK
  BY DEF ToldInv, OneRequest, OneChildEach, OwnProgram, InProgram
<1>2. UNCHANGED <<at, kind, num, off, file>>
  BY DEF Connect, Leave, Client, SendMore, Await, ReadQuiz, AnswerQuiz, work
<1>3. note[c] \subseteq note'[c] /\ (cli'[c] = "await" => cli[c] \in {"new", "await"})
  BY <1>1 DEF Connect, Leave, Client, SendMore, Await, ReadQuiz, AnswerQuiz, Add, Set, TypeOK
<1>4. at[c] = "answer" => BodyStored(c)'
  <2>1. cli[c] = "new" => at[c] # "answer"
    BY <1>1 DEF OneChild
  <2>2. at[c] = "answer" => BodyStored(c)
    BY <1>1 DEF RequestKnown
  <2>3. QED BY <1>2, <1>3, <2>1, <2>2 DEF BodyStored
<1>5. ASSUME NEW r \in Requests \cup {<<>>}, NEW k \in 0..5, Progress(c, r, k), HasRead(c, r, k)'
      PROVE  Progress(c, r, k)'
  <2>1. at[c] = "body" => InBody(c, r, k)'
    BY <1>2, <1>3, <1>5 DEF Progress, InBody, Stores, OwnFile
  <2>2. at[c] = "headers" => InHeaders(c, r, k)'
    BY <1>2, <1>5 DEF Progress, InHeaders, Stores
  <2>3. at[c] = "open" => ToOpen(c, r, k)'
    BY <1>2, <1>5 DEF Progress, ToOpen, Stores
  <2>4. QED BY <1>2, <1>5, <2>1, <2>2, <2>3 DEF Progress
<1>6. \A r \in Requests \cup {<<>>} : Len(r) \in Nat
  BY RequestFacts
<1>7. at[c] \in {"start", "headers", "open", "body"} =>
        \E r \in Requests \cup {<<>>} : \E k \in 0..5 : Progress(c, r, k)'
  <2>1. SUFFICES ASSUME at[c] \in {"start", "headers", "open", "body"}
                 PROVE  \E r \in Requests \cup {<<>>} : \E k \in 0..5 : Progress(c, r, k)'
    OBVIOUS
  <2>2. PICK r \in Requests \cup {<<>>}, k \in 0..5 : Progress(c, r, k)
    BY <1>1, <2>1 DEF RequestKnown
  <2>3. HasRead(c, r, k) /\ k \in Nat /\ Len(r) \in Nat
    BY <1>6, <2>2 DEF Progress
  <2>4. CASE Connect(c)
    <3>1. /\ at[c] = "start" /\ num[c] = Unset /\ off[c] = 0 /\ up[c] = <<>> /\ todo[c] = <<>>
          /\ up' = up /\ cli[c] = "new"
      BY <1>1, <2>4 DEF OneChild, Connect
    <3>2. todo'[c] \in Requests \cup {<<>>}
      <4>1. todo' = todo \/ \E q \in Requests : todo' = [todo EXCEPT ![c] = q]
        <5>1. todo' \in {Set(todo, c, q) : q \in Requests}
          BY <2>4 DEF Connect
        <5>2. QED BY <5>1 DEF Set
      <4>2. QED BY <1>1, <3>1, <4>1 DEF StreamsOK
    <3>3. PICK q \in Requests \cup {<<>>} : q = todo'[c]
      BY <3>2
    <3>4. Len(q) \in Nat /\ Len(up'[c]) = 0
      <4>1. Len(<<>>) = 0
        OBVIOUS
      <4>2. up'[c] = <<>>
        BY <3>1
      <4>3. QED BY <1>6, <4>1, <4>2
    <3>5. HasRead(c, q, 0)'
      <4>1. PICK l \in Nat : l = Len(q)
        BY <3>4
      <4>2. 0 + 0 <= l /\ 0 + 0 + l = l
        OBVIOUS
      <4>3. \A i \in 1 .. l : todo'[c][i] = q[0 + 0 + i]
        BY <3>3
      <4>4. QED BY <3>3, <3>4, <4>1, <4>2, <4>3 DEF HasRead
    <3>6. Progress(c, q, 0)'
      BY <1>2, <3>1, <3>5 DEF Progress
    <3>7. QED BY <3>6
  <2>5. CASE SendMore(c)
    <3>1. HasRead(c, r, k)'
      BY <1>1, <2>3, <2>5, SendOn DEF SendMore, Set
    <3>2. QED BY <1>5, <2>2, <3>1
  <2>6. CASE Leave(c) \/ Await(c) \/ ReadQuiz(c) \/ AnswerQuiz(c)
    <3>1. up' = up /\ cli'[c] # "await"
      BY <1>1, <2>6 DEF Leave, Await, ReadQuiz, AnswerQuiz, Set, TypeOK
    <3>2. HasRead(c, r, k)'
      BY <2>3, <3>1 DEF HasRead
    <3>3. QED BY <1>5, <2>2, <3>2
  <2>7. QED BY <2>4, <2>5, <2>6 DEF Client
<1>8. QED
  <2>1. at[c] = "send" => num'[c] = Len(file'["POST"]) \/ "shared" \in note'[c]
    BY <1>1, <1>2, <1>3 DEF RequestKnown
  <2>2. QED BY <1>2, <1>4, <1>7, <2>1 DEF RequestKnown

(* The child's own steps (http.c:98-212).                                  *)
LEMMA ChildRequest ==
  ASSUME ToldInv, prog = "http", NEW c \in Clients, Child(c)
  PROVE  RequestKnown(c)'
<1> USE DEF Set, Runs
<1>1. RequestKnown(c) /\ OneChild(c) /\ StreamsOK /\ TypeOK /\ Types
  BY TypesSuffice DEF ToldInv, OneRequest, OneChildEach
<1>2. /\ at \in [Clients -> Places] /\ kind \in [Clients -> {"none", "GET", "DELETE", "POST", "PUT", "other"}]
      /\ num \in [Clients -> Nat] /\ off \in [Clients -> 0..2] /\ note \in [Clients -> SUBSET Notes]
      /\ file \in [{"POST", "PUT"} -> Seq(Clients \cup {"hole"})]
      /\ up \in [Clients -> Seq(Pieces)] /\ Len(up[c]) \in Nat
  BY <1>1, LenProperties DEF Types, StreamsOK
<1>3. \A r \in Requests \cup {<<>>} : Len(r) \in Nat
  BY RequestFacts
<1>4. up[c] # <<>> => 1 \in 1 .. Len(up[c]) /\ Head(up[c]) = up[c][1]
  BY <1>2, TailFacts
<1>5. CASE ReadRequest(c)
  <2>1. CASE at'[c] \in {"answer", "exit"}
    <3>1. at'[c] = "answer" => kind'[c] \in {"GET", "DELETE"}
      BY <1>2, <1>5 DEF ReadRequest, Ended
    <3>2. QED BY <2>1, <3>1 DEF RequestKnown, BodyStored
  <2>2. CASE at'[c] = "headers"
    <3>1. up[c] # <<>> /\ kind'[c] = Head(up[c]) /\ Head(up[c]) \notin {"GET", "DELETE", "other"}
          /\ up' = [up EXCEPT ![c] = Tail(up[c])] /\ at[c] = "start"
      BY <1>2, <1>5, <2>2 DEF ReadRequest
    <3>2. PICK r \in Requests : HasRead(c, r, 0) /\ Head(up[c]) = r[1] /\ num[c] = Unset /\ off[c] = 0
      BY <3>1, FirstPiece
    <3>3. UNCHANGED <<cli, todo, num, off>>
      BY <1>5 DEF ReadRequest
    <3>4. HasRead(c, r, 1)'
      <4>1. PICK k \in Nat : k = 0
        OBVIOUS
      <4>2. PICK next \in Nat : next = 1
        OBVIOUS
      <4>3. HasRead(c, r, k) /\ next = k + 1 /\ Len(r) \in Nat
        BY <1>3, <3>2, <4>1, <4>2
      <4>4. HasRead(c, r, next)'
        BY <1>1, <3>1, <3>3, <4>3, ReadOne
      <4>5. QED BY <4>2, <4>4
    <3>5. r[1] \in {"POST", "PUT"} /\ r # <<>>
      BY <3>1, <3>2, RequestFacts DEF Requests
    <3>6. InHeaders(c, r, 1)'
      BY <3>1, <3>2, <3>3, <3>5 DEF InHeaders, Stores
    <3>7. Progress(c, r, 1)'
      BY <2>2, <3>4, <3>5, <3>6 DEF Progress
    <3>8. QED BY <2>2, <3>7 DEF RequestKnown
  <2>3. at'[c] \in {"answer", "exit", "headers"}
    BY <1>2, <1>5 DEF ReadRequest
  <2>4. QED BY <2>1, <2>2, <2>3
<1>6. CASE ReadHeader(c)
  <2>1. CASE at'[c] = "spin"
    BY <2>1 DEF RequestKnown
  <2>2. CASE up[c] # <<>> /\ up' = [up EXCEPT ![c] = Tail(up[c])]
             /\ at' = (IF Head(up[c]) = "end" THEN [at EXCEPT ![c] = "open"] ELSE at)
             /\ num' = (IF Head(up[c]) = "Len" THEN [num EXCEPT ![c] = 2] ELSE num)
    <3>1. at[c] = "headers" /\ UNCHANGED <<cli, todo, kind, off>>
      BY <1>6 DEF ReadHeader
    <3>2. PICK r \in Requests \cup {<<>>}, k \in 0..5 : Progress(c, r, k)
      BY <1>1, <3>1 DEF RequestKnown
    <3>3. HasRead(c, r, k) /\ InHeaders(c, r, k) /\ r # <<>>
      BY <3>1, <3>2 DEF Progress
    <3>4. \A next : next = k + 1 => HasRead(c, r, next)'
      <4>1. TAKE next
      <4>2. k \in Nat /\ Len(r) \in Nat
        BY <1>3
      <4>3. QED BY <1>1, <2>2, <3>1, <3>3, <4>2, ReadOne
    <3>5. Head(up[c]) = r[k + 1]
      <4>1. \A i \in 1 .. Len(up[c]) : up[c][i] = r[k + i]
        BY <3>3 DEF HasRead
      <4>2. QED BY <1>4, <2>2, <4>1
    <3>6. Stores(c, r) /\ Stores(c, r)' /\ off'[c] = 0
      BY <3>1, <3>3 DEF InHeaders, Stores
    <3>7. CASE k = 1 /\ num[c] = Unset /\ HasLength(r)
      <4>1. at'[c] = "headers" /\ num'[c] = 2
        BY <1>2, <2>2, <3>1, <3>5, <3>7 DEF HasLength
      <4>2. InHeaders(c, r, 2)' /\ HasRead(c, r, 2)'
        BY <3>4, <3>6, <3>7, <4>1 DEF InHeaders, HasLength
      <4>3. Progress(c, r, 2)'
        BY <3>3, <4>1, <4>2 DEF Progress
      <4>4. QED BY <4>1, <4>3 DEF RequestKnown
    <3>8. CASE k = 1 /\ num[c] = Unset /\ ~HasLength(r)
      <4>1. r[2] = "end"
        BY <3>3, <3>6, <3>8, RequestFacts DEF HasLength, Stores
      <4>2. at'[c] = "open" /\ num'[c] = Unset
        BY <1>2, <2>2, <3>1, <3>5, <3>8, <4>1
      <4>3. ToOpen(c, r, 2)' /\ HasRead(c, r, 2)'
        BY <3>4, <3>6, <3>8, <4>2 DEF ToOpen, HasLength
      <4>4. Progress(c, r, 2)'
        BY <3>3, <4>2, <4>3 DEF Progress
      <4>5. QED BY <4>2, <4>4 DEF RequestKnown
    <3>9. CASE k = 2 /\ num[c] = 2 /\ HasLength(r)
      <4>1. r[3] = "end"
        BY <3>3, <3>6, <3>9, RequestFacts DEF HasLength, Stores
      <4>2. at'[c] = "open" /\ num'[c] = 2
        BY <1>2, <2>2, <3>1, <3>5, <3>9, <4>1
      <4>3. ToOpen(c, r, 3)' /\ HasRead(c, r, 3)'
        BY <3>4, <3>6, <3>9, <4>2 DEF ToOpen, HasLength
      <4>4. Progress(c, r, 3)'
        BY <3>3, <4>2, <4>3 DEF Progress
      <4>5. QED BY <4>2, <4>4 DEF RequestKnown
    <3>10. QED BY <3>3, <3>7, <3>8, <3>9 DEF InHeaders
  <2>3. QED BY <1>2, <1>6, <2>1, <2>2 DEF ReadHeader
<1>7. CASE OpenFile(c)
  <2>1. at[c] = "open" /\ UNCHANGED <<cli, todo, up, down, kind, off>>
    BY <1>7 DEF OpenFile, talk
  <2>2. PICK r \in Requests \cup {<<>>}, k \in 0..5 : Progress(c, r, k)
    BY <1>1, <2>1 DEF RequestKnown
  <2>3. HasRead(c, r, k) /\ ToOpen(c, r, k) /\ r # <<>>
    BY <2>1, <2>2 DEF Progress
  <2>4. PICK len \in IF num[c] = Unset THEN 0..2 ELSE {num[c]} :
          num' = [num EXCEPT ![c] = len] /\ at' = [at EXCEPT ![c] = IF len = 0 THEN "answer" ELSE "body"]
    BY <1>7 DEF OpenFile
  <2>5. num[c] = Unset => "nolen" \in note'[c]
    BY <1>7 DEF OpenFile, Share
  <2>6. kind[c] \in {"POST", "PUT"} /\ file'[kind[c]] = <<>>
    BY <1>2, <1>7, <2>3 DEF OpenFile, ToOpen, Stores
  <2>7. HasRead(c, r, k)' /\ Stores(c, r)' /\ off'[c] = 0
    BY <2>1, <2>3 DEF HasRead, ToOpen, Stores
  <2>8. CASE HasLength(r)
    <3>1. k = 3 /\ num'[c] = 2 /\ at'[c] = "body"
      BY <1>2, <2>3, <2>4, <2>8 DEF ToOpen, Unset
    <3>2. file'[kind'[c]] = Filled(off'[c], c)
      BY <2>1, <2>6, <2>7 DEF Filled
    <3>3. InBody(c, r, k)'
      BY <2>7, <2>8, <3>1, <3>2 DEF InBody, OwnFile, HasLength
    <3>4. Progress(c, r, k)'
      BY <2>3, <2>7, <3>1, <3>3 DEF Progress
    <3>5. QED BY <3>1, <3>4 DEF RequestKnown
  <2>9. CASE ~HasLength(r)
    <3>1. k = 2 /\ "nolen" \in note'[c]
      BY <2>3, <2>5, <2>9 DEF ToOpen
    <3>2. CASE len = 0
      BY <1>2, <2>4, <3>1, <3>2 DEF RequestKnown, BodyStored
    <3>3. CASE len # 0
      <4>1. at'[c] = "body" /\ num'[c] # 0
        BY <1>2, <2>4, <3>3
      <4>2. InBody(c, r, k)'
        BY <2>7, <2>9, <3>1, <4>1 DEF InBody, HasLength
      <4>3. Progress(c, r, k)'
        BY <2>3, <2>7, <4>1, <4>2 DEF Progress
      <4>4. QED BY <4>1, <4>3 DEF RequestKnown
    <3>4. QED BY <3>2, <3>3
  <2>10. QED BY <2>8, <2>9
<1>8. CASE ReadBody(c)
  <2>1. at[c] = "body" /\ UNCHANGED <<cli, todo, kind>>
    BY <1>8 DEF ReadBody
  <2>2. PICK r \in Requests \cup {<<>>}, k \in 0..5 : Progress(c, r, k)
    BY <1>1, <2>1 DEF RequestKnown
  <2>3. HasRead(c, r, k) /\ InBody(c, r, k) /\ Stores(c, r) /\ r # <<>>
    BY <2>1, <2>2 DEF Progress, InBody
  <2>4. CASE Ended(c) /\ at' = Set(at, c, "answer")
    <3>1. at'[c] = "answer" /\ cli'[c] # "await"
      BY <1>2, <2>1, <2>4 DEF Ended
    <3>2. QED BY <3>1 DEF RequestKnown, BodyStored
  <2>5. ASSUME NEW n \in 1 .. Len(up[c]),
               /\ up' = Set(up, c, SubSeq(up[c], n + 1, Len(up[c])))
               /\ file' = Set(file, kind[c], Written(file[kind[c]], off[c], n, c))
               /\ off' = Set(off, c, off[c] + n)
               /\ num' = Set(num, c, Remaining(n, num[c]))
               /\ at' = (IF num'[c] = 0 THEN Set(at, c, "answer") ELSE at)
               /\ Share(c, kind[c], {})
        PROVE  RequestKnown(c)'
    <3>1. off[c] + n \in 0 .. 2 /\ kind[c] \in {"POST", "PUT"} /\ n \in Nat \ {0}
      BY <1>2, <1>8, BodyFits DEF ReadBody
    <3>2. PICK o \in 0 .. 2 : o = off[c]
      BY <1>2
    <3>3. PICK next \in Nat : next = k + n
      BY <3>1
    <3>4. HasRead(c, r, next)'
      <4>1. k \in Nat /\ Len(r) \in Nat
        BY <1>3
      <4>2. QED BY <1>1, <2>1, <2>3, <2>5, <3>3, <4>1, ReadOn
    <3>5. note[c] \subseteq note'[c]
      BY <1>2, <2>5 DEF Share
    <3>6. off'[c] = o + n /\ num'[c] = Remaining(n, num[c]) /\ o + n \in 0 .. 2
      BY <1>2, <2>5, <3>1, <3>2
    <3>7. OwnFile(c) => OwnFile(c)'
      <4>1. SUFFICES ASSUME OwnFile(c), "shared" \notin note[c] PROVE file'[kind'[c]] = Filled(off'[c], c)
        BY <2>1, <3>5 DEF OwnFile
      <4>2. PICK f \in Seq(Clients \cup {"hole"}) : f = file[kind[c]]
        BY <1>2, <3>1
      <4>3. f = Filled(o, c) /\ o \in Nat /\ n \in Nat
        BY <3>1, <3>2, <4>1, <4>2 DEF OwnFile
      <4>4. PICK all \in Nat : all = o + n
        BY <3>1
      <4>5. Written(f, o, n, c) = Filled(all, c)
        <5>1. PICK from \in Nat, m \in Nat : from = o /\ m = n
          BY <4>3
        <5>2. f = Filled(from, c) /\ all = from + m
          BY <4>3, <4>4, <5>1
        <5>3. Written(f, from, m, c) = Filled(all, c)
          BY <5>2, WrittenOn DEF Filled
        <5>4. QED BY <5>1, <5>3
      <4>6. file'[kind[c]] = Written(f, o, n, c)
        BY <1>2, <2>5, <3>1, <3>2, <4>2
      <4>7. QED BY <2>1, <3>6, <4>4, <4>5, <4>6
    <3>8. CASE num'[c] = 0
      <4>1. at'[c] = "answer"
        BY <1>2, <2>5, <3>8
      <4>2. CASE HasLength(r)
        <5>1. num[c] = 2 - o /\ OwnFile(c)'
          BY <2>3, <3>2, <3>7, <4>2 DEF InBody
        <5>2. o + n = 2
          BY <3>1, <3>6, <3>8, <5>1 DEF Remaining
        <5>3. Filled(2, c) = <<c, c>>
          BY DEF Filled
        <5>4. off'[c] = 2
          BY <3>6, <5>2
        <5>5. file'[kind'[c]] = <<c, c>> \/ "shared" \in note'[c]
          BY <5>1, <5>3, <5>4 DEF OwnFile
        <5>6. QED BY <4>1, <5>5 DEF RequestKnown, BodyStored
      <4>3. CASE ~HasLength(r)
        <5>1. "nolen" \in note'[c]
          BY <2>3, <3>5, <4>3 DEF InBody
        <5>2. QED BY <4>1, <5>1 DEF RequestKnown, BodyStored
      <4>4. QED BY <4>2, <4>3
    <3>9. CASE num'[c] # 0
      <4>1. at'[c] = "body" /\ Stores(c, r)'
        BY <2>1, <2>3, <2>5, <3>9 DEF Stores
      <4>2. next \in 0..5 /\ InBody(c, r, next)'
        <5>1. CASE HasLength(r)
          <6>1. num[c] = 2 - o /\ k = 3 + o /\ OwnFile(c)'
            BY <2>3, <3>2, <3>7, <5>1 DEF InBody
          <6>2. num'[c] = 2 - (o + n) /\ next = 3 + (o + n) /\ next \in 0..5
            BY <3>1, <3>3, <3>6, <3>9, <6>1 DEF Remaining
          <6>3. QED BY <3>6, <3>9, <4>1, <5>1, <6>1, <6>2 DEF InBody, HasLength
        <5>2. CASE ~HasLength(r)
          <6>1. k = 2 + o /\ "nolen" \in note'[c]
            BY <2>3, <3>2, <3>5, <5>2 DEF InBody
          <6>2. next = 2 + (o + n) /\ next \in 0..5
            BY <3>1, <3>3, <3>6, <6>1
          <6>3. QED BY <3>6, <3>9, <4>1, <5>2, <6>1, <6>2 DEF InBody, HasLength
        <5>3. QED BY <5>1, <5>2
      <4>3. Progress(c, r, next)'
        BY <2>3, <3>4, <4>1, <4>2 DEF Progress
      <4>4. QED BY <4>1, <4>2, <4>3 DEF RequestKnown
    <3>10. QED BY <3>8, <3>9
  <2>6. QED BY <1>8, <2>4, <2>5 DEF ReadBody
<1>9. CASE AnswerHttp(c)
  <2>1. \/ at'[c] = "exit"
        \/ at'[c] = "send" /\ num'[c] = Len(file'["POST"])
    BY <1>2, <1>9 DEF AnswerHttp
  <2>2. QED BY <2>1 DEF RequestKnown
<1>10. CASE SendFile(c) \/ Register(c) \/ Introduce(c) \/ AskQuestion(c) \/ ReadAnswer(c) \/ ExitChild(c)
  <2>1. at'[c] = "exit"
    BY <1>2, <1>10 DEF SendFile, Register, Introduce, AskQuestion, ReadAnswer, ExitChild, ToldInv, OwnProgram,
       InProgram
  <2>2. QED BY <2>1 DEF RequestKnown
<1>11. QED BY <1>5, <1>6, <1>7, <1>8, <1>9, <1>10 DEF Child

LEMMA SameRequest ==
  ASSUME NEW c \in Clients, RequestKnown(c), UNCHANGED <<cli, todo, up, at, kind, num, off, file, note>>
  PROVE  RequestKnown(c)'
<1>1. ASSUME NEW r \in Requests \cup {<<>>}, NEW k \in 0..5, Progress(c, r, k)
      PROVE  Progress(c, r, k)'
  <2>1. HasRead(c, r, k) => HasRead(c, r, k)'
    BY DEF HasRead
  <2>2. InHeaders(c, r, k) => InHeaders(c, r, k)'
    BY DEF InHeaders, Stores
  <2>3. ToOpen(c, r, k) => ToOpen(c, r, k)'
    BY DEF ToOpen, Stores
  <2>4. InBody(c, r, k) => InBody(c, r, k)'
    BY DEF InBody, Stores, OwnFile
  <2>5. QED BY <1>1, <2>1, <2>2, <2>3, <2>4 DEF Progress
<1>2. at[c] = "answer" => BodyStored(c)'
  BY DEF RequestKnown, BodyStored
<1>3. QED BY <1>1, <1>2 DEF RequestKnown

LEMMA StepRequest ==
  ASSUME ToldInv, Server \/ \E c \in Clients : Own(c)
  PROVE  OneRequest'
<1>1. CASE Server
  <2>1. UNCHANGED <<prog, cli, todo, up, at, kind, num, off, file, note>>
    BY <1>1 DEF Server, talk, work, Parent, Accept, Fork, CloseCopy, Handler, Collect
  <2>2. \A c \in Clients : RequestKnown(c) => RequestKnown(c)'
    BY <2>1, SameRequest
  <2>3. QED BY <2>1, <2>2 DEF ToldInv, OneRequest
<1>2. ASSUME NEW c \in Clients, Own(c), prog' = "http" PROVE \A d \in Clients : RequestKnown(d)'
  <2>1. prog = "http"
    BY <1>2 DEF Own, Client, Child, Connect, Enqueue, Leave, SendMore, Await, ReadQuiz, AnswerQuiz,
       ReadRequest, ReadHeader, OpenFile, ReadBody, AnswerHttp, SendFile, Register, Introduce,
       AskQuestion, ReadAnswer, ExitChild, Exit, procs
  <2>2. RequestKnown(c)'
    BY <1>2, <2>1, ClientRequest, ChildRequest DEF Own
  <2>3. \A d \in Clients : d # c => RequestKnown(d)'
    BY <1>2, <2>1, OtherRequests
  <2>4. QED BY <2>2, <2>3
<1>3. QED BY <1>1, <1>2 DEF OneRequest
----------------------------------------------------------------------------
(* What the clients are told.                                              *)

LEMMA OtherAnswers ==
  ASSUME ToldInv, prog # "quiz", NEW c \in Clients, NEW d \in Clients, c # d, Own(c)
  PROVE  AnswerKnown(d)'
<1>1. AnswerKnown(d)
  BY DEF ToldInv, AnswersKnown
<1>2. /\ cli'[d] = cli[d] /\ got'[d] = got[d] /\ down'[d] = down[d] /\ at'[d] = at[d]
      /\ note[d] \subseteq note'[d]
  BY OthersUntouched
<1>3. QED BY <1>1, <1>2 DEF AnswerKnown

(* A client and its child: an answer is sent before the child is at its    *)
(* exit, and what ends without one is noted (http.c:98-212).               *)
LEMMA OwnAnswer ==
  ASSUME ToldInv, prog # "quiz", NEW c \in Clients, Own(c)
  PROVE  AnswerKnown(c)'
<1> USE DEF Set, Add, Runs
<1>1. /\ AnswerKnown(c) /\ OneChild(c) /\ InProgram(c)
      /\ prog = "http" => RequestKnown(c)
  BY DEF ToldInv, AnswersKnown, OneChildEach, OwnProgram, OneRequest
<1>2. /\ cli \in [Clients -> {"new", "await", "intro", "next", "answer", "verdict", "done", "left"}]
      /\ got \in [Clients -> {"nothing", "ok", "err", "short"}]
      /\ at \in [Clients -> Places] /\ note \in [Clients -> SUBSET Notes]
      /\ down \in [Clients -> Seq(Replies)]
      /\ kid \in [Clients -> {"none", "run", "zombie", "gone"}]
  BY DEF ToldInv, TypeOK, StreamsOK, ProcTypeOK
<1>3. <<"ok">> # <<"short">> /\ <<"err">> # <<"short">> /\ \A x : <<x>> # <<>>
  OBVIOUS
<1>4. CASE Connect(c)
  <2>1. at[c] = "start" /\ UNCHANGED <<got, down, at, note>> /\ cli'[c] = "await"
    BY <1>1, <1>2, <1>4 DEF Connect, OneChild, work
  <2>2. QED BY <1>1, <2>1 DEF AnswerKnown
<1>5. CASE Leave(c)
  BY <1>1, <1>2, <1>5 DEF Leave, AnswerKnown, work
<1>6. CASE SendMore(c)
  BY <1>1, <1>6 DEF SendMore, AnswerKnown, work
<1>7. CASE Await(c)
  <2>1. /\ cli[c] = "await" /\ cli'[c] = "done" /\ down'[c] = <<>> /\ note[c] \subseteq note'[c]
        /\ got'[c] = IF down[c] = <<>> THEN got[c] ELSE Last(down[c])
        /\ kid[c] = "none" => "refused" \in note'[c]
    BY <1>2, <1>7 DEF Await
  <2>2. CASE down[c] = <<>>
    <3>1. kid[c] # "none" => at[c] = "exit"
      BY <1>1, <1>2, <1>7, <2>2 DEF Await, AtEnd, Closed, OneChild
    <3>2. note'[c] \cap {"refused", "reset", "unknown"} # {}
      BY <1>1, <2>1, <2>2, <3>1 DEF AnswerKnown
    <3>3. got'[c] = "short" => "shared" \in note'[c]
      BY <1>1, <2>1, <2>2 DEF AnswerKnown
    <3>4. QED BY <2>1, <3>2, <3>3 DEF AnswerKnown
  <2>3. CASE down[c] # <<>>
    <3>1. Last(down[c]) \in {"ok", "err", "short"} /\ (Last(down[c]) = "short" => down[c] = <<"short">>)
      BY <1>1, <2>3 DEF AnswerKnown, Last
    <3>2. QED BY <1>1, <2>1, <2>3, <3>1 DEF AnswerKnown
  <2>4. QED BY <2>2, <2>3
<1>8. CASE ReadQuiz(c) \/ AnswerQuiz(c)
  BY <1>1, <1>8 DEF ReadQuiz, AnswerQuiz, InProgram
<1>9. CASE ReadRequest(c)
  <2>1. UNCHANGED <<cli, got, down>> /\ note[c] \subseteq note'[c]
    BY <1>2, <1>9 DEF ReadRequest
  <2>2. at'[c] = "exit" => cli[c] # "await" \/ "unknown" \in note'[c]
    BY <1>2, <1>9 DEF ReadRequest, Ended
  <2>3. QED BY <1>1, <2>1, <2>2 DEF AnswerKnown
<1>10. CASE ReadHeader(c) \/ OpenFile(c) \/ ReadBody(c)
  <2>1. UNCHANGED <<cli, got, down>>
    BY <1>10 DEF ReadHeader, OpenFile, ReadBody, talk
  <2>2. note[c] \subseteq note'[c]
    BY <1>10 DEF ReadHeader, OpenFile, ReadBody, Share
  <2>3. at'[c] # "exit"
    BY <1>2, <1>10 DEF ReadHeader, OpenFile, ReadBody
  <2>4. QED BY <1>1, <2>1, <2>2, <2>3 DEF AnswerKnown
<1>11. CASE AnswerHttp(c)
  <2>1. UNCHANGED <<cli, got>> /\ note[c] \subseteq note'[c]
    BY <1>2, <1>11 DEF AnswerHttp
  <2>2. \/ at'[c] = "send" /\ down' = down
        \/ down'[c] = <<"ok">>
    BY <1>2, <1>11 DEF AnswerHttp
  <2>3. QED BY <1>1, <1>3, <2>1, <2>2 DEF AnswerKnown
<1>12. CASE SendFile(c)
  <2>1. num[c] = Len(file["POST"]) \/ "shared" \in note[c]
    BY <1>1, <1>12 DEF SendFile, InProgram, RequestKnown
  <2>2. UNCHANGED <<cli, got, note>>
    BY <1>12 DEF SendFile
  <2>3. down'[c] = <<"ok">> \/ (down'[c] = <<"short">> /\ "shared" \in note[c])
    BY <1>2, <1>12, <2>1 DEF SendFile
  <2>4. QED BY <1>1, <1>3, <2>2, <2>3 DEF AnswerKnown
<1>13. CASE Register(c)
  <2>1. UNCHANGED <<cli, got, note>>
    BY <1>13 DEF Register
  <2>2. \/ down' = down /\ cli[c] # "await"
        \/ down'[c] \in {<<"ok">>, <<"err">>}
    BY <1>2, <1>13 DEF Register, Ended
  <2>3. QED BY <1>1, <1>3, <2>1, <2>2 DEF AnswerKnown
<1>14. CASE Introduce(c) \/ AskQuestion(c) \/ ReadAnswer(c)
  BY <1>1, <1>14 DEF Introduce, AskQuestion, ReadAnswer, InProgram
<1>15. CASE ExitChild(c)
  <2>1. UNCHANGED <<cli, got, at>> /\ note[c] \subseteq note'[c]
    BY <1>2, <1>15 DEF ExitChild
  <2>2. \/ down' = down
        \/ down'[c] = <<>> /\ "reset" \in note'[c]
    BY <1>2, <1>15 DEF ExitChild
  <2>3. QED BY <1>1, <2>1, <2>2 DEF AnswerKnown
<1>16. QED
  BY <1>4, <1>5, <1>6, <1>7, <1>8, <1>9, <1>10, <1>11, <1>12, <1>13, <1>14, <1>15 DEF Own, Client, Child

LEMMA StepAnswers ==
  ASSUME ToldInv, Server \/ \E c \in Clients : Own(c)
  PROVE  AnswersKnown'
<1>1. CASE Server
  <2>1. UNCHANGED <<prog, cli, got, down, at, note>>
    BY <1>1 DEF Server, talk, work, Parent, Accept, Fork, CloseCopy, Handler, Collect
  <2>2. QED BY <2>1 DEF ToldInv, AnswersKnown, AnswerKnown
<1>2. ASSUME NEW c \in Clients, Own(c), prog' # "quiz" PROVE \A d \in Clients : AnswerKnown(d)'
  <2>1. prog # "quiz"
    BY <1>2 DEF Own, Client, Child, Connect, Enqueue, Leave, SendMore, Await, ReadQuiz, AnswerQuiz,
       ReadRequest, ReadHeader, OpenFile, ReadBody, AnswerHttp, SendFile, Register, Introduce,
       AskQuestion, ReadAnswer, ExitChild, Exit, procs
  <2>2. AnswerKnown(c)'
    BY <1>2, <2>1, OwnAnswer
  <2>3. \A d \in Clients : d # c => AnswerKnown(d)'
    BY <1>2, <2>1, OtherAnswers
  <2>4. QED BY <2>2, <2>3
<1>3. QED BY <1>1, <1>2 DEF AnswersKnown
----------------------------------------------------------------------------
(* The invariant.                                                          *)

LEMMA InitInv == Init => ToldInv
<1> SUFFICES ASSUME Init PROVE ToldInv
  OBVIOUS
<1> USE DEF Init, ProcInit, All
<1>1. ProcTypeOK
  <2>1. Uncollected = {}
    BY DEF Uncollected
  <2>2. Cardinality({}) = 0 /\ limit \in Nat
    BY FS_EmptySet, LimitsAssumption
  <2>3. Cardinality(Uncollected) <= limit
    BY <2>1, <2>2
  <2>4. /\ prog \in {"http", "registration", "quiz"} /\ limit \in Limits
        /\ kid \in [Clients -> {"none", "run", "zombie", "gone"}]
        /\ {sigchld, handling} \subseteq BOOLEAN
    OBVIOUS
  <2>5. QED BY <2>3, <2>4 DEF ProcTypeOK, Uncollected
<1>2. Types
  <2>1. \A S : <<>> \in Seq(S)
    BY EmptySeq
  <2>2. StreamsOK
    BY <2>1 DEF StreamsOK
  <2>3. QED BY <2>2 DEF Types, Places, Notes, Unset
<1>3. TypeOK /\ StreamsOK
  BY <1>1, <1>2, TypesSuffice
<1>4. OneChildEach
  BY ClientsAssumption DEF OneChildEach, OneChild
<1>5. OwnProgram
  BY DEF OwnProgram, InProgram
<1>6. OneRequest
  <2>1. ASSUME NEW c \in Clients PROVE RequestKnown(c)
    <3>1. Len(<<>>) = 0
      OBVIOUS
    <3>2. PICK r \in Requests \cup {<<>>} : r = <<>>
      OBVIOUS
    <3>3. HasRead(c, r, 0)
      BY <3>1, <3>2 DEF HasRead
    <3>4. Progress(c, r, 0)
      BY <3>3 DEF Progress
    <3>5. QED BY <3>4 DEF RequestKnown
  <2>2. QED BY <2>1 DEF OneRequest
<1>7. AnswersKnown
  BY DEF AnswersKnown, AnswerKnown
<1>8. QED BY <1>3, <1>4, <1>5, <1>6, <1>7 DEF ToldInv

LEMMA StutterInv == ToldInv /\ UNCHANGED vars => ToldInv'
<1> SUFFICES ASSUME ToldInv, UNCHANGED vars PROVE ToldInv'
  OBVIOUS
<1>1. UNCHANGED <<prog, limit, parent, current, backlog, kid, sigchld, handling, cli, todo, got, up,
                  down, at, kind, num, off, file, note>>
  BY DEF vars, procs, talk, work
<1>2. TypeOK' /\ StreamsOK'
  BY <1>1 DEF ToldInv, TypeOK, ProcTypeOK, StreamsOK
<1>3. OneChildEach' /\ OwnProgram'
  BY <1>1 DEF ToldInv, OneChildEach, OneChild, OwnProgram, InProgram
<1>4. OneRequest'
  BY <1>1, SameRequest DEF ToldInv, OneRequest
<1>5. AnswersKnown'
  BY <1>1 DEF ToldInv, AnswersKnown, AnswerKnown
<1>6. QED BY <1>2, <1>3, <1>4, <1>5 DEF ToldInv

(* The inductive invariant of the forking servers: a connection has one    *)
(* child, whose request comes whole and in order, and the notes explain    *)
(* every answer that is missing or short.                                  *)
THEOREM ToldInvariant == Spec => []ToldInv
<1>1. ToldInv /\ [Next]_vars => ToldInv'
  <2> SUFFICES ASSUME ToldInv, [Next]_vars PROVE ToldInv'
    OBVIOUS
  <2>1. CASE Server \/ \E c \in Clients : Own(c)
    BY <2>1, StepType, StepOneChild, StepProgram, StepRequest, StepAnswers DEF ToldInv
  <2>2. CASE Rest \/ UNCHANGED vars
    BY <2>2, StutterInv DEF Rest
  <2>3. QED BY <2>1, <2>2 DEF Next, Own
<1>2. QED BY InitInv, <1>1, PTL DEF Spec

(* The types of ForkServer and ForkHandlers; among them, that there are    *)
(* never more uncollected children than the system allows, although the    *)
(* servers do not look at what fork() returns (HTTP/server.c:50).          *)
THEOREM TypeCorrect == Spec => []TypeOK
<1>1. ToldInv => TypeOK
  BY DEF ToldInv
<1>2. QED BY <1>1, ToldInvariant, PTL

(* A client without an answer was refused, reset or not understood, a      *)
(* short page was shared, and an acknowledged body is in its file          *)
(* (http.c:98-212, Ontap/Bai1/server.c).                                   *)
THEOREM ToldHolds == Spec => []Told
<1>1. ToldInv => Told
  <2> SUFFICES ASSUME ToldInv, NEW c \in Clients
               PROVE  /\ cli[c] = "done" /\ prog # "quiz" /\ got[c] = "nothing"
                           => note[c] \cap {"refused", "reset", "unknown"} # {}
                      /\ got[c] = "short" => "shared" \in note[c]
                      /\ Runs(c, "answer") /\ kind[c] \in {"POST", "PUT"} /\ cli[c] = "await"
                           => file[kind[c]] = <<c, c>> \/ note[c] \cap {"shared", "nolen"} # {}
    BY DEF Told
  <2>1. prog # "quiz" => AnswerKnown(c)
    BY DEF ToldInv, AnswersKnown
  <2>2. InProgram(c)
    BY DEF ToldInv, OwnProgram
  <2>3. at[c] = "answer" => BodyStored(c)
    BY <2>2 DEF ToldInv, OneRequest, RequestKnown, InProgram
  <2>4. QED BY <2>1, <2>2, <2>3 DEF AnswerKnown, InProgram, BodyStored, Runs
<1>2. QED BY <1>1, ToldInvariant, PTL
=============================================================================
