--------------------------- MODULE TicTacToeBoard ---------------------------
(***************************************************************************)
(* The board of "Chuong 7" and the server's check(): a board maps each     *)
(* cell <<x, y>> to 0 (empty), 1 (player 1) or 2 (player 2).  check() is   *)
(* translated as it is written; the lines of the game, the reference it is *)
(* compared with, are below it.  The source fixes Size = 3; any odd size   *)
(* keeps the centre cell on both diagonals, which check() relies on.       *)
(***************************************************************************)
EXTENDS Integers

CONSTANT Size

ASSUME SizeAssumption == Size \in Nat /\ Size % 2 = 1

Players == {1, 2}
Idx == 0 .. (Size - 1)
Cells == Idx \X Idx
Boards == [Cells -> {0} \cup Players]
EmptyBoard == [c \in Cells |-> 0]
Centre == <<Size \div 2, Size \div 2>>

OffByOneOther(p) == p + 1   \* wrong variant

Other(p) == IF p = 1 THEN 2 ELSE 1

----------------------------------------------------------------------------
(* check(), lines 110-123.                                                 *)

UniformRow(b, i) == b[<<i, 0>>] # 0 /\ \A j \in Idx : b[<<i, j>>] = b[<<i, 0>>]
UniformColumn(b, i) == b[<<0, i>>] # 0 /\ \A j \in Idx : b[<<j, i>>] = b[<<0, i>>]

(* The indices at which the first loop returns.                            *)
Hits(b) == {i \in Idx : UniformRow(b, i) \/ UniformColumn(b, i)}

(* The loop returns at the first hit i: b[i][0] when that is marked, and   *)
(* b[0][i] otherwise, whichever of the two lines was the uniform one.      *)
FirstHitMark(b) ==
  LET i == CHOOSE h \in Hits(b) : \A k \in Hits(b) : h <= k
  IN  IF b[<<i, 0>>] # 0 THEN b[<<i, 0>>] ELSE b[<<0, i>>]

UniformDiagonal(b) ==
  /\ b[Centre] # 0
  /\ \/ \A i \in Idx : b[<<i, i>>] = b[Centre]
     \/ \A i \in Idx : b[<<i, Size - 1 - i>>] = b[Centre]

Full(b) == \A c \in Cells : b[c] # 0

(* Wrong variant: the diagonals are forgotten.                             *)
CheckNoDiagonal(b) ==
  IF Hits(b) # {} THEN FirstHitMark(b) ELSE IF Full(b) THEN 0 ELSE -1

check(b) ==
  IF Hits(b) # {} THEN FirstHitMark(b)
  ELSE IF UniformDiagonal(b) THEN b[Centre]
  ELSE IF Full(b) THEN 0
  ELSE -1

----------------------------------------------------------------------------
(* The reference: the lines of the game and who owns one.                  *)

Lines ==
  {{<<i, j>> : j \in Idx} : i \in Idx}
    \cup {{<<i, j>> : i \in Idx} : j \in Idx}
    \cup {{<<i, i>> : i \in Idx}, {<<i, Size - 1 - i>> : i \in Idx}}

OwnsLine(b, p) == \E line \in Lines : \A c \in line : b[c] = p
Decided(b) == Full(b) \/ \E p \in Players : OwnsLine(b, p)
=============================================================================
