---------------------------- MODULE TicTacToeGame ----------------------------
(***************************************************************************)
(* What the tic-tac-toe server promises its two players: they mark empty   *)
(* cells in turn, nobody marks a decided board, and a decided board gets   *)
(* one result, a tie exactly when no line is owned.  Which of the players  *)
(* a result names is left open here: see WinnerOwnsLine in TicTacToe.      *)
(***************************************************************************)
EXTENDS TicTacToeBoard, FiniteSets

VARIABLES board, status

Marks(p) == Cardinality({c \in Cells : board[c] = p})
ToMove == IF Marks(1) = Marks(2) THEN 1 ELSE 2

Init == board = EmptyBoard /\ status = -1

Mark ==
  /\ ~Decided(board)
  /\ \E c \in Cells : board[c] = 0 /\ board' = [board EXCEPT ![c] = ToMove]
  /\ UNCHANGED status

Conclude ==
  /\ status = -1
  /\ Decided(board)
  /\ status' \in IF \E p \in Players : OwnsLine(board, p) THEN Players ELSE {0}
  /\ UNCHANGED board

Next == Mark \/ Conclude

Spec == Init /\ [][Next]_<<board, status>>
=============================================================================
