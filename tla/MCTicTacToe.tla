---------------------------- MODULE MCTicTacToe ----------------------------
(***************************************************************************)
(* Bounds for TicTacToe.  Without crashes the whole game is explored.      *)
(* With crashes of both players the game is explored from its start up to  *)
(* the third mark, and again from the fourth mark, on the Endgames, to its *)
(* end.                                                                    *)
(***************************************************************************)
EXTENDS TicTacToe, FiniteSets

BoardOf(first, second) ==
  [c \in Cells |-> IF c \in first THEN 1 ELSE IF c \in second THEN 2 ELSE 0]

(* Boards of four moves with no line, player 1 to move: one that can end   *)
(* in a win of either player, one that is close to a tie.                  *)
Endgames == {BoardOf({<<0, 0>>, <<1, 1>>}, {<<0, 1>>, <<2, 2>>}),
             BoardOf({<<0, 0>>, <<0, 2>>}, {<<0, 1>>, <<1, 1>>})}

(* The server has notified both players of the fourth move, and both have  *)
(* read it.                                                                *)
EndgameInit ==
  /\ spc = "turn"
  /\ turn = 1
  /\ board \in Endgames
  /\ move = Origin
  /\ status = -1
  /\ cpc = [p \in Players |-> "recv"]
  /\ playerno = [p \in Players |-> p]
  /\ view = [p \in Players |-> board]
  /\ choice = [p \in Players |-> Origin]
  /\ says = [p \in Players |-> "none"]
  /\ s2c = [p \in Players |-> <<>>]
  /\ c2s = [p \in Players |-> <<>>]

CrashSpec == (Init \/ EndgameInit) /\ [][Next]_vars /\ Fairness

NotTheThirdMark == Cardinality({c \in Cells : board[c] # 0}) # 3
============================================================================
