------------------------------ MODULE TicTacToe ------------------------------
(***************************************************************************)
(* The tic-tac-toe server and its two clients ("Chuong 7/server.c",        *)
(* "Chuong 7/client.c") over two TCP connections.                          *)
(*                                                                         *)
(* A connection is a FIFO queue each way.  The server's messages are one   *)
(* element each: it never stops between the send of a header and of its    *)
(* payload while the peer is alive.  A client can be stopped by its user   *)
(* at any point, so its MOVE is two elements, header and payload, as it is *)
(* two calls of send().                                                    *)
(*                                                                         *)
(* The server never validates a move and no client is told of the other's  *)
(* choice except through STATE_UPDATE: that cells are not overwritten and  *)
(* that the boards agree rests on the order of messages.                   *)
(***************************************************************************)
EXTENDS TicTacToeBoard, Sequences

CONSTANT MayCrash   \* the players whose process may be stopped at any time

ASSUME CrashAssumption == MayCrash \subseteq Players

VARIABLES
  spc,       \* the server's place in main()
  turn,      \* whose move the server waits for
  board,     \* the server's board
  move,      \* the cell of the last MOVE: x and y of main()
  status,    \* what check() returned last
  cpc,       \* each client's place in main()
  playerno,  \* each client's own number, 0 until READY has set it
  view,      \* each client's copy of the board
  choice,    \* the cell a client has typed, while its MOVE is being sent
  says,      \* what a client has printed at RESULT
  s2c,       \* server to client: messages not yet received
  c2s        \* client to server: sends not yet received

serverVars == <<spc, turn, board, move, status>>
clientVars == <<cpc, playerno, view, choice, says>>
vars == <<serverVars, clientVars, s2c, c2s>>

----------------------------------------------------------------------------
(* Messages (tictactoe.h).                                                 *)

Ready(p) == [type |-> "READY", no |-> p]
YourTurn == [type |-> "TURN_NOTIFICATION"]
State(c, p) == [type |-> "STATE_UPDATE", cell |-> c, no |-> p]
Result(w) == [type |-> "RESULT", winner |-> w]

Messages ==
  [type : {"READY"}, no : Players]
    \cup {YourTurn}
    \cup [type : {"STATE_UPDATE"}, cell : Cells, no : Players]
    \cup [type : {"RESULT"}, winner : {0} \cup Players]

MoveHeader == [part |-> "header"]
MovePayload(c) == [part |-> "payload", cell |-> c]
MoveParts == {MoveHeader} \cup [part : {"payload"}, cell : Cells]

Stopped == {"closed", "failed"}
ServerPlaces ==
  {"accept", "ready1", "ready2", "turn", "header", "payload", "state1",
   "state2", "check", "result1", "result2"} \cup Stopped
ClientPlaces == {"start", "recv", "input", "payload", "done", "crashed"}
Verdicts == {"none", "win", "tie", "lose"}

TypeOK ==
  /\ spc \in ServerPlaces
  /\ turn \in Players
  /\ board \in Boards
  /\ move \in Cells
  /\ status \in {-1, 0} \cup Players
  /\ cpc \in [Players -> ClientPlaces]
  /\ playerno \in [Players -> {0} \cup Players]
  /\ view \in [Players -> Boards]
  /\ choice \in [Players -> Cells]
  /\ says \in [Players -> Verdicts]
  /\ s2c \in [Players -> Seq(Messages)]
  /\ c2s \in [Players -> Seq(MoveParts)]

Origin == <<0, 0>>   \* the value of a cell variable nothing reads yet

Init ==
  /\ spc = "accept"
  /\ turn = 1
  /\ board = EmptyBoard
  /\ move = Origin
  /\ status = -1
  /\ cpc = [p \in Players |-> "start"]
  /\ playerno = [p \in Players |-> 0]
  /\ view = [p \in Players |-> EmptyBoard]
  /\ choice = [p \in Players |-> Origin]
  /\ says = [p \in Players |-> "none"]
  /\ s2c = [p \in Players |-> <<>>]
  /\ c2s = [p \in Players |-> <<>>]

----------------------------------------------------------------------------
(* The server.                                                             *)

(* Both connections are in the backlog; accept() returns them in the order *)
(* of arrival, which is what numbers the players.                          *)
Accept ==
  /\ spc = "accept"
  /\ \A p \in Players : cpc[p] # "start"
  /\ spc' = "ready1"
  /\ UNCHANGED <<turn, board, move, status, clientVars, s2c, c2s>>

(* One notify_*() call to player p.  Its sends reach a live peer.  Once    *)
(* the peer is gone they are lost, or the second of them raises SIGPIPE,   *)
(* which main() does not handle: the whole server dies.                    *)
Notify(p, msg, next) ==
  /\ \/ /\ cpc[p] # "crashed"
        /\ s2c' = [s2c EXCEPT ![p] = Append(@, msg)]
        /\ spc' = next
     \/ /\ cpc[p] = "crashed"
        /\ spc' \in {next, "failed"}
        /\ UNCHANGED s2c
  /\ UNCHANGED <<turn, board, move, status, clientVars, c2s>>

(* Wrong variants: the turn goes to the wrong player, a mark is reported   *)
(* for the player who moves next, the second result is forgotten.          *)
WrongTurn == spc = "turn" /\ Notify(Other(turn), YourTurn, "header")
WrongState2 == spc = "state2" /\ Notify(2, State(move, Other(turn)), "check")
WrongResult1 == spc = "result1" /\ Notify(1, Result(status), "closed")

NotifyReady1 == spc = "ready1" /\ Notify(1, Ready(1), "ready2")
NotifyReady2 == spc = "ready2" /\ Notify(2, Ready(2), "turn")
NotifyTurn == spc = "turn" /\ Notify(turn, YourTurn, "header")
NotifyState1 == spc = "state1" /\ Notify(1, State(move, turn), "state2")
NotifyState2 == spc = "state2" /\ Notify(2, State(move, turn), "check")
NotifyResult1 == spc = "result1" /\ Notify(1, Result(status), "result2")
NotifyResult2 == spc = "result2" /\ Notify(2, Result(status), "closed")

RecvHeader ==
  /\ spc = "header"
  /\ c2s[turn] # <<>>
  /\ spc' = IF Head(c2s[turn]) = MoveHeader THEN "payload" ELSE "failed"
  /\ c2s' = [c2s EXCEPT ![turn] = Tail(@)]
  /\ UNCHANGED <<turn, board, move, status, clientVars, s2c>>

(* Wrong variants: no move yet is taken for the end of the connection, and *)
(* the end of the connection is not noticed.                               *)
ImpatientRecvHeader ==
  /\ spc = "header"
  /\ c2s[turn] = <<>>
  /\ spc' \in Stopped
  /\ UNCHANGED <<turn, board, move, status, clientVars, s2c, c2s>>

DeafRecvHeader ==
  /\ spc = "header"
  /\ c2s[turn] = <<>>
  /\ cpc[turn] = "crashed"
  /\ UNCHANGED vars

(* The player whose turn it is has gone: recv() returns 0 and main() leaves *)
(* the loop, or -1 after a reset and main() exits.                          *)
RecvHeaderFails ==
  /\ spc = "header"
  /\ c2s[turn] = <<>>
  /\ cpc[turn] = "crashed"
  /\ spc' \in Stopped
  /\ UNCHANGED <<turn, board, move, status, clientVars, s2c, c2s>>

(* Lines 84-87: the cell is marked for the player whose turn it is,        *)
(* whatever it held before.                                                *)
Place(c) ==
  /\ move' = c
  /\ board' = [board EXCEPT ![c] = turn]
  /\ spc' = "state1"

RecvPayload ==
  /\ spc = "payload"
  /\ c2s[turn] # <<>>
  /\ Place(Head(c2s[turn]).cell)
  /\ c2s' = [c2s EXCEPT ![turn] = Tail(@)]
  /\ UNCHANGED <<turn, status, clientVars, s2c>>

(* The player stopped between its two sends.  A return of -1 ends the      *)
(* server; a return of 0 is not looked at, and move is read although       *)
(* nothing was stored in it: its cell is any cell of the board, or lies    *)
(* outside and the write takes the server down.                            *)
RecvPayloadFails ==
  /\ spc = "payload"
  /\ c2s[turn] = <<>>
  /\ cpc[turn] = "crashed"
  /\ \/ \E c \in Cells : Place(c)
     \/ spc' = "failed" /\ UNCHANGED <<move, board>>
  /\ UNCHANGED <<turn, status, clientVars, s2c, c2s>>

CheckBoard ==
  /\ spc = "check"
  /\ status' = check(board)
  /\ IF status' = -1
       THEN spc' = "turn" /\ turn' = Other(turn)
       ELSE spc' = "result1" /\ UNCHANGED turn
  /\ move' = Origin   \* x and y go out of scope
  /\ UNCHANGED <<board, clientVars, s2c, c2s>>

ServerStep ==
  \/ Accept \/ NotifyReady1 \/ NotifyReady2 \/ NotifyTurn
  \/ RecvHeader \/ RecvHeaderFails \/ RecvPayload \/ RecvPayloadFails
  \/ NotifyState1 \/ NotifyState2 \/ CheckBoard
  \/ NotifyResult1 \/ NotifyResult2

----------------------------------------------------------------------------
(* The clients.                                                            *)

(* Player 1 is by definition the one that connects first.                  *)
Connect(p) ==
  /\ cpc[p] = "start"
  /\ p = 2 => cpc[1] # "start"
  /\ cpc' = [cpc EXCEPT ![p] = "recv"]
  /\ UNCHANGED <<serverVars, playerno, view, choice, says, s2c, c2s>>

(* The client is at the top of its loop and the next message has this type.*)
Receives(p, type) ==
  /\ cpc[p] = "recv"
  /\ s2c[p] # <<>>
  /\ Head(s2c[p]).type = type
  /\ s2c' = [s2c EXCEPT ![p] = Tail(@)]
  /\ UNCHANGED <<serverVars, choice, c2s>>

ReceiveReady(p) ==
  /\ Receives(p, "READY")
  /\ playerno' = [playerno EXCEPT ![p] = Head(s2c[p]).no]
  /\ UNCHANGED <<cpc, view, says>>

ReceiveTurn(p) ==
  /\ Receives(p, "TURN_NOTIFICATION")
  /\ cpc' = [cpc EXCEPT ![p] = "input"]
  /\ UNCHANGED <<playerno, view, says>>

(* Wrong variant: the client keeps only the marks of its own moves.        *)
ReceiveOwnState(p) ==
  /\ Receives(p, "STATE_UPDATE")
  /\ LET m == Head(s2c[p])
     IN  view' = IF m.no = playerno[p]
                   THEN [view EXCEPT ![p] = [@ EXCEPT ![m.cell] = m.no]]
                   ELSE view
  /\ UNCHANGED <<cpc, playerno, says>>

ReceiveState(p) ==
  /\ Receives(p, "STATE_UPDATE")
  /\ LET m == Head(s2c[p])
     IN  view' = [view EXCEPT ![p] = [@ EXCEPT ![m.cell] = m.no]]
  /\ UNCHANGED <<cpc, playerno, says>>

(* Wrong variant: every result that is no tie is a win.                    *)
ReceiveAnyWinner(p) ==
  /\ Receives(p, "RESULT")
  /\ LET winner == Head(s2c[p]).winner
     IN  says' = [says EXCEPT ![p] = IF winner # 0 THEN "win" ELSE "tie"]
  /\ UNCHANGED <<cpc, playerno, view>>

ReceiveResult(p) ==
  /\ Receives(p, "RESULT")
  /\ LET winner == Head(s2c[p]).winner
     IN  says' = [says EXCEPT ![p] = IF winner = playerno[p] THEN "win"
                                     ELSE IF winner = 0 THEN "tie"
                                     ELSE "lose"]
  /\ UNCHANGED <<cpc, playerno, view>>

(* Wrong variant: the scanf loop looks at the range only.                  *)
ChooseAnyCell(p) ==
  /\ cpc[p] = "input"
  /\ \E c \in Cells :
       /\ choice' = [choice EXCEPT ![p] = c]
       /\ view' = [view EXCEPT ![p] = [@ EXCEPT ![c] = playerno[p]]]
  /\ c2s' = [c2s EXCEPT ![p] = Append(@, MoveHeader)]
  /\ cpc' = [cpc EXCEPT ![p] = "payload"]
  /\ UNCHANGED <<serverVars, playerno, says, s2c>>

(* The scanf loop ends with a cell that is empty in the client's own copy; *)
(* the copy is marked and the header of MOVE is sent.                      *)
Choose(p) ==
  /\ cpc[p] = "input"
  /\ \E c \in Cells :
       /\ view[p][c] = 0
       /\ choice' = [choice EXCEPT ![p] = c]
       /\ view' = [view EXCEPT ![p] = [@ EXCEPT ![c] = playerno[p]]]
  /\ c2s' = [c2s EXCEPT ![p] = Append(@, MoveHeader)]
  /\ cpc' = [cpc EXCEPT ![p] = "payload"]
  /\ UNCHANGED <<serverVars, playerno, says, s2c>>

SendPayload(p) ==
  /\ cpc[p] = "payload"
  /\ c2s' = [c2s EXCEPT ![p] = Append(@, MovePayload(choice[p]))]
  /\ choice' = [choice EXCEPT ![p] = Origin]   \* x and y go out of scope
  /\ cpc' = [cpc EXCEPT ![p] = "recv"]
  /\ UNCHANGED <<serverVars, playerno, view, says, s2c>>

ReceiveEnd(p) ==
  /\ cpc[p] = "recv"
  /\ s2c[p] = <<>>
  /\ spc \in Stopped
  /\ cpc' = [cpc EXCEPT ![p] = "done"]
  /\ UNCHANGED <<serverVars, playerno, view, choice, says, s2c, c2s>>

ClientStep(p) ==
  \/ Connect(p)
  \/ ReceiveReady(p) \/ ReceiveTurn(p) \/ ReceiveState(p) \/ ReceiveResult(p)
  \/ Choose(p) \/ SendPayload(p) \/ ReceiveEnd(p)

(* The user stops a connected client: its memory is gone, and the kernel   *)
(* closes its connection.  What it has sent is still delivered.            *)
Crash(p) ==
  /\ p \in MayCrash
  /\ cpc[p] \in {"recv", "input", "payload"}
  /\ cpc' = [cpc EXCEPT ![p] = "crashed"]
  /\ s2c' = [s2c EXCEPT ![p] = <<>>]
  /\ view' = [view EXCEPT ![p] = EmptyBoard]
  /\ choice' = [choice EXCEPT ![p] = Origin]
  /\ UNCHANGED <<serverVars, playerno, says, c2s>>

----------------------------------------------------------------------------

Terminated ==
  /\ spc \in Stopped
  /\ \A p \in Players : cpc[p] \in {"done", "crashed"}
  /\ UNCHANGED vars

Next ==
  \/ ServerStep
  \/ \E p \in Players : ClientStep(p) \/ Crash(p)
  \/ Terminated

Spec == Init /\ [][Next]_vars

(* The processes run, and each user connects and eventually types a legal  *)
(* cell: the scanf loop of the client ends.  Nobody has to crash.          *)
Fairness == WF_vars(ServerStep) /\ \A p \in Players : WF_vars(ClientStep(p))

FairSpec == Spec /\ Fairness

----------------------------------------------------------------------------
(* Properties.                                                             *)

Sent(p, m) == \E i \in DOMAIN s2c[p] : s2c[p][i] = m
StillToSend(p) == spc = "state1" \/ (spc = "state2" /\ p = 2)
OnItsWay(p, c) == Sent(p, State(c, board[c])) \/ (StillToSend(p) /\ move = c)
InFlight(p, c) ==
  \/ cpc[p] = "payload" /\ choice[p] = c
  \/ \E i \in DOMAIN c2s[p] : c2s[p][i] = MovePayload(c)

(* A client's board never says anything the server's does not: a mark on   *)
(* the server's board is on the client's or in a STATE_UPDATE on its way,  *)
(* and a mark on the client's is the server's, or is about to be replaced, *)
(* or is the client's own move that the server has not read (server lines  *)
(* 87-90, client lines 66 and 79-82).  A server killed in the middle of    *)
(* its two notifications has no more to say.                               *)
ViewsFollowBoard ==
  spc # "failed" =>
    \A p \in Players : cpc[p] # "crashed" =>
      \A c \in Cells :
        /\ board[c] # 0 => view[p][c] = board[c] \/ OnItsWay(p, c)
        /\ view[p][c] # 0 =>
             view[p][c] = board[c] \/ OnItsWay(p, c) \/ InFlight(p, c)

HoldsTurn(p) ==
  \/ Sent(p, YourTurn)
  \/ cpc[p] \in {"input", "payload"}
  \/ c2s[p] # <<>>

(* At most one player holds the turn, from the TURN_NOTIFICATION sent to   *)
(* it until the server has taken its whole MOVE, and it is the player the  *)
(* server reads from (server lines 60-63): nothing else orders the moves.  *)
OneMover == \A p \in Players : HoldsTurn(p) => p = turn /\ spc \in {"header", "payload"}

(* The server marks whatever cell a MOVE names (line 87).  It overwrites a *)
(* mark only in the move of a player who stopped between the sends of its  *)
(* header and its payload, when no cell was received at all (line 80).     *)
NoOverwrite ==
  [][\A c \in Cells : board[c] # 0 /\ board'[c] # board[c] => cpc[turn] = "crashed"]_vars

(* The two verdicts printed at RESULT fit together: one wins and the other *)
(* loses, or both tie, and none is printed by a client that was never told *)
(* its number (client lines 55 and 84-93).                                 *)
VerdictsOpposite ==
  \A p \in Players : says[p] # "none" =>
    /\ playerno[p] = p
    /\ says[Other(p)] \in {"none", CASE says[p] = "win"  -> "lose"
                                     [] says[p] = "lose" -> "win"
                                     [] says[p] = "tie"  -> "tie"}

(* A client whose connection ends without a RESULT had an opponent who was *)
(* stopped: the server never gives up on two live players (lines 63-76).   *)
NoSilentEnd ==
  \A p \in Players :
    cpc[p] = "done" /\ says[p] = "none" => cpc[Other(p)] = "crashed"

(* check() names a player only if that player owns a line: the comment of  *)
(* server.c:109 says it returns 1 if player 1 wins and 2 if player 2 wins. *)
WinnerOwnsLine == status \in Players => OwnsLine(board, status)

Game == INSTANCE TicTacToeGame

(* Without crashes the server's board and status go through a game of      *)
(* tic-tac-toe: moves alternate, only empty cells are marked, no move is   *)
(* asked for on a decided board, and a tie is announced exactly when there *)
(* is no line.                                                             *)
PlaysGame == Game!Spec

(* With two live players who keep typing, both hear a verdict and both     *)
(* connections are closed.                                                 *)
BothHearVerdict == <>(\A p \in Players : cpc[p] = "done" /\ says[p] # "none")

(* Whoever is stopped and whenever, a connected client is not left waiting *)
(* for ever: the server ends, by itself or by SIGPIPE, and it sees the end *)
(* of its connection (server lines 63-71, client lines 45-48).             *)
SurvivorReleased ==
  \A p \in Players : cpc[p] # "start" ~> cpc[p] \in {"done", "crashed"}

----------------------------------------------------------------------------
(* The inductive invariant behind OneMover and NoOverwrite.                *)

Quiet(p) ==
  ~Sent(p, YourTurn) /\ cpc[p] \notin {"input", "payload"} /\ c2s[p] = <<>>

(* The stages of a move: notified, typing, half sent (and then half read), *)
(* sent, half read; a crash leaves what had been sent.                     *)
Notified(p) ==
  /\ spc = "header" /\ cpc[p] \notin {"input", "payload", "crashed"}
  /\ Sent(p, YourTurn) /\ c2s[p] = <<>>
Typing(p) ==
  spc = "header" /\ cpc[p] = "input" /\ s2c[p] = <<>> /\ c2s[p] = <<>>
HalfSent(p) ==
  /\ ~Sent(p, YourTurn)
  /\ \/ spc = "header" /\ cpc[p] \in {"payload", "crashed"} /\ c2s[p] = <<MoveHeader>>
     \/ spc = "payload" /\ cpc[p] = "payload" /\ c2s[p] = <<>>
WhollySent(p) ==
  /\ ~Sent(p, YourTurn)
  /\ cpc[p] \in {"recv", "crashed"}
  /\ \E c \in Cells :
       \/ spc = "header" /\ c2s[p] = <<MoveHeader, MovePayload(c)>>
       \/ spc = "payload" /\ c2s[p] = <<MovePayload(c)>>

MoveStages ==
  \A p \in Players :
    \/ Quiet(p)
    \/ p = turn /\ (Notified(p) \/ Typing(p) \/ HalfSent(p) \/ WhollySent(p))

(* Nothing follows a TURN_NOTIFICATION until the move is made.             *)
TurnIsLast ==
  \A p \in Players : \A i \in DOMAIN s2c[p] :
    s2c[p][i] = YourTurn => i = Len(s2c[p])

(* A live client has been told, or will be before its next turn, of every  *)
(* mark.                                                                   *)
Told(p, c) ==
  \/ view[p][c] # 0
  \/ \E q \in Players : Sent(p, State(c, q))
  \/ StillToSend(p) /\ move = c

Informed ==
  spc # "failed" =>
    \A p \in Players, c \in Cells :
      cpc[p] # "crashed" /\ board[c] # 0 => Told(p, c)

(* A cell a client has chosen stays empty until the server marks it.       *)
ChoiceIsFree == \A p \in Players, c \in Cells : InFlight(p, c) => board[c] = 0

ResultIsKnown == spc \in {"result1", "result2"} => status # -1

SafetyInv ==
  TypeOK /\ MoveStages /\ TurnIsLast /\ Informed /\ ChoiceIsFree /\ ResultIsKnown

----------------------------------------------------------------------------
(* The inductive invariant behind VerdictsOpposite and NoSilentEnd.        *)

StatusIsFinal == status # -1 => spc \in {"result1", "result2"} \cup Stopped

(* READY is the first that a client is sent, and names that client.        *)
Numbered ==
  \A p \in Players :
    /\ \A i \in DOMAIN s2c[p] : s2c[p][i].type = "READY" => s2c[p][i].no = p
    /\ \/ cpc[p] = "crashed"
       \/ playerno[p] = p
       \/ s2c[p] # <<>> /\ s2c[p][1] = Ready(p)
       \/ /\ s2c[p] = <<>>
          /\ spc \in {"accept", "ready1", "failed"} \/ (spc = "ready2" /\ p = 2)

Verdict(p) == IF status = p THEN "win" ELSE IF status = 0 THEN "tie" ELSE "lose"

(* What a client is told of the end, or has printed, is what check() said. *)
ResultsTrue ==
  \A p \in Players :
    /\ \A i \in DOMAIN s2c[p] :
         s2c[p][i].type = "RESULT" => status # -1 /\ s2c[p][i] = Result(status)
    /\ says[p] # "none" => playerno[p] = p /\ status # -1 /\ says[p] = Verdict(p)

(* The server ends because a player was stopped, or has told both.         *)
HearsResult(p) == says[p] # "none" \/ Sent(p, Result(status))
EndHasReason ==
  \/ \E q \in Players : cpc[q] = "crashed"
  \/ /\ spc = "result2" => HearsResult(1)
     /\ spc \in Stopped => \A p \in Players : HearsResult(p)

VerdictInv == StatusIsFinal /\ Numbered /\ ResultsTrue /\ EndHasReason /\ NoSilentEnd

----------------------------------------------------------------------------
(* The inductive invariant behind ViewsFollowBoard.                        *)

MoveIsMarked == spc \in {"state1", "state2"} => board[move] = turn

(* A cell may be marked twice (see NoOverwrite), but the last STATE_UPDATE *)
(* of a cell in a queue is the true one.                                   *)
InOrder(queue, c, mark) ==
  \A i \in DOMAIN queue, p \in Players :
    queue[i] = State(c, p) =>
      p = mark \/ \E j \in DOMAIN queue : j > i /\ queue[j] = State(c, mark)

UpToDate(p, c) ==
  \/ view[p][c] = board[c]
  \/ Sent(p, State(c, board[c]))
  \/ board[c] = 0 /\ InFlight(p, c)

ViewsUpdated ==
  spc # "failed" =>
    \A p \in Players, c \in Cells :
      \/ cpc[p] = "crashed"
      \/ StillToSend(p) /\ move = c
      \/ InOrder(s2c[p], c, board[c]) /\ UpToDate(p, c)

ViewInv == MoveIsMarked /\ ViewsUpdated

----------------------------------------------------------------------------
(* The inductive invariant behind PlaysGame, when nobody may be stopped.   *)

(* Before the mark of a move, and from its mark until it is judged.        *)
Asking == spc \in {"accept", "ready1", "ready2", "turn", "header", "payload"}
Judging == spc \in {"state1", "state2", "check"}

MovesAlternate ==
  /\ Game!Marks(1) \in {Game!Marks(2), Game!Marks(2) + 1}
  /\ Asking => turn = Game!ToMove
  /\ Judging => turn = Other(Game!ToMove)

Undecided == Asking => ~Decided(board)
NobodyStopped == \A p \in Players : cpc[p] # "crashed"

GameInv == NobodyStopped /\ MovesAlternate /\ Undecided
=============================================================================
