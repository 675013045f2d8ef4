------------------------------ MODULE Clients ------------------------------
(* The clients of ClientScripts against servers that answer each command   *)
(* in turn, well or badly, and may close a connection that is idle. An     *)
(* answer arrives whole, in two pieces, or together with the next; each    *)
(* client has its own way to find the end of one.                          *)
EXTENDS ClientScripts, Naturals, FiniteSets

CONSTANTS Progs,            \* the programs that are run, one in each behaviour
          MaxBehind         \* bound: how much may be unread when the user goes on
ASSUME ProgsAssumption == Progs \subseteq Programs
ASSUME BehindAssumption == MaxBehind \in Nat

VARIABLES prog, op, at,     \* the program, its operation, the step it is at
          state,            \* running | menu | over | killed
          result,           \* what the last operation returned
          peer, conn,       \* the server, and its end of the connection
          sent, inbox,      \* commands on their way, pieces of answers that have come
          mode, data, file, \* the server, the data connection, the local file
          done, faults      \* what this operation achieved; what has happened on the way

client == <<prog, op, at, state, result>>
server == <<sent, inbox, mode, data, done>>
vars == <<client, peer, conn, server, file, faults>>

Pipe(p) == p \in {"ftp", "http"}
Modes == {"ready", "rcpt", "mail", "LIST", "RETR", "STOR", "over"}
Faults == {"cut", "merged", "unset", "open"}

Operations(p) == {"start"} \cup DOMAIN Menu[p]
NoCode == ""              \* what a piece holds that has no code
Words == {"connect", "USER", "PASS", "PASV", "LIST", "RETR", "STOR", "DELE", "CWD", "STAT", "QUIT",
          "HELO", "MAIL", "RCPT", "DATA", "text", ".", "GET", "Host", "end"}
Codes == {"220", "331", "230", "227", "150", "250", "354", "221", "500", "+OK", "200",
          "226", "426", "421", "err", "line", ".", "more", NoCode}
Commands == [cmd : Words, own : BOOLEAN]
Pieces == [own : BOOLEAN, code : Codes, part : {"all", "head", "rest"}, eol : BOOLEAN]

ProgramOK ==
  /\ prog \in Programs /\ op \in Operations(prog)
  /\ at \in 1..Len(Script(prog, op)) + 1
  /\ state \in {"running", "menu", "over", "killed"}
  /\ state = "running" => at <= Len(Script(prog, op))
  /\ result \in {"none", "ok", "failed"}
NetworkOK ==
  /\ peer \in {"none", "ftp", "smtp", "pop3", "http"}
  /\ conn \in {"none", "open", "ended", "broken"}
  /\ sent \in Seq(Commands) /\ inbox \in Seq(Pieces)
  /\ mode \in Modes /\ data \in {"none", "asked", "up", "moving", "end", "closed"}
  /\ file \in {"none", "open", "whole"}
  /\ faults \subseteq Faults
TypeOK == ProgramOK /\ NetworkOK

Begin(o) ==
  /\ op' = o /\ at' = 1 /\ result' = "none"
  /\ done' = {} /\ file' = "none"

Init ==
  /\ prog \in Progs /\ op = "start" /\ at = 1 /\ result = "none"
  /\ state = IF Start[prog] = <<>> THEN "menu" ELSE "running"
  /\ peer = "none" /\ conn = "none" /\ sent = <<>> /\ inbox = <<>>
  /\ mode = "ready" /\ data = "none" /\ file = "none" /\ done = {} /\ faults = {}
----------------------------------------------------------------------------
(* The program that runs the steps. *)

Here(do) == state = "running" /\ Script(prog, op)[at].do = do
This == Script(prog, op)[at]

\* Wrong: the end of an operation is not seen.
NeverLast == FALSE
Last == at = Len(Script(prog, op))

HasMenu == DOMAIN Menu[prog] # {"quit"}
Returns(r) ==
  /\ result' = r
  /\ state' = IF HasMenu /\ op # "quit" /\ (op = "start" => r = "ok") THEN "menu" ELSE "over"

Go ==
  /\ at' = at + 1
  /\ IF Last THEN Returns("ok") ELSE UNCHANGED <<state, result>>
  /\ UNCHANGED <<prog, op>>
Fail == Returns("failed") /\ UNCHANGED <<prog, op, at>>
Stay == UNCHANGED <<prog, op, at, state, result>>
GoOr(ok) == IF ok THEN Go ELSE Fail

Old(s) == [i \in DOMAIN s |-> [s[i] EXCEPT !.own = FALSE]]

\* The user's choice, at any time; at the end of input scanf() repeats the last.
Choose ==
  /\ state = "menu" /\ Len(sent) + Len(inbox) <= MaxBehind
  /\ \E o \in DOMAIN Menu[prog] :
       Begin(o) /\ state' = IF o = "quit" /\ Menu[prog][o] = <<>> THEN "over" ELSE "running"
  /\ sent' = Old(sent) /\ inbox' = Old(inbox)
  /\ UNCHANGED <<prog, peer, conn, mode, data, faults>>

\* dns_resolve_a(): no answer, or one. An answer without an address leaves the old
\* text in ip_str, or what was in the memory: the connection may still be made.
ResolveName ==
  /\ Here("resolve") /\ (Fail \/ Go)
  /\ UNCHANGED <<peer, conn, server, file, faults>>

ConnectTo ==
  /\ Here("connect")
  /\ \/ /\ Go /\ peer' = This.what /\ conn' = "open"
        /\ sent' = <<[cmd |-> "connect", own |-> TRUE]>> /\ inbox' = <<>>
        /\ mode' = "ready" /\ data' = "none"
     \/ Fail /\ UNCHANGED <<peer, conn, sent, inbox, mode, data>>
  /\ UNCHANGED <<done, file, faults>>

\* After the server has closed, a send() is lost, and one that comes after its reset kills.
SendOn ==
  /\ Here("send")
  /\ \/ /\ conn = "open" /\ Go
        /\ sent' = Append(Old(sent), [cmd |-> This.what, own |-> TRUE])
        /\ inbox' = Old(inbox) /\ UNCHANGED conn
     \/ /\ conn \in {"ended", "broken"} /\ Go /\ conn' = "broken"
        /\ inbox' = Old(inbox) /\ UNCHANGED sent
     \/ /\ conn = "broken" /\ state' = "killed"
        /\ UNCHANGED <<prog, op, at, result, conn, sent, inbox>>
  /\ UNCHANGED <<peer, mode, data, done, file, faults>>
----------------------------------------------------------------------------
(* Reading: how many of the pieces that have come are read as one answer. *)

RawRead(n)  == n >= 1
CrlfRead(n) == inbox[n].eol
LineRead(n) == inbox[n].eol /\ \A k \in 1..n-1 : ~inbox[k].eol
Readable ==
  {n \in 1..Len(inbox) : CASE Pipe(peer) -> RawRead(n)
                           [] peer = "smtp" -> CrlfRead(n)
                           [] OTHER -> LineRead(n)}

\* Wrong: a reader that does not look at a result of 0.
EndUnseen == FALSE
AtEnd == conn # "open" /\ Readable = {}

Amiss(n) ==
  (IF inbox[n].part = "head" THEN {"cut"} ELSE {}) \cup
  (IF \E k \in 2..n : inbox[k].part # "rest" THEN {"merged"} ELSE {})

\* Wrong: a code is taken for right whatever it is.
TakesAny(code) == TRUE
Takes(code) == code = This.ok

ReadReply ==
  /\ \/ Here("read") /\ \E n \in Readable :
          /\ inbox' = SubSeq(inbox, n + 1, Len(inbox))
          /\ \/ GoOr(Takes(inbox[1].code)) /\ faults' = faults \cup Amiss(n)
             \/ /\ peer = "ftp" /\ inbox[1].code = NoCode /\ This.unset
                /\ Go /\ faults' = faults \cup Amiss(n) \cup {"unset"}
     \/ Here("read") /\ AtEnd /\ UNCHANGED inbox
        /\ \/ Fail /\ UNCHANGED faults
           \/ This.unset /\ Go /\ faults' = faults \cup {"unset"}
     \/ Here("skip") /\ \E n \in Readable :
          /\ Go /\ inbox' = SubSeq(inbox, n + 1, Len(inbox)) /\ faults' = faults \cup Amiss(n)
     \/ Here("skip") /\ AtEnd /\ Go /\ UNCHANGED <<inbox, faults>>
  /\ UNCHANGED <<peer, conn, sent, mode, data, done, file>>

\* A line that fills the buffer ends the list early.
ReadLines ==
  /\ Here("lines")
  /\ \/ AtEnd /\ Go /\ UNCHANGED <<inbox, faults>>
     \/ \E n \in Readable :
          /\ IF inbox[n].code = "." \/ inbox[n].part = "head" THEN Go ELSE Stay
          /\ inbox' = SubSeq(inbox, n + 1, Len(inbox)) /\ faults' = faults \cup Amiss(n)
  /\ UNCHANGED <<peer, conn, sent, mode, data, done, file>>

\* The answer to PASV has to come in one piece; the port may be one the server has left.
EnterPassive ==
  /\ Here("enter")
  /\ \/ AtEnd /\ Fail /\ UNCHANGED <<inbox, faults, data>>
     \/ \E n \in Readable :
          /\ inbox' = SubSeq(inbox, n + 1, Len(inbox)) /\ faults' = faults \cup Amiss(n)
          /\ \/ Takes(inbox[1].code) /\ (inbox[1].part = "all" \/ n > 1) /\ Go
                /\ data' = IF inbox[1].own /\ data = "asked" THEN "up" ELSE data
             \/ Fail /\ UNCHANGED data
  /\ UNCHANGED <<peer, conn, sent, mode, done, file>>

\* http_get_status(): one recv(). Without the end of the header strstr() finds
\* nothing, unless it finds it in the old memory that follows.
ReceivePage ==
  /\ Here("http") /\ (Readable # {} \/ AtEnd)
  /\ \/ Go
     \/ /\ AtEnd \/ \E n \in Readable : \A k \in 1..n : inbox[k].code = NoCode
        /\ state' = "killed" /\ UNCHANGED <<prog, op, at, result>>
  /\ inbox' = <<>>
  /\ UNCHANGED <<peer, conn, sent, mode, data, done, file, faults>>

----------------------------------------------------------------------------
(* The data connection and the local file. *)

CreateFile ==
  /\ Here("create")
  /\ \/ Go /\ file' = "open" /\ UNCHANGED faults
     \/ This.what = "checked" /\ Fail /\ faults' = faults \cup {"open"} /\ UNCHANGED file
     \/ This.what = "unchecked" /\ Go /\ faults' = faults \cup {"open"} /\ UNCHANGED file
  /\ UNCHANGED <<peer, conn, server>>

FetchData ==
  /\ Here("fetch") /\ (data \notin {"up", "moving"} \/ conn # "open")
  /\ Go /\ data' = "closed"
  /\ file' = IF file = "open" /\ data = "end" THEN "whole" ELSE file
  /\ UNCHANGED <<peer, conn, sent, inbox, mode, done, faults>>

\* ftp_stor(): recv() on the descriptor of a file fails at once, so nothing is sent.
UploadNothing ==
  /\ Here("upload")
  /\ Go /\ data' = "closed"
  /\ UNCHANGED <<peer, conn, sent, inbox, mode, done, file, faults>>
----------------------------------------------------------------------------
(* The servers. *)

Good ==
  [ftp  |-> [c \in {"connect", "USER", "PASS", "PASV", "LIST", "RETR", "STOR", "DELE", "CWD"} |->
              CASE c = "connect" -> "220" [] c = "USER" -> "331" [] c = "PASS" -> "230"
                [] c = "PASV" -> "227" [] c \in {"LIST", "RETR", "STOR"} -> "150"
                [] OTHER -> "250"],
   smtp |-> [c \in {"connect", "HELO", "MAIL", "RCPT", "DATA", "QUIT", ".", "text"} |->
              CASE c = "connect" -> "220" [] c = "DATA" -> "354" [] c = "QUIT" -> "221"
                [] c = "text" -> "500" [] OTHER -> "250"],
   pop3 |-> [c \in {"connect", "USER", "PASS", "STAT", "LIST", "RETR", "QUIT"} |-> "+OK"],
   http |-> [c \in {"end"} |-> "200"]]

Piece(own, code, part, eol) == [own |-> own, code |-> code, part |-> part, eol |-> eol]
\* An answer in one piece, one cut in two, one of two lines, and one that is longer
\* than the buffer for it. A page that is cut may lack the end of its header.
Shapes(own, code) ==
  {<<Piece(own, code, "all", TRUE)>>} \cup
  (IF Len(inbox) > MaxBehind THEN {} ELSE
   {<<Piece(own, c, "head", FALSE), Piece(own, NoCode, "rest", TRUE)>> :
        c \in {code} \cup (IF peer = "http" THEN {NoCode} ELSE {})}
   \cup (IF peer = "ftp" THEN {<<Piece(own, code, "head", TRUE), Piece(own, code, "rest", TRUE)>>}
         ELSE IF peer = "smtp"
         THEN {<<Piece(own, "more", "head", TRUE), Piece(own, code, "rest", TRUE)>>,
               <<Piece(own, code, "head", TRUE), Piece(own, NoCode, "rest", TRUE)>>}
         ELSE IF peer = "pop3" /\ prog # "pop3"
         THEN {<<Piece(own, code, "head", TRUE), Piece(own, NoCode, "rest", TRUE)>>}
         ELSE {}))
Listing(own) ==
  {<<Piece(own, "line", "all", TRUE), Piece(own, ".", "all", TRUE)>>} \cup
  (IF Len(inbox) > MaxBehind THEN {} ELSE
   {<<Piece(own, "line", "head", TRUE), Piece(own, "line", "rest", TRUE),
      Piece(own, ".", "all", TRUE)>>})
\* What the server says to a program that never reads is not kept.
Unheard == prog \in {"toolkit", "fulltest"} /\ peer = "smtp"
Reply(own, code) ==
  IF Unheard THEN UNCHANGED inbox ELSE \E s \in Shapes(own, code) : inbox' = inbox \o s

\* The commands with an effect that a property is about.
Effects == {"LIST", "RETR", "STOR", "DELE", ".", "STAT"}
Answer ==
  /\ conn = "open" /\ sent # <<>> /\ mode \notin {"LIST", "RETR", "STOR"}
  /\ sent' = Tail(sent)
  /\ LET c == Head(sent).cmd
         own == Head(sent).own
         silent == (peer = "http" /\ c # "end") \/ (peer = "smtp" /\ mode = "mail" /\ c # ".")
         listed == peer = "pop3" /\ c \in {"LIST", "RETR"}
         needs == /\ c \in {"LIST", "RETR", "STOR"} /\ peer = "ftp" => data = "up"
                  /\ c = "DATA" => mode = "rcpt"
                  /\ peer = "smtp" /\ c = "." => mode = "mail"
     IN \/ silent /\ UNCHANGED <<inbox, mode, data, done, conn>>
        \/ /\ ~silent /\ needs
           /\ IF listed
              THEN \E s \in Listing(own) : inbox' = inbox \o <<Piece(own, "+OK", "all", TRUE)>> \o s
              ELSE Reply(own, Good[peer][c])
           /\ mode' = CASE c = "RCPT" -> "rcpt" [] c = "DATA" -> "mail" [] c = "." -> "ready"
                        [] peer = "ftp" /\ c \in {"LIST", "RETR", "STOR"} -> c
                        [] OTHER -> mode
           /\ data' = CASE c = "PASV" -> "asked"
                        [] peer = "ftp" /\ c \in {"LIST", "RETR", "STOR"} -> "moving"
                        [] OTHER -> data
           /\ done' = IF own /\ c \in Effects THEN done \cup {c} ELSE done
           /\ conn' = IF c = "QUIT" THEN "ended" ELSE conn
        \/ /\ ~silent /\ Reply(own, "err")
           /\ mode' = IF mode = "mail" THEN "ready" ELSE mode
           /\ UNCHANGED <<data, done, conn>>
  /\ UNCHANGED <<client, peer, file, faults>>

\* A transfer ends well or, also if the client does not take it, badly. A file that
\* is received ends when the client closes.
EndTransfer ==
  /\ conn = "open" /\ mode \in {"LIST", "RETR", "STOR"}
  /\ LET own == mode \in done /\ sent = <<>> IN \E code \in {"226", "426"} :
       /\ code = "226" /\ mode = "STOR" => data = "closed"
       /\ Reply(own, code)
       /\ data' = IF data = "closed" THEN data ELSE IF code = "226" THEN "end" ELSE "none"
       /\ done' = IF code = "226" /\ own THEN done \cup {"226"} ELSE done
  /\ mode' = "ready"
  /\ UNCHANGED <<client, peer, conn, sent, file, faults>>

\* A server closes a connection on which it waits for a command, with a word or without.
CloseIdle ==
  /\ conn = "open" /\ sent = <<>> /\ mode \notin {"LIST", "RETR", "STOR"}
  /\ conn' = "ended"
  /\ \/ UNCHANGED inbox
     \/ ~Unheard /\ inbox' = Append(inbox, Piece(FALSE, "421", "all", TRUE))
  /\ UNCHANGED <<client, peer, sent, mode, data, done, file, faults>>
----------------------------------------------------------------------------
Client == \/ ResolveName \/ ConnectTo \/ SendOn \/ ReadReply \/ ReadLines \/ EnterPassive
          \/ ReceivePage \/ CreateFile \/ FetchData \/ UploadNothing
Server == Answer \/ EndTransfer \/ CloseIdle
Rest == state \in {"menu", "over", "killed"} /\ UNCHANGED vars

Next == Choose \/ Client \/ Server \/ Rest
Spec == Init /\ [][Next]_vars
FairSpec == Spec /\ WF_vars(Client) /\ WF_vars(Answer) /\ WF_vars(EndTransfer) /\ WF_vars(CloseIdle)
----------------------------------------------------------------------------
(* An operation is answered by its own replies. An FTP client that read    *)
(* two replies as one, or half of one, or left before the last (a local    *)
(* file that could not be opened, ftp_client.c:172), takes the next answer *)
(* for another's from then on; the others lose count only by an answer     *)
(* longer than their buffer, and SMTP by a line of the mail that is a dot. *)
Excuses == IF peer = "ftp" THEN {"cut", "merged", "open"} ELSE {"cut"}
InCount == faults \cap Excuses = {} /\ prog # "dotmail"
OwnReply ==
  [][InCount /\ (Here("read") \/ Here("enter") \/ Here("skip")) /\ Len(inbox') < Len(inbox)
       => inbox[1].own \/ inbox[1].code = "421"]_vars

(* What an operation reports done was done by the server in this very      *)
(* operation, even if the client has lost count before: a transfer was     *)
(* started and completed, the file is whole, and a mail in which no line   *)
(* is a dot was taken. For DELE alone the client must not have lost count, *)
(* nor have read its code from a variable that no reply had set            *)
(* (ftp_client.c:230-240).                                                 *)
Transferred(c) == {c, "226"} \subseteq done
SuccessIsReal ==
  result = "ok" =>
    /\ op = "get" => Transferred("RETR") /\ file = "whole"
    /\ op = "list" /\ prog = "ftp" => Transferred("LIST")
    /\ op = "put" => Transferred("STOR")
    /\ op = "delete" /\ "unset" \notin faults /\ InCount => "DELE" \in done
    /\ prog = "mail" => "." \in done
    /\ prog = "fulltest" \/ op = "ftp" =>
         "LIST" \in done /\ Transferred("RETR") /\ (file = "whole" \/ "open" \in faults)

(* No operation waits for ever, although a client that has lost count      *)
(* waits for answers that nobody will send: the server closes an idle      *)
(* connection, and every read of every client sees that.                   *)
Ends == state = "running" ~> state # "running"
=============================================================================
