--------------------------- MODULE ClientsProofs ---------------------------
(***************************************************************************)
(* Theorems about Clients, for any set of the programs and any number of   *)
(* replies that may be unread when the user goes on: the types, that what  *)
(* a client reports done was done, and that a client that has not lost     *)
(* count is answered by its own replies.                                   *)
(***************************************************************************)
EXTENDS Clients, TLAPS, SequenceTheorems

(* The inductive invariant behind SuccessIsReal. *)

Transfers == {"LIST", "RETR", "STOR"}
Unread(code) == \E i \in 1..Len(inbox) : inbox[i].code = code

Results ==
  /\ state = "running" => result = "none"
  /\ state = "menu" => HasMenu

\* Where a program talks to a server, it has connected to the right one.
Joined(p, o, i) == CASE p = "toolkit" -> o \in {"http", "ftp", "smtp", "pop3"} /\ i >= 3
                     [] p = "fulltest" -> i >= 6
                     [] OTHER -> o # "start" \/ i >= 2
Host(p, o, i) == CASE p \in {"ftp", "pop3"} -> p
                   [] p = "toolkit" -> o
                   [] p = "fulltest" -> IF i <= 11 THEN "http" ELSE IF i <= 31 THEN "ftp"
                                        ELSE IF i <= 41 THEN "smtp" ELSE "pop3"
                   [] OTHER -> "smtp"
Understood(h) == IF h = "http" THEN {"connect", "GET", "Host", "end"} ELSE DOMAIN Good[h]
AtHost ==
  IF Joined(prog, op, at) THEN peer = Host(prog, op, at)
  ELSE prog \notin {"toolkit", "fulltest"} => peer = "none" /\ state # "menu"
Connected ==
  /\ peer = "none" => conn = "none" /\ sent = <<>>
  /\ \A k \in 1..Len(sent) : sent[k].cmd \in Understood(peer)

\* Own is the last command, and its answer.
OwnIsLast ==
  /\ \A k \in 1..Len(sent) : sent[k].own => k = Len(sent)
  /\ \A i \in 1..Len(inbox) : inbox[i].own => sent = <<>>
----------------------------------------------------------------------------
(* FTP. The steps of a transfer: PASV, "enter", the order, its mark, what  *)
(* is done with the data, and the final reply.                             *)

AtFtp == /\ peer = "ftp"
         /\ \/ prog = "ftp"
            \/ prog = "toolkit" /\ op = "ftp" /\ at >= 3
            \/ prog = "fulltest" /\ at \in 12..29
Ordered(p, o, i) ==
  CASE o = "get" -> "RETR" [] o = "put" -> "STOR" [] o = "list" -> "LIST"
    [] o = "ftp" /\ i >= 14 -> "RETR"
    [] p = "fulltest" /\ i >= 23 -> "RETR"
    [] OTHER -> "LIST"
Cmd == Ordered(prog, op, at)
Order == Here("send") /\ This.what \in Transfers
Mark == Here("read") /\ This.ok = "150"
Moving == Here("create") \/ Here("fetch") \/ Here("upload")
Final == Here("read") /\ This.ok = "226"

FtpServer ==
  /\ mode \in Transfers => conn = "open" /\ data \in {"moving", "closed"}
  /\ conn # "open" => sent = <<>>
  /\ Unread("421") => conn # "open"
LastSent ==
  state = "running" /\ at > 1 /\ sent # <<>> /\ Script(prog, op)[at - 1].do = "send"
    => sent[Len(sent)] = [cmd |-> Script(prog, op)[at - 1].what, own |-> TRUE]

\* The data connection is up only if the answer to the last PASV was read as such,
\* and then nothing of an earlier operation is left; so no answer to PASV is
\* followed by the mark or the end of a transfer that began before it.
AfterPort ==
  /\ \A i, j \in 1..Len(inbox) : i < j /\ inbox[i].code = "227" => inbox[j].code \notin {"150", "226"}
  /\ mode \in Transfers => ~Unread("227")
Ports ==
  /\ data = "up" => ~Unread("227")
  /\ AfterPort
  /\ data = "up" /\ (\E k \in 1..Len(sent) : sent[k].cmd \in Transfers)
       => Mark /\ Len(sent) = 1 /\ inbox = <<>>
AnswersPort ==
  Here("enter") => \A i \in 1..Len(inbox) : inbox[i].own /\ inbox[i].code = "227" =>
    /\ data = "asked" /\ mode \notin Transfers
    /\ \A j \in i+1..Len(inbox) : inbox[j].code = "421" \/ (j = i + 1 /\ inbox[i].part = "head")

\* No more will be read on this connection.
Dead == conn # "open" /\ inbox = <<>>
\* The server has taken the order and moves data, or has ended it, well or badly.
Course == \/ mode = Cmd /\ data = "moving" /\ ~Unread("226")
          \/ mode \notin Transfers /\ data = "end" /\ "226" \in done
          \/ mode \notin Transfers /\ data = "none" /\ ~Unread("226")
Taken == Cmd \in done /\ sent = <<>> /\ Course
\* There was no transfer, and there will be none: a client that took the rest of some
\* answer for the mark goes on, but never to an end of 226.
NoTransfer == data # "up" /\ mode \notin Transfers /\ ~Unread("226")
Coded == inbox # <<>> => inbox[1].code # NoCode
\* A file was created, or the program did not look (ftp_module.c).
Unopened == prog # "ftp" /\ "open" \in faults
TransferIsReal ==
  /\ Order => /\ ~Unread("150")
              /\ data = "up" => sent = <<>> /\ \A i \in 1..Len(inbox) : inbox[i].code = "421"
              /\ data # "up" => NoTransfer
  /\ Mark => (~Unread("150") \/ Taken) /\ (NoTransfer \/ Coded)
  /\ Moving => Dead \/ Taken \/ NoTransfer
  /\ Here("fetch") /\ Cmd = "RETR" => file = "open" \/ Unopened
  /\ Final => \/ Dead \/ NoTransfer
              \/ /\ Cmd \in done /\ sent = <<>>
                 /\ mode \in Transfers => mode = Cmd /\ Cmd = "STOR"
                 /\ Unread("226") => "226" \in done /\ (Cmd = "RETR" => file = "whole" \/ Unopened)
FtpInv == OwnIsLast /\ FtpServer /\ LastSent /\ Ports /\ AnswersPort /\ TransferIsReal
Ftp == AtFtp => FtpInv

\* What the tests of the toolkit have passed.
Passed ==
  /\ (prog = "toolkit" /\ op = "ftp" /\ at >= 14) \/ (prog = "fulltest" /\ at >= 23)
       => "LIST" \in done
  /\ (prog = "toolkit" /\ op = "ftp" /\ at >= 21) \/ (prog = "fulltest" /\ at >= 30)
       => {"LIST", "RETR", "226"} \subseteq done /\ (file = "whole" \/ Unopened)
----------------------------------------------------------------------------
(* An FTP client that is in count: what is unread at each kind of step.    *)

Idle == mode \notin Transfers
Block(i, n) ==
  /\ i <= n /\ n <= Len(inbox)
  /\ \/ n = i /\ inbox[i].part = "all"
     \/ n = i + 1 /\ inbox[i].part = "head" /\ inbox[n].part = "rest"
\* An answer of the FTP server: its first piece has the code.
FtpBlock(i, n) == Block(i, n) /\ inbox[i].code # NoCode
Goodbyes(m) == \A i \in m..Len(inbox) : inbox[i].code = "421" /\ inbox[i].part = "all"

None == sent = <<>> /\ Idle /\ Goodbyes(1)
One == Idle /\ \/ Len(sent) = 1 /\ inbox = <<>>
               \/ sent = <<>> /\ \E n \in 1..Len(inbox) : FtpBlock(1, n) /\ Goodbyes(n + 1)
               \/ sent = <<>> /\ Dead
\* The mark of a transfer that is under way, or that has ended.
Two == /\ sent = <<>>
       /\ \E n \in 1..Len(inbox) :
            /\ FtpBlock(1, n) /\ inbox[1].code = "150"
            /\ \/ ~Idle /\ n = Len(inbox)
               \/ Idle /\ \E m \in n+1..Len(inbox) : FtpBlock(n + 1, m) /\ Goodbyes(m + 1)
InCourse == ~Idle /\ sent = <<>> /\ inbox = <<>>

InStep ==
  /\ state = "menu" \/ Here("send") => None
  /\ Mark => (One /\ ~Unread("150")) \/ Two
  /\ Moving \/ Final => One \/ InCourse
  /\ Here("enter") \/ Here("skip") \/ (Here("read") /\ ~Mark /\ ~Final) => One
  /\ op = "delete" /\ at = 2 /\ state = "running" /\ Unread("250") => "DELE" \in done
Synced == AtFtp /\ InCount => InStep
----------------------------------------------------------------------------
(* A mail. Behind the mark of DATA no reply can be unread, so that the 250 *)
(* which ends the mail is the answer to its dot.                           *)

BeforeData == ~Unread("354") /\ \A k \in 1..Len(sent) : sent[k].cmd # "DATA"
AfterData ==
  /\ \A k \in 1..Len(sent) : sent[k].cmd = "DATA" => k = Len(sent)
  /\ \A i \in 1..Len(inbox) : inbox[i].code = "354" =>
       sent = <<>> /\ mode = "mail" /\ \A j \in i+1..Len(inbox) : inbox[j].code \in {NoCode, "421"}
InMail ==
  /\ ~Unread("250") /\ (mode = "mail" \/ (at = 14 /\ sent = <<>>))
  /\ \A k \in 1..Len(sent) :
       sent[k].cmd = "text" \/ (at = 14 /\ k = Len(sent) /\ sent[k] = [cmd |-> ".", own |-> TRUE])
Mail ==
  prog = "mail" =>
    /\ at <= 9 => BeforeData
    /\ at = 10 => AfterData
    /\ at \in 11..14 => "." \in done \/ InMail
    /\ at >= 15 => "." \in done

Base == TypeOK /\ Results /\ AtHost /\ Connected
RealInv == Base /\ Ftp /\ Passed /\ Synced /\ Mail /\ SuccessIsReal
----------------------------------------------------------------------------
(* The scripts. *)

\* The parts of a step (ClientScripts).
LEMMA Parts ==
  /\ \A c : Send(c).do = "send" /\ Send(c).what = c
  /\ \A c : Read(c).do = "read" /\ Read(c).ok = c /\ Read(c).unset = FALSE
  /\ \A c : ReadNew(c).do = "read" /\ ReadNew(c).ok = c /\ ReadNew(c).unset = TRUE
  /\ \A c : Connect(c).do = "connect" /\ Connect(c).what = c
  /\ \A c : Create(c).do = "create" /\ Create(c).what = c
  /\ \A c : Resolve(c).do = "resolve"
  /\ Enter.do = "enter" /\ Enter.ok = "227"
  /\ Skip.do = "skip" /\ Lines.do = "lines" /\ Fetch.do = "fetch" /\ Upload.do = "upload"
  /\ Receive.do = "http"
  BY DEF Send, Read, ReadNew, Connect, Create, Resolve, Enter, Skip, Lines, Fetch, Upload,
         Receive, Step

\* What an operation of ftp_client.c is made of.
LEMMA FtpScripts ==
  /\ LET s == Script("ftp", "start") IN
       /\ Len(s) = 6 /\ s[1] = Connect("ftp") /\ s[2] = Skip
       /\ s[3] = Send("USER") /\ s[4] = ReadNew("331") /\ s[5] = Send("PASS") /\ s[6] = Read("230")
  /\ LET s == Script("ftp", "list") IN
       /\ Len(s) = 6 /\ s[1] = Send("PASV") /\ s[2] = Enter
       /\ s[3] = Send("LIST") /\ s[4] = ReadNew("150") /\ s[5] = Fetch /\ s[6] = Read("226")
  /\ LET s == Script("ftp", "get") IN
       /\ Len(s) = 7 /\ s[1] = Send("PASV") /\ s[2] = Enter
       /\ s[3] = Send("RETR") /\ s[4] = ReadNew("150")
       /\ s[5] = Create("checked") /\ s[6] = Fetch /\ s[7] = Read("226")
  /\ LET s == Script("ftp", "put") IN
       /\ Len(s) = 6 /\ s[1] = Send("PASV") /\ s[2] = Enter
       /\ s[3] = Send("STOR") /\ s[4] = ReadNew("150") /\ s[5] = Upload /\ s[6] = Read("226")
  /\ LET s == Script("ftp", "delete") IN
       Len(s) = 2 /\ s[1] = Send("DELE") /\ s[2] = ReadNew("250")
  /\ LET s == Script("ftp", "cd") IN
       Len(s) = 2 /\ s[1] = Send("CWD") /\ s[2] = Skip
  /\ Script("ftp", "quit") = <<>>
<1>1. LET s == Script("ftp", "start") IN
       /\ Len(s) = 6 /\ s[1] = Connect("ftp") /\ s[2] = Skip
       /\ s[3] = Send("USER") /\ s[4] = ReadNew("331") /\ s[5] = Send("PASS") /\ s[6] = Read("230")
  BY DEF Script, Start, FtpConnect, FtpLogin, Ask, AskNew
<1>2. /\ Script("ftp", "list") = FtpList /\ Script("ftp", "get") = FtpGet
      /\ Script("ftp", "put") = FtpPut /\ Script("ftp", "delete") = FtpDelete
      /\ Script("ftp", "cd") = FtpCwd /\ Script("ftp", "quit") = <<>>
  BY DEF Script, Menu, FtpMenu
<1>3. LET s == FtpList IN
       /\ Len(s) = 6 /\ s[1] = Send("PASV") /\ s[2] = Enter
       /\ s[3] = Send("LIST") /\ s[4] = ReadNew("150") /\ s[5] = Fetch /\ s[6] = Read("226")
  BY DEF FtpList, FtpPasv, AskNew, Completed
<1>4. LET s == FtpGet IN
       /\ Len(s) = 7 /\ s[1] = Send("PASV") /\ s[2] = Enter
       /\ s[3] = Send("RETR") /\ s[4] = ReadNew("150")
       /\ s[5] = Create("checked") /\ s[6] = Fetch /\ s[7] = Read("226")
  BY DEF FtpGet, FtpPasv, AskNew, Completed
<1>5. LET s == FtpPut IN
       /\ Len(s) = 6 /\ s[1] = Send("PASV") /\ s[2] = Enter
       /\ s[3] = Send("STOR") /\ s[4] = ReadNew("150") /\ s[5] = Upload /\ s[6] = Read("226")
  BY DEF FtpPut, FtpPasv, AskNew, Completed
<1>6. /\ LET s == FtpDelete IN Len(s) = 2 /\ s[1] = Send("DELE") /\ s[2] = ReadNew("250")
      /\ LET s == FtpCwd IN Len(s) = 2 /\ s[1] = Send("CWD") /\ s[2] = Skip
  BY DEF FtpDelete, FtpCwd, AskNew
<1> QED BY <1>1, <1>2, <1>3, <1>4, <1>5, <1>6

\* A mail of one line (smtp_client.c).
LEMMA MailScript ==
  LET s == Script("mail", "start") IN
    /\ Len(s) = 16
    /\ s[1] = Connect("smtp") /\ s[2] = Read("220") /\ s[3] = Send("HELO") /\ s[4] = Read("250")
    /\ s[5] = Send("MAIL") /\ s[6] = Read("250") /\ s[7] = Send("RCPT") /\ s[8] = Read("250")
    /\ s[9] = Send("DATA") /\ s[10] = Read("354") /\ s[11] = Send("text") /\ s[12] = Send("text")
    /\ s[13] = Send(".") /\ s[14] = Read("250") /\ s[15] = Send("QUIT") /\ s[16] = Read("221")
<1>1. Script("mail", "start") = SmtpMain(<<"text">>)
  BY DEF Script, Start
<1> QED BY <1>1 DEF SmtpMain, SmtpConnect, Ask, SmtpHeader, SmtpBody

\* The tests of the toolkit (network-toolkit-lab/src), one of them and all in a row.
LEMMA ToolScripts ==
  /\ LET s == Script("toolkit", "ftp") IN
       /\ Len(s) = 20 /\ s[1] = Resolve("ftp") /\ s[2] = Connect("ftp") /\ s[3] = Skip
       /\ s[4] = Send("USER") /\ s[5] = ReadNew("331") /\ s[6] = Send("PASS") /\ s[7] = Read("230")
       /\ s[8] = Send("PASV") /\ s[9] = Enter /\ s[10] = Send("LIST") /\ s[11] = ReadNew("150")
       /\ s[12] = Fetch /\ s[13] = Read("226")
       /\ s[14] = Send("PASV") /\ s[15] = Enter /\ s[16] = Send("RETR") /\ s[17] = ReadNew("150")
       /\ s[18] = Create("unchecked") /\ s[19] = Fetch /\ s[20] = Read("226")
  /\ LET s == Script("fulltest", "start") IN
       /\ Len(s) = 50 /\ s[11] = Connect("ftp") /\ s[12] = Skip
       /\ s[13] = Send("USER") /\ s[14] = ReadNew("331") /\ s[15] = Send("PASS") /\ s[16] = Read("230")
       /\ s[17] = Send("PASV") /\ s[18] = Enter /\ s[19] = Send("LIST") /\ s[20] = ReadNew("150")
       /\ s[21] = Fetch /\ s[22] = Read("226")
       /\ s[23] = Send("PASV") /\ s[24] = Enter /\ s[25] = Send("RETR") /\ s[26] = ReadNew("150")
       /\ s[27] = Create("unchecked") /\ s[28] = Fetch /\ s[29] = Read("226")
       /\ s[30] = Resolve("smtp")
       /\ \A i \in 30..50 : s[i].do \notin {"create", "fetch"}
<1>1. Script("toolkit", "ftp") = ToolFtp /\ Script("fulltest", "start") = TestAll
  BY DEF Script, Start, Menu, ToolMenu
<1>2. LET s == ToolFtp IN
       /\ Len(s) = 20 /\ s[1] = Resolve("ftp") /\ s[2] = Connect("ftp") /\ s[3] = Skip
       /\ s[4] = Send("USER") /\ s[5] = ReadNew("331") /\ s[6] = Send("PASS") /\ s[7] = Read("230")
       /\ s[8] = Send("PASV") /\ s[9] = Enter /\ s[10] = Send("LIST") /\ s[11] = ReadNew("150")
       /\ s[12] = Fetch /\ s[13] = Read("226")
       /\ s[14] = Send("PASV") /\ s[15] = Enter /\ s[16] = Send("RETR") /\ s[17] = ReadNew("150")
       /\ s[18] = Create("unchecked") /\ s[19] = Fetch /\ s[20] = Read("226")
  BY DEF ToolFtp, ToolLogin, AskNew, Ask, ToolList, ToolGet, ToolPasv, Completed
<1>3. LET s == TestAll IN
       /\ Len(s) = 50 /\ s[11] = Connect("ftp") /\ s[12] = Skip
       /\ s[13] = Send("USER") /\ s[14] = ReadNew("331") /\ s[15] = Send("PASS") /\ s[16] = Read("230")
       /\ s[17] = Send("PASV") /\ s[18] = Enter /\ s[19] = Send("LIST") /\ s[20] = ReadNew("150")
       /\ s[21] = Fetch /\ s[22] = Read("226")
       /\ s[23] = Send("PASV") /\ s[24] = Enter /\ s[25] = Send("RETR") /\ s[26] = ReadNew("150")
       /\ s[27] = Create("unchecked") /\ s[28] = Fetch /\ s[29] = Read("226")
       /\ s[30] = Resolve("smtp")
       /\ \A i \in 30..50 : s[i].do \notin {"create", "fetch"}
  BY Parts DEF TestAll, ToolDns, ToolHttp, ToolFtp, ToolLogin, AskNew, Ask, ToolList, ToolGet,
               ToolPasv, Completed, ToolSmtp, ToolReport, ToolPop3, ToolEmail
<1> QED BY <1>1, <1>2, <1>3

\* The menus, and how long everything is.
LEMMA Menus ==
  /\ Programs = {"ftp", "mail", "dotmail", "pop3", "toolkit", "fulltest"}
  /\ DOMAIN Menu["ftp"] = {"list", "get", "put", "delete", "cd", "quit"}
  /\ DOMAIN Menu["pop3"] = {"stat", "list", "retr", "quit"}
  /\ DOMAIN Menu["toolkit"] = {"dns", "http", "ftp", "smtp", "pop3", "quit"}
  /\ \A p \in {"mail", "dotmail", "fulltest"} : DOMAIN Menu[p] = {"quit"}
  BY DEF Programs, Start, Menu, FtpMenu, Pop3Menu, ToolMenu, NoMenu

\* What Choose and Init rely on: nothing but an exit is empty.
Steps(p, o) == Len(Script(p, o))
Fine(p, o) ==
  /\ Len(Script(p, o)) \in Nat
  /\ Script(p, o) = <<>> => (o = "quit" /\ Menu[p][o] = <<>>) \/ (o = "start" /\ Start[p] = <<>>)
  /\ Script(p, o) # <<>> =>
       /\ Len(Script(p, o)) >= 1
       /\ ~(o = "quit" /\ Menu[p][o] = <<>>) /\ ~(o = "start" /\ Start[p] = <<>>)

LEMMA LongScripts ==
  /\ Steps("ftp", "start") = 6 /\ Steps("ftp", "list") = 6 /\ Steps("ftp", "get") = 7
  /\ Steps("ftp", "put") = 6 /\ Steps("ftp", "delete") = 2 /\ Steps("ftp", "cd") = 2
  /\ Steps("mail", "start") = 16 /\ Steps("fulltest", "start") = 50 /\ Steps("toolkit", "ftp") = 20
  /\ Steps("dotmail", "start") = 17 /\ Steps("pop3", "start") = 6 /\ Steps("pop3", "stat") = 2
  /\ Steps("pop3", "list") = 3 /\ Steps("pop3", "retr") = 3 /\ Steps("pop3", "quit") = 2
  /\ Steps("toolkit", "dns") = 3 /\ Steps("toolkit", "http") = 6 /\ Steps("toolkit", "smtp") = 10
  /\ Steps("toolkit", "pop3") = 11
<1>1. /\ Len(Script("ftp", "start")) = 6 /\ Len(Script("ftp", "list")) = 6
      /\ Len(Script("ftp", "get")) = 7 /\ Len(Script("ftp", "put")) = 6
      /\ Len(Script("ftp", "delete")) = 2 /\ Len(Script("ftp", "cd")) = 2
  BY FtpScripts
<1>2. /\ Len(Script("mail", "start")) = 16 /\ Len(Script("fulltest", "start")) = 50
      /\ Len(Script("toolkit", "ftp")) = 20
  BY MailScript, ToolScripts
<1>3. Len(Script("dotmail", "start")) = 17
  <2>1. Script("dotmail", "start") = SmtpMain(<<".", "text">>)
    BY DEF Script, Start
  <2>2. Len(SmtpMain(<<".", "text">>)) = 17
    BY DEF SmtpMain, SmtpConnect, Ask, SmtpHeader, SmtpBody
  <2> QED BY <2>1, <2>2
<1>4. /\ Len(Script("pop3", "start")) = 6
      /\ Len(Script("pop3", "stat")) = 2 /\ Len(Script("pop3", "list")) = 3
      /\ Len(Script("pop3", "retr")) = 3 /\ Len(Script("pop3", "quit")) = 2
  <2>1. Len(Script("pop3", "start")) = 6
    BY DEF Script, Start, Pop3Connect, Pop3Login, AskNew
  <2>2. /\ Script("pop3", "stat") = AskNew("STAT", "+OK")
        /\ Script("pop3", "list") = AskNew("LIST", "+OK") \o <<Lines>>
        /\ Script("pop3", "retr") = AskNew("RETR", "+OK") \o <<Lines>>
        /\ Script("pop3", "quit") = <<Send("QUIT"), Skip>>
    BY DEF Script, Menu, Pop3Menu
  <2> QED BY <2>1, <2>2 DEF AskNew
<1>5. /\ Len(Script("toolkit", "dns")) = 3 /\ Len(Script("toolkit", "http")) = 6
      /\ Len(Script("toolkit", "smtp")) = 10 /\ Len(Script("toolkit", "pop3")) = 11
  <2>1. /\ Script("toolkit", "dns") = ToolDns /\ Script("toolkit", "http") = ToolHttp
        /\ Script("toolkit", "smtp") = ToolSmtp /\ Script("toolkit", "pop3") = ToolPop3
    BY DEF Script, Menu, ToolMenu
  <2> QED BY <2>1 DEF ToolDns, ToolHttp, ToolSmtp, ToolReport, ToolPop3, ToolEmail
<1>6. Steps("ftp", "start") = 6
  BY <1>1 DEF Steps
<1>7. Steps("ftp", "list") = 6
  BY <1>1 DEF Steps
<1>8. Steps("ftp", "get") = 7
  BY <1>1 DEF Steps
<1>9. Steps("ftp", "put") = 6
  BY <1>1 DEF Steps
<1>10. Steps("ftp", "delete") = 2
  BY <1>1 DEF Steps
<1>11. Steps("ftp", "cd") = 2
  BY <1>1 DEF Steps
<1>12. Steps("mail", "start") = 16
  BY <1>2 DEF Steps
<1>13. Steps("fulltest", "start") = 50
  BY <1>2 DEF Steps
<1>14. Steps("toolkit", "ftp") = 20
  BY <1>2 DEF Steps
<1>15. Steps("dotmail", "start") = 17
  BY <1>3 DEF Steps
<1>16. Steps("pop3", "start") = 6
  BY <1>4 DEF Steps
<1>17. Steps("pop3", "stat") = 2
  BY <1>4 DEF Steps
<1>18. Steps("pop3", "list") = 3
  BY <1>4 DEF Steps
<1>19. Steps("pop3", "retr") = 3
  BY <1>4 DEF Steps
<1>20. Steps("pop3", "quit") = 2
  BY <1>4 DEF Steps
<1>21. Steps("toolkit", "dns") = 3
  BY <1>5 DEF Steps
<1>22. Steps("toolkit", "http") = 6
  BY <1>5 DEF Steps
<1>23. Steps("toolkit", "smtp") = 10
  BY <1>5 DEF Steps
<1>24. Steps("toolkit", "pop3") = 11
  BY <1>5 DEF Steps
<1> QED BY <1>6, <1>7, <1>8, <1>9, <1>10, <1>11, <1>12, <1>13, <1>14, <1>15,
          <1>16, <1>17, <1>18, <1>19, <1>20, <1>21, <1>22, <1>23, <1>24

LEMMA Lengths ==
  ASSUME NEW p \in Programs, NEW o \in Operations(p)
  PROVE  Fine(p, o)
<1>1. \A q, x : Steps(q, x) # 0 => Fine(q, x)
  BY DEF Steps, Fine, Script
<1>2. \A q, x : Script(q, x) = <<>> /\ x \in {"start", "quit"} => Fine(q, x)
  BY DEF Fine, Script
<1>3. CASE p = "ftp"
  <2>1. o \in {"start", "list", "get", "put", "delete", "cd", "quit"}
    BY <1>3, Menus, Zenon DEF Operations
  <2>2. Fine("ftp", "quit")
    BY <1>2, FtpScripts
  <2> QED BY <1>1, <1>3, <2>1, <2>2, LongScripts
<1>4. CASE p \in {"mail", "dotmail", "fulltest"}
  <2>1. o \in {"start", "quit"}
    BY <1>4, Menus, Zenon DEF Operations
  <2>2. /\ Script("mail", "quit") = <<>> /\ Script("dotmail", "quit") = <<>>
        /\ Script("fulltest", "quit") = <<>>
    BY DEF Menu, NoMenu, Script
  <2>3. Fine("mail", "quit") /\ Fine("dotmail", "quit") /\ Fine("fulltest", "quit")
    BY <1>2, <2>2
  <2> QED BY <1>1, <1>4, <2>1, <2>3, LongScripts
<1>5. CASE p = "pop3"
  <2>1. o \in {"start", "stat", "list", "retr", "quit"}
    BY <1>5, Menus, Zenon DEF Operations
  <2> QED BY <1>1, <1>5, <2>1, LongScripts
<1>6. CASE p = "toolkit"
  <2>1. o \in {"start", "dns", "http", "ftp", "smtp", "pop3", "quit"}
    BY <1>6, Menus, Zenon DEF Operations
  <2>2. Script("toolkit", "start") = <<>> /\ Script("toolkit", "quit") = <<>>
    BY DEF Script, Start, Menu, ToolMenu
  <2>3. Fine("toolkit", "start") /\ Fine("toolkit", "quit")
    BY <1>2, <2>2
  <2> QED BY <1>1, <1>6, <2>1, <2>3, LongScripts
<1> QED BY <1>3, <1>4, <1>5, <1>6, Menus, Zenon
\* The rest of the scripts.
LEMMA MoreScripts ==
  /\ LET s == Script("dotmail", "start") IN
       /\ s[1] = Connect("smtp") /\ s[2] = Read("220") /\ s[3] = Send("HELO") /\ s[4] = Read("250")
       /\ s[5] = Send("MAIL") /\ s[6] = Read("250") /\ s[7] = Send("RCPT") /\ s[8] = Read("250")
       /\ s[9] = Send("DATA") /\ s[10] = Read("354") /\ s[11] = Send("text") /\ s[12] = Send(".")
       /\ s[13] = Send("text") /\ s[14] = Send(".") /\ s[15] = Read("250") /\ s[16] = Send("QUIT")
       /\ s[17] = Read("221")
  /\ LET s == Script("pop3", "start") IN
       /\ s[1] = Connect("pop3") /\ s[2] = Read("+OK") /\ s[3] = Send("USER") /\ s[4] = Skip
       /\ s[5] = Send("PASS") /\ s[6] = ReadNew("+OK")
  /\ LET s == Script("pop3", "stat") IN s[1] = Send("STAT") /\ s[2] = ReadNew("+OK")
  /\ LET s == Script("pop3", "list") IN s[1] = Send("LIST") /\ s[2] = ReadNew("+OK") /\ s[3] = Lines
  /\ LET s == Script("pop3", "retr") IN s[1] = Send("RETR") /\ s[2] = ReadNew("+OK") /\ s[3] = Lines
  /\ LET s == Script("pop3", "quit") IN s[1] = Send("QUIT") /\ s[2] = Skip
  /\ LET s == Script("toolkit", "dns") IN
       s[1] = Resolve("http") /\ s[2] = Resolve("ftp") /\ s[3] = Resolve("smtp")
  /\ LET s == Script("toolkit", "http") IN
       /\ s[1] = Resolve("http") /\ s[2] = Connect("http") /\ s[3] = Send("GET")
       /\ s[4] = Send("Host") /\ s[5] = Send("end") /\ s[6] = Receive
  /\ LET s == Script("toolkit", "smtp") IN
       /\ s[1] = Resolve("smtp") /\ s[2] = Connect("smtp") /\ s[3] = Send("HELO")
       /\ s[4] = Send("MAIL") /\ s[5] = Send("RCPT") /\ s[6] = Send("DATA") /\ s[7] = Send("text")
       /\ s[8] = Send("text") /\ s[9] = Send(".") /\ s[10] = Send("QUIT")
  /\ LET s == Script("toolkit", "pop3") IN
       /\ s[1] = Resolve("pop3") /\ s[2] = Connect("pop3") /\ s[3] = Skip /\ s[4] = Send("USER")
       /\ s[5] = Skip /\ s[6] = Send("PASS") /\ s[7] = Skip /\ s[8] = Send("RETR") /\ s[9] = Skip
       /\ s[10] = Lines /\ s[11] = Send("QUIT")
  /\ LET s == Script("fulltest", "start") IN
       /\ s[1] = Resolve("http") /\ s[2] = Resolve("ftp") /\ s[3] = Resolve("smtp")
       /\ s[4] = Resolve("http") /\ s[5] = Connect("http") /\ s[6] = Send("GET")
       /\ s[7] = Send("Host") /\ s[8] = Send("end") /\ s[9] = Receive /\ s[10] = Resolve("ftp")
       /\ s[31] = Connect("smtp") /\ s[32] = Send("HELO")
       /\ s[33] = Send("MAIL") /\ s[34] = Send("RCPT") /\ s[35] = Send("DATA") /\ s[36] = Send("text")
       /\ s[37] = Send("text") /\ s[38] = Send(".") /\ s[39] = Send("QUIT")
       /\ s[40] = Resolve("pop3") /\ s[41] = Connect("pop3") /\ s[42] = Skip /\ s[43] = Send("USER")
       /\ s[44] = Skip /\ s[45] = Send("PASS") /\ s[46] = Skip /\ s[47] = Send("RETR") /\ s[48] = Skip
       /\ s[49] = Lines /\ s[50] = Send("QUIT")
<1>1. /\ Script("dotmail", "start") = SmtpMain(<<".", "text">>)
      /\ Script("pop3", "start") = Pop3Connect \o Pop3Login
      /\ Script("pop3", "stat") = AskNew("STAT", "+OK")
      /\ Script("pop3", "list") = AskNew("LIST", "+OK") \o <<Lines>>
      /\ Script("pop3", "retr") = AskNew("RETR", "+OK") \o <<Lines>>
      /\ Script("pop3", "quit") = <<Send("QUIT"), Skip>>
      /\ Script("toolkit", "dns") = ToolDns /\ Script("toolkit", "http") = ToolHttp
      /\ Script("toolkit", "smtp") = ToolSmtp /\ Script("toolkit", "pop3") = ToolPop3
      /\ Script("fulltest", "start") = TestAll
  BY DEF Script, Start, Menu, Pop3Menu, ToolMenu
<1>2. LET s == Script("dotmail", "start") IN
       /\ s[1] = Connect("smtp") /\ s[2] = Read("220") /\ s[3] = Send("HELO") /\ s[4] = Read("250")
       /\ s[5] = Send("MAIL") /\ s[6] = Read("250") /\ s[7] = Send("RCPT") /\ s[8] = Read("250")
       /\ s[9] = Send("DATA") /\ s[10] = Read("354") /\ s[11] = Send("text") /\ s[12] = Send(".")
       /\ s[13] = Send("text") /\ s[14] = Send(".") /\ s[15] = Read("250") /\ s[16] = Send("QUIT")
       /\ s[17] = Read("221")
  <2>1. SmtpBody(<<".", "text">>) = <<Send("."), Send("text"), Send("."), Read("250")>>
    <3> DEFINE f == [i \in DOMAIN <<".", "text">> |-> Send(<<".", "text">>[i])]
    <3>1. f = <<Send("."), Send("text")>>
      OBVIOUS
    <3>2. SmtpBody(<<".", "text">>) = f \o Ask(".", "250")
      BY DEF SmtpBody
    <3> QED BY <3>1, <3>2 DEF Ask
  <2> DEFINE mail(b) == SmtpConnect \o Ask("HELO", "250") \o Ask("MAIL", "250") \o Ask("RCPT", "250")
                         \o Ask("DATA", "354") \o SmtpHeader \o b \o Ask("QUIT", "221")
  <2>2. LET s == mail(<<Send("."), Send("text"), Send("."), Read("250")>>) IN
         /\ s[1] = Connect("smtp") /\ s[2] = Read("220") /\ s[3] = Send("HELO") /\ s[4] = Read("250")
         /\ s[5] = Send("MAIL") /\ s[6] = Read("250") /\ s[7] = Send("RCPT") /\ s[8] = Read("250")
         /\ s[9] = Send("DATA") /\ s[10] = Read("354") /\ s[11] = Send("text") /\ s[12] = Send(".")
         /\ s[13] = Send("text") /\ s[14] = Send(".") /\ s[15] = Read("250") /\ s[16] = Send("QUIT")
         /\ s[17] = Read("221")
    BY DEF SmtpConnect, Ask, SmtpHeader
  <2>3. Script("dotmail", "start") = mail(SmtpBody(<<".", "text">>))
    BY <1>1, Zenon DEF SmtpMain
  <2> QED BY <2>1, <2>2, <2>3, Zenon
<1>3. LET s == Script("pop3", "start") IN
       /\ s[1] = Connect("pop3") /\ s[2] = Read("+OK") /\ s[3] = Send("USER") /\ s[4] = Skip
       /\ s[5] = Send("PASS") /\ s[6] = ReadNew("+OK")
  <2>1. LET s == Pop3Connect \o Pop3Login IN
         /\ s[1] = Connect("pop3") /\ s[2] = Read("+OK") /\ s[3] = Send("USER") /\ s[4] = Skip
         /\ s[5] = Send("PASS") /\ s[6] = ReadNew("+OK")
    BY DEF Pop3Connect, Pop3Login, AskNew
  <2> QED BY <1>1, <2>1
<1>4. /\ LET s == Script("pop3", "list") IN s[1] = Send("LIST") /\ s[2] = ReadNew("+OK") /\ s[3] = Lines
      /\ LET s == Script("pop3", "retr") IN s[1] = Send("RETR") /\ s[2] = ReadNew("+OK") /\ s[3] = Lines
  <2>1. \A c : LET s == AskNew(c, "+OK") \o <<Lines>> IN
          s[1] = Send(c) /\ s[2] = ReadNew("+OK") /\ s[3] = Lines
    BY DEF AskNew
  <2> QED BY <1>1, <2>1
<1>5. LET s == Script("fulltest", "start") IN
       /\ s[1] = Resolve("http") /\ s[2] = Resolve("ftp") /\ s[3] = Resolve("smtp")
       /\ s[4] = Resolve("http") /\ s[5] = Connect("http") /\ s[6] = Send("GET")
       /\ s[7] = Send("Host") /\ s[8] = Send("end") /\ s[9] = Receive /\ s[10] = Resolve("ftp")
       /\ s[31] = Connect("smtp") /\ s[32] = Send("HELO")
       /\ s[33] = Send("MAIL") /\ s[34] = Send("RCPT") /\ s[35] = Send("DATA") /\ s[36] = Send("text")
       /\ s[37] = Send("text") /\ s[38] = Send(".") /\ s[39] = Send("QUIT")
       /\ s[40] = Resolve("pop3") /\ s[41] = Connect("pop3") /\ s[42] = Skip /\ s[43] = Send("USER")
       /\ s[44] = Skip /\ s[45] = Send("PASS") /\ s[46] = Skip /\ s[47] = Send("RETR") /\ s[48] = Skip
       /\ s[49] = Lines /\ s[50] = Send("QUIT")
  <2>1. LET s == TestAll IN
         /\ s[1] = Resolve("http") /\ s[2] = Resolve("ftp") /\ s[3] = Resolve("smtp")
         /\ s[4] = Resolve("http") /\ s[5] = Connect("http") /\ s[6] = Send("GET")
         /\ s[7] = Send("Host") /\ s[8] = Send("end") /\ s[9] = Receive /\ s[10] = Resolve("ftp")
         /\ s[31] = Connect("smtp") /\ s[32] = Send("HELO")
         /\ s[33] = Send("MAIL") /\ s[34] = Send("RCPT") /\ s[35] = Send("DATA") /\ s[36] = Send("text")
         /\ s[37] = Send("text") /\ s[38] = Send(".") /\ s[39] = Send("QUIT")
         /\ s[40] = Resolve("pop3") /\ s[41] = Connect("pop3") /\ s[42] = Skip /\ s[43] = Send("USER")
         /\ s[44] = Skip /\ s[45] = Send("PASS") /\ s[46] = Skip /\ s[47] = Send("RETR") /\ s[48] = Skip
         /\ s[49] = Lines /\ s[50] = Send("QUIT")
    BY DEF TestAll, ToolDns, ToolHttp, ToolFtp, ToolLogin, AskNew, Ask, ToolList, ToolGet,
           ToolPasv, Completed, ToolSmtp, ToolReport, ToolPop3, ToolEmail
  <2> QED BY <1>1, <2>1
<1>6. LET s == Script("pop3", "stat") IN s[1] = Send("STAT") /\ s[2] = ReadNew("+OK")
  BY <1>1 DEF AskNew
<1>7. LET s == Script("toolkit", "dns") IN s[1] = Resolve("http") /\ s[2] = Resolve("ftp") /\ s[3] = Resolve("smtp")
  BY <1>1 DEF ToolDns
<1>8. LET s == Script("toolkit", "http") IN
       /\ s[1] = Resolve("http") /\ s[2] = Connect("http") /\ s[3] = Send("GET")
       /\ s[4] = Send("Host") /\ s[5] = Send("end") /\ s[6] = Receive
  BY <1>1 DEF ToolHttp
<1>9. LET s == Script("toolkit", "smtp") IN
       /\ s[1] = Resolve("smtp") /\ s[2] = Connect("smtp") /\ s[3] = Send("HELO")
       /\ s[4] = Send("MAIL") /\ s[5] = Send("RCPT") /\ s[6] = Send("DATA") /\ s[7] = Send("text")
       /\ s[8] = Send("text") /\ s[9] = Send(".") /\ s[10] = Send("QUIT")
  BY <1>1 DEF ToolSmtp, ToolReport
<1>10. LET s == Script("toolkit", "pop3") IN
       /\ s[1] = Resolve("pop3") /\ s[2] = Connect("pop3") /\ s[3] = Skip /\ s[4] = Send("USER")
       /\ s[5] = Skip /\ s[6] = Send("PASS") /\ s[7] = Skip /\ s[8] = Send("RETR") /\ s[9] = Skip
       /\ s[10] = Lines /\ s[11] = Send("QUIT")
  BY <1>1 DEF ToolPop3, ToolEmail
<1>11. LET s == Script("pop3", "quit") IN s[1] = Send("QUIT") /\ s[2] = Skip
  BY <1>1
<1> QED BY <1>2, <1>3, <1>4, <1>5, <1>6, <1>7, <1>8, <1>9, <1>10, <1>11

\* A command is sent to a server that knows it, over a connection to that server.
SoundStep(p, o, i) ==
  LET s == Script(p, o)[i] IN
  /\ s.do = "send" => Joined(p, o, i) /\ s.what \in Understood(Host(p, o, i))
  /\ s.do = "connect" => /\ s.what \in {"ftp", "smtp", "pop3", "http"}
                         /\ Joined(p, o, i + 1) /\ Host(p, o, i + 1) = s.what
  /\ s.do # "connect" /\ Joined(p, o, i + 1) =>
       Joined(p, o, i) /\ Host(p, o, i + 1) = Host(p, o, i)

LEMMA Vocabulary ==
  /\ {"connect", "USER", "PASS", "PASV", "LIST", "RETR", "STOR", "DELE", "CWD"} \subseteq Understood("ftp")
  /\ {"connect", "HELO", "MAIL", "RCPT", "DATA", "QUIT", ".", "text"} \subseteq Understood("smtp")
  /\ {"connect", "USER", "PASS", "STAT", "LIST", "RETR", "QUIT"} \subseteq Understood("pop3")
  /\ {"connect", "GET", "Host", "end"} \subseteq Understood("http")
  BY DEF Understood, Good

LEMMA Dictionary ==
  /\ \A h \in {"ftp", "smtp", "pop3", "http"} : Understood(h) \subseteq Words
  /\ \A h \in {"ftp", "smtp", "pop3"} : \A c \in Understood(h) : Good[h][c] \in Codes
  /\ Good["http"]["end"] \in Codes
<1>1. /\ Understood("ftp") \subseteq Words /\ Understood("smtp") \subseteq Words
      /\ Understood("pop3") \subseteq Words /\ Understood("http") \subseteq Words
  BY DEF Understood, Good, Words
<1>2. /\ \A c \in Understood("ftp") : Good["ftp"][c] \in Codes
      /\ \A c \in Understood("smtp") : Good["smtp"][c] \in Codes
      /\ \A c \in Understood("pop3") : Good["pop3"][c] \in Codes
      /\ Good["http"]["end"] \in Codes
  BY DEF Understood, Good, Codes
<1> QED BY <1>1, <1>2

LEMMA SoundFtp ==
  /\ \A i \in 1..6 : SoundStep("ftp", "start", i)
  /\ \A i \in 1..6 : SoundStep("ftp", "list", i)
  /\ \A i \in 1..7 : SoundStep("ftp", "get", i)
  /\ \A i \in 1..6 : SoundStep("ftp", "put", i)
  /\ \A i \in 1..2 : SoundStep("ftp", "delete", i)
  /\ \A i \in 1..2 : SoundStep("ftp", "cd", i)
<1>1. \A i \in 1..6 : SoundStep("ftp", "start", i)
  BY FtpScripts, Parts, Vocabulary DEF SoundStep, Joined, Host
<1>2. \A i \in 1..6 : SoundStep("ftp", "list", i)
  BY FtpScripts, Parts, Vocabulary DEF SoundStep, Joined, Host
<1>3. \A i \in 1..7 : SoundStep("ftp", "get", i)
  BY FtpScripts, Parts, Vocabulary DEF SoundStep, Joined, Host
<1>4. \A i \in 1..6 : SoundStep("ftp", "put", i)
  BY FtpScripts, Parts, Vocabulary DEF SoundStep, Joined, Host
<1>5. \A i \in 1..2 : SoundStep("ftp", "delete", i)
  BY FtpScripts, Parts, Vocabulary DEF SoundStep, Joined, Host
<1>6. \A i \in 1..2 : SoundStep("ftp", "cd", i)
  BY FtpScripts, Parts, Vocabulary DEF SoundStep, Joined, Host
<1> QED BY <1>1, <1>2, <1>3, <1>4, <1>5, <1>6

LEMMA SoundMail ==
  /\ \A i \in 1..16 : SoundStep("mail", "start", i)
  /\ \A i \in 1..17 : SoundStep("dotmail", "start", i)
<1>1. \A i \in 1..16 : SoundStep("mail", "start", i)
  BY MailScript, Parts, Vocabulary DEF SoundStep, Joined, Host
<1>2. \A i \in 1..17 : SoundStep("dotmail", "start", i)
  BY MoreScripts, Parts, Vocabulary DEF SoundStep, Joined, Host
<1> QED BY <1>1, <1>2

LEMMA SoundPop3 ==
  /\ \A i \in 1..6 : SoundStep("pop3", "start", i)
  /\ \A i \in 1..2 : SoundStep("pop3", "stat", i)
  /\ \A i \in 1..3 : SoundStep("pop3", "list", i)
  /\ \A i \in 1..3 : SoundStep("pop3", "retr", i)
  /\ \A i \in 1..2 : SoundStep("pop3", "quit", i)
<1>1. \A i \in 1..6 : SoundStep("pop3", "start", i)
  BY MoreScripts, Parts, Vocabulary DEF SoundStep, Joined, Host
<1>2. \A i \in 1..2 : SoundStep("pop3", "stat", i)
  BY MoreScripts, Parts, Vocabulary DEF SoundStep, Joined, Host
<1>3. \A i \in 1..3 : SoundStep("pop3", "list", i)
  BY MoreScripts, Parts, Vocabulary DEF SoundStep, Joined, Host
<1>4. \A i \in 1..3 : SoundStep("pop3", "retr", i)
  BY MoreScripts, Parts, Vocabulary DEF SoundStep, Joined, Host
<1>5. \A i \in 1..2 : SoundStep("pop3", "quit", i)
  BY MoreScripts, Parts, Vocabulary DEF SoundStep, Joined, Host
<1> QED BY <1>1, <1>2, <1>3, <1>4, <1>5

LEMMA SoundToolkit ==
  /\ \A i \in 1..3 : SoundStep("toolkit", "dns", i)
  /\ \A i \in 1..6 : SoundStep("toolkit", "http", i)
  /\ \A i \in 1..20 : SoundStep("toolkit", "ftp", i)
  /\ \A i \in 1..10 : SoundStep("toolkit", "smtp", i)
  /\ \A i \in 1..11 : SoundStep("toolkit", "pop3", i)
<1>1. \A i \in 1..3 : SoundStep("toolkit", "dns", i)
  BY MoreScripts, Parts, Vocabulary DEF SoundStep, Joined, Host
<1>2. \A i \in 1..6 : SoundStep("toolkit", "http", i)
  BY MoreScripts, Parts, Vocabulary DEF SoundStep, Joined, Host
<1>3. \A i \in 1..20 : SoundStep("toolkit", "ftp", i)
  BY ToolScripts, Parts, Vocabulary DEF SoundStep, Joined, Host
<1>4. \A i \in 1..10 : SoundStep("toolkit", "smtp", i)
  BY MoreScripts, Parts, Vocabulary DEF SoundStep, Joined, Host
<1>5. \A i \in 1..11 : SoundStep("toolkit", "pop3", i)
  BY MoreScripts, Parts, Vocabulary DEF SoundStep, Joined, Host
<1> QED BY <1>1, <1>2, <1>3, <1>4, <1>5

LEMMA SoundTests == \A i \in 1..50 : SoundStep("fulltest", "start", i)
<1>1. \A i \in 1..11 : SoundStep("fulltest", "start", i)
  BY MoreScripts, ToolScripts, Parts, Vocabulary DEF SoundStep, Joined, Host
<1>2. \A i \in 12..30 : SoundStep("fulltest", "start", i)
  BY ToolScripts, Parts, Vocabulary DEF SoundStep, Joined, Host
<1>3. \A i \in 31..50 : SoundStep("fulltest", "start", i)
  BY MoreScripts, Parts, Vocabulary DEF SoundStep, Joined, Host
<1> QED BY <1>1, <1>2, <1>3

LEMMA Sound ==
  ASSUME NEW p \in Programs, NEW o \in Operations(p), NEW i \in 1..Len(Script(p, o))
  PROVE  SoundStep(p, o, i)
<1>1. Fine(p, o) /\ i \in 1..Steps(p, o)
  BY Lengths DEF Steps
<1>2. ASSUME NEW q, Script(q, "quit") = <<>>, p = q, o = "quit" PROVE FALSE
  BY <1>2
<1>3. CASE p = "ftp"
  <2>1. o \in {"start", "list", "get", "put", "delete", "cd", "quit"}
    BY <1>3, Menus, Zenon DEF Operations
  <2>2. o # "quit"
    BY <1>2, <1>3, FtpScripts
  <2> QED BY <1>1, <1>3, <2>1, <2>2, LongScripts, SoundFtp
<1>4. CASE p \in {"mail", "dotmail", "fulltest"}
  <2>1. o \in {"start", "quit"}
    BY <1>4, Menus, Zenon DEF Operations
  <2>2. /\ Script("mail", "quit") = <<>> /\ Script("dotmail", "quit") = <<>>
        /\ Script("fulltest", "quit") = <<>>
    BY DEF Menu, NoMenu, Script
  <2>3. o = "start"
    BY <1>2, <1>4, <2>1, <2>2
  <2> QED BY <1>1, <1>4, <2>3, LongScripts, SoundMail, SoundTests
<1>5. CASE p = "pop3"
  <2>1. o \in {"start", "stat", "list", "retr", "quit"}
    BY <1>5, Menus, Zenon DEF Operations
  <2> QED BY <1>1, <1>5, <2>1, LongScripts, SoundPop3
<1>6. CASE p = "toolkit"
  <2>1. o \in {"start", "dns", "http", "ftp", "smtp", "pop3", "quit"}
    BY <1>6, Menus, Zenon DEF Operations
  <2>2. Script("toolkit", "start") = <<>> /\ Script("toolkit", "quit") = <<>>
    BY DEF Script, Start, Menu, ToolMenu
  <2>3. o # "start" /\ o # "quit"
    BY <1>6, <2>2
  <2> QED BY <1>1, <1>6, <2>1, <2>3, LongScripts, SoundToolkit
<1> QED BY <1>3, <1>4, <1>5, <1>6, Menus, Zenon
----------------------------------------------------------------------------
(* Types. *)

\* Where a step leads.
LEMMA Advance ==
  ASSUME TypeOK, state = "running", Go \/ Fail \/ Stay
  PROVE  /\ prog' = prog /\ op' = op /\ at' \in 1..Len(Script(prog, op)) + 1
         /\ state' \in {"running", "menu", "over"}
         /\ ProgramOK' /\ (Results => Results')
<1>1. Len(Script(prog, op)) \in Nat /\ at \in 1..Len(Script(prog, op))
  BY Lengths DEF TypeOK, ProgramOK, Fine
<1>2. CASE Go
  BY <1>1, <1>2 DEF TypeOK, ProgramOK, Go, Last, Returns, Results, HasMenu
<1>3. CASE Fail
  BY <1>1, <1>3 DEF TypeOK, ProgramOK, Fail, Returns, Results, HasMenu
<1>4. CASE Stay
  BY <1>1, <1>4 DEF TypeOK, ProgramOK, Stay, Results, HasMenu
<1> QED BY <1>2, <1>3, <1>4

\* The server a program talks to, after a step that does not connect it.
LEMMA SameHost ==
  ASSUME TypeOK, AtHost, state = "running", This.do # "connect" \/ Fail, Go \/ Fail \/ Stay, peer' = peer
  PROVE  AtHost'
<1>1. Len(Script(prog, op)) \in Nat /\ at \in 1..Len(Script(prog, op)) /\ SoundStep(prog, op, at)
  BY Lengths, Sound DEF TypeOK, ProgramOK, Fine
<1>2. CASE Go /\ This.do # "connect"
  <2>1. Joined(prog, op, at + 1) =>
          Joined(prog, op, at) /\ Host(prog, op, at + 1) = Host(prog, op, at)
    BY <1>1, <1>2 DEF SoundStep, This
  <2>2. prog' = prog /\ op' = op /\ at' = at + 1
    BY <1>2 DEF Go
  <2>3. prog \notin {"toolkit", "fulltest"} => Joined(prog, op, at + 1)
    BY <1>1 DEF Joined
  <2> QED BY <2>1, <2>2, <2>3 DEF AtHost
<1>3. CASE Fail
  <2>1. prog' = prog /\ op' = op /\ at' = at
    BY <1>3 DEF Fail
  <2>2. op = "start" => state' # "menu"
    BY <1>3 DEF Fail, Returns
  <2>3. prog \notin {"toolkit", "fulltest"} /\ op # "start" => Joined(prog, op, at)
    BY DEF Joined
  <2> QED BY <2>1, <2>2, <2>3 DEF AtHost
<1>4. CASE Stay
  BY <1>4 DEF Stay, AtHost
<1> QED BY <1>2, <1>3, <1>4

LEMMA Single ==
  ASSUME NEW P, NEW e \in P
  PROVE  <<e>> \in Seq(P) /\ Len(<<e>>) = 1 /\ <<e>>[1] = e /\ \A k \in 1..Len(<<e>>) : <<e>>[k] = e
  OBVIOUS

LEMMA Pair ==
  ASSUME NEW P, NEW e \in P, NEW f \in P
  PROVE  <<e, f>> \in Seq(P)
  OBVIOUS

\* What an answer looks like: one piece, or two.
OnePart(e, own, code) == e.own = own /\ e.code = code /\ e.part = "all" /\ e.eol
TwoParts(e, f, own, code) ==
  /\ e.own = own /\ f.own = own /\ e.part = "head" /\ f.part = "rest" /\ f.eol
  /\ peer = "ftp" => e.code = code
  /\ peer = "smtp" => e.code = "more" \/ f.code = NoCode
  /\ e.code \in {code, NoCode, "more"} /\ f.code \in {code, NoCode}

LEMMA ShapeOf ==
  ASSUME NEW own \in BOOLEAN, NEW code \in Codes, NEW s \in Shapes(own, code)
  PROVE  /\ s \in Seq(Pieces)
         /\ \/ Len(s) = 1 /\ OnePart(s[1], own, code)
            \/ Len(s) = 2 /\ TwoParts(s[1], s[2], own, code)
<1>1. CASE s = <<Piece(own, code, "all", TRUE)>>
  <2> DEFINE e == Piece(own, code, "all", TRUE)
  <2>1. e \in Pieces /\ e.own = own /\ e.code = code /\ e.part = "all" /\ e.eol
    BY DEF Piece, Pieces
  <2> HIDE DEF e
  <2>2. s = <<e>>
    BY <1>1 DEF e
  <2> QED BY <2>1, <2>2 DEF OnePart
<1>2. ASSUME NEW c \in {code, NoCode, "more"}, NEW d \in {code, NoCode}, NEW l \in BOOLEAN,
             s = <<Piece(own, c, "head", l), Piece(own, d, "rest", TRUE)>>,
             peer = "ftp" => c = code, peer = "smtp" => c = "more" \/ d = NoCode
      PROVE  /\ s \in Seq(Pieces)
             /\ Len(s) = 2 /\ s[1].own = own /\ s[2].own = own
             /\ s[1].part = "head" /\ s[2].part = "rest" /\ s[2].eol
             /\ s[1].code = c /\ s[2].code = d
  <2> DEFINE e == Piece(own, c, "head", l)
             f == Piece(own, d, "rest", TRUE)
  <2>0. c \in Codes /\ d \in Codes
    BY DEF Codes
  <2>1. e \in Pieces /\ e.own = own /\ e.code = c /\ e.part = "head"
    BY <2>0 DEF Piece, Pieces
  <2>2. f \in Pieces /\ f.own = own /\ f.code = d /\ f.part = "rest" /\ f.eol
    BY <2>0 DEF Piece, Pieces
  <2> HIDE DEF e, f
  <2>3. s = <<e, f>>
    BY <1>2 DEF e, f
  <2>4. s \in Seq(Pieces)
    <3>1. e \in Pieces /\ f \in Pieces
      BY <2>1, <2>2
    <3>2. <<e, f>> \in Seq(Pieces)
      BY <3>1, Pair
    <3> QED BY <2>3, <3>2
  <2>5. Len(s) = 2 /\ s[1] = e /\ s[2] = f
    BY <2>3
  <2> QED BY <2>1, <2>2, <2>4, <2>5
<1>3. CASE s # <<Piece(own, code, "all", TRUE)>>
  <2>1. \E c \in {code, NoCode, "more"}, d \in {code, NoCode}, l \in BOOLEAN :
          /\ s = <<Piece(own, c, "head", l), Piece(own, d, "rest", TRUE)>>
          /\ peer = "ftp" => c = code
          /\ peer = "smtp" => c = "more" \/ d = NoCode
    BY <1>3, Zenon DEF Shapes
  <2>2. PICK c \in {code, NoCode, "more"}, d \in {code, NoCode}, l \in BOOLEAN :
          /\ s = <<Piece(own, c, "head", l), Piece(own, d, "rest", TRUE)>>
          /\ peer = "ftp" => c = code
          /\ peer = "smtp" => c = "more" \/ d = NoCode
    BY <2>1
  <2> QED BY <1>2, <2>2 DEF TwoParts
<1> QED BY <1>1, <1>3

LEMMA OldCommands ==
  ASSUME NEW s \in Seq(Commands)
  PROVE  /\ Old(s) \in Seq(Commands) /\ Len(Old(s)) = Len(s)
         /\ \A k \in 1..Len(s) : Old(s)[k].cmd = s[k].cmd /\ Old(s)[k].own = FALSE
<1>1. PICK n \in Nat : n = Len(s) /\ DOMAIN s = 1..n
  OBVIOUS
<1>2. Old(s) = [k \in 1..n |-> [s[k] EXCEPT !.own = FALSE]]
  BY <1>1 DEF Old
<1>3. \A r \in Commands : /\ [r EXCEPT !.own = FALSE] \in Commands
                          /\ [r EXCEPT !.own = FALSE].cmd = r.cmd
                          /\ [r EXCEPT !.own = FALSE].own = FALSE
  BY DEF Commands
<1>4. \A k \in 1..n : s[k] \in Commands
  BY <1>1
<1>5. Old(s) \in [1..n -> Commands]
  BY <1>2, <1>3, <1>4
<1>6. Old(s) \in Seq(Commands) /\ Len(Old(s)) = n
  BY <1>5
<1>7. \A k \in 1..n : Old(s)[k] = [s[k] EXCEPT !.own = FALSE]
  BY <1>2
<1>8. ASSUME NEW k \in 1..n
      PROVE  Old(s)[k].cmd = s[k].cmd /\ Old(s)[k].own = FALSE
  <2>1. s[k] \in Commands /\ Old(s)[k] = [s[k] EXCEPT !.own = FALSE]
    BY <1>4, <1>7
  <2> QED BY <1>3, <2>1
<1> QED BY <1>1, <1>6, <1>8

LEMMA OldPieces ==
  ASSUME NEW s \in Seq(Pieces)
  PROVE  /\ Old(s) \in Seq(Pieces) /\ Len(Old(s)) = Len(s)
         /\ \A i \in 1..Len(s) :
              /\ Old(s)[i].own = FALSE /\ Old(s)[i].code = s[i].code
              /\ Old(s)[i].part = s[i].part /\ Old(s)[i].eol = s[i].eol
<1>1. PICK n \in Nat : n = Len(s) /\ DOMAIN s = 1..n
  OBVIOUS
<1>2. Old(s) = [i \in 1..n |-> [s[i] EXCEPT !.own = FALSE]]
  BY <1>1 DEF Old
<1>3. \A r \in Pieces : /\ [r EXCEPT !.own = FALSE] \in Pieces
                        /\ [r EXCEPT !.own = FALSE].own = FALSE
                        /\ [r EXCEPT !.own = FALSE].code = r.code
                        /\ [r EXCEPT !.own = FALSE].part = r.part
                        /\ [r EXCEPT !.own = FALSE].eol = r.eol
  BY DEF Pieces
<1>4. \A i \in 1..n : s[i] \in Pieces
  BY <1>1
<1>5. Old(s) \in [1..n -> Pieces]
  BY <1>2, <1>3, <1>4
<1>6. Old(s) \in Seq(Pieces) /\ Len(Old(s)) = n
  BY <1>5
<1>7. \A i \in 1..n : Old(s)[i] = [s[i] EXCEPT !.own = FALSE]
  BY <1>2
<1>8. ASSUME NEW i \in 1..n
      PROVE  /\ Old(s)[i].own = FALSE /\ Old(s)[i].code = s[i].code
             /\ Old(s)[i].part = s[i].part /\ Old(s)[i].eol = s[i].eol
  <2>1. s[i] \in Pieces /\ Old(s)[i] = [s[i] EXCEPT !.own = FALSE]
    BY <1>4, <1>7
  <2> QED BY <1>3, <2>1
<1> QED BY <1>1, <1>6, <1>8

LEMMA Blank ==
  /\ NoCode \in Codes /\ "more" \in Codes
  /\ \A c \in Codes \ {NoCode} : c # NoCode
  /\ NoCode \notin {"220", "331", "230", "227", "150", "250", "354", "226", "426", "421", "err"}
<1>1. NoCode \notin {"220", "331", "230", "227", "150", "250", "354", "226", "426", "421", "err"}
  BY Zenon DEF NoCode
<1> QED BY <1>1 DEF Codes

LEMMA ListingOf ==
  ASSUME NEW own \in BOOLEAN, NEW s \in Listing(own)
  PROVE  s \in Seq(Pieces) /\ \A i \in 1..Len(s) : s[i].own = own
<1> DEFINE e == Piece(own, "line", "all", TRUE)
           f == Piece(own, ".", "all", TRUE)
           g == Piece(own, "line", "head", TRUE)
           h == Piece(own, "line", "rest", TRUE)
<1>1. /\ e \in Pieces /\ e.own = own /\ f \in Pieces /\ f.own = own
      /\ g \in Pieces /\ g.own = own /\ h \in Pieces /\ h.own = own
  BY DEF Piece, Pieces, Codes
<1>2. s = <<e, f>> \/ s = <<g, h, f>>
  BY DEF Listing
<1> HIDE DEF e, f, g, h
<1>3. CASE s = <<e, f>>
  <2>1. s \in Seq(Pieces)
    BY <1>1, <1>3
  <2>2. \A i \in 1..Len(s) : s[i] = e \/ s[i] = f
    BY <1>3
  <2> QED BY <1>1, <2>1, <2>2
<1>4. CASE s = <<g, h, f>>
  <2>1. s \in Seq(Pieces)
    BY <1>1, <1>4
  <2>2. \A i \in 1..Len(s) : s[i] = g \/ s[i] = h \/ s[i] = f
    BY <1>4
  <2> QED BY <1>1, <2>1, <2>2
<1> QED BY <1>2, <1>3, <1>4

\* The sequences: what is put at the end, and what is taken from the front.
LEMMA Joint ==
  ASSUME NEW P, NEW s \in Seq(P), NEW t \in Seq(P)
  PROVE  /\ s \o t \in Seq(P) /\ Len(s \o t) = Len(s) + Len(t)
         /\ \A i \in 1..Len(s) : (s \o t)[i] = s[i]
         /\ \A i \in Len(s)+1..Len(s) + Len(t) : (s \o t)[i] = t[i - Len(s)]
  OBVIOUS

LEMMA Front ==
  ASSUME NEW P, NEW s \in Seq(P), NEW n \in 1..Len(s)
  PROVE  /\ SubSeq(s, n + 1, Len(s)) \in Seq(P) /\ Len(SubSeq(s, n + 1, Len(s))) = Len(s) - n
         /\ \A i \in 1..Len(s) - n : SubSeq(s, n + 1, Len(s))[i] = s[i + n]
  OBVIOUS

LEMMA Oldest ==
  ASSUME NEW P, NEW s \in Seq(P), s # <<>>
  PROVE  /\ Len(s) \in Nat /\ Len(s) >= 1 /\ Head(s) = s[1] /\ s[1] \in P
         /\ Tail(s) \in Seq(P) /\ Len(Tail(s)) = Len(s) - 1
         /\ \A i \in 1..Len(s) - 1 : Tail(s)[i] = s[i + 1]
  OBVIOUS

LEMMA Newest ==
  ASSUME NEW P, NEW s \in Seq(P), NEW e \in P
  PROVE  /\ Append(s, e) \in Seq(P) /\ Len(Append(s, e)) = Len(s) + 1
         /\ \A i \in 1..Len(s) : Append(s, e)[i] = s[i]
         /\ Append(s, e)[Len(s) + 1] = e
  OBVIOUS

\* An answer is put behind what is unread.
LEMMA Answered ==
  ASSUME inbox \in Seq(Pieces), NEW own \in BOOLEAN, NEW code \in Codes, Reply(own, code)
  PROVE  /\ inbox' \in Seq(Pieces) /\ Len(inbox') >= Len(inbox)
         /\ \A i \in 1..Len(inbox) : inbox'[i] = inbox[i]
         /\ \A i \in Len(inbox)+1..Len(inbox') :
              inbox'[i].own = own /\ inbox'[i].code \in {code, NoCode, "more"}
         /\ ~Unheard =>
              \/ Len(inbox') = Len(inbox) + 1 /\ OnePart(inbox'[Len(inbox) + 1], own, code)
              \/ /\ Len(inbox') = Len(inbox) + 2
                 /\ TwoParts(inbox'[Len(inbox) + 1], inbox'[Len(inbox) + 2], own, code)
<1>1. CASE Unheard
  BY <1>1 DEF Reply, Unheard
<1>2. CASE ~Unheard
  <2>1. PICK s \in Shapes(own, code) : inbox' = inbox \o s
    BY <1>2 DEF Reply
  <2>2. s \in Seq(Pieces)
    BY ShapeOf
  <2>3. /\ inbox' \in Seq(Pieces) /\ Len(inbox') = Len(inbox) + Len(s)
        /\ \A i \in 1..Len(inbox) : inbox'[i] = inbox[i]
        /\ \A i \in Len(inbox)+1..Len(inbox) + Len(s) : inbox'[i] = s[i - Len(inbox)]
    BY <2>1, <2>2, Joint
  <2>4. PICK n \in Nat : n = Len(inbox)
    OBVIOUS
  <2>5. PICK m \in Nat : m = Len(s)
    BY <2>2
  <2>6. CASE m = 1 /\ OnePart(s[1], own, code)
    <3>1. Len(inbox') = n + 1 /\ inbox'[n + 1] = s[1]
      BY <2>3, <2>4, <2>5, <2>6
    <3> QED BY <2>3, <2>4, <2>6, <3>1 DEF OnePart
  <2>7. CASE m = 2 /\ TwoParts(s[1], s[2], own, code)
    <3>1. Len(inbox') = n + 2 /\ inbox'[n + 1] = s[1] /\ inbox'[n + 2] = s[2]
      BY <2>3, <2>4, <2>5, <2>7
    <3> QED BY <2>3, <2>4, <2>7, <3>1 DEF TwoParts
  <2>8. \/ Len(s) = 1 /\ OnePart(s[1], own, code)
        \/ Len(s) = 2 /\ TwoParts(s[1], s[2], own, code)
    BY ShapeOf
  <2>9. (m = 1 /\ OnePart(s[1], own, code)) \/ (m = 2 /\ TwoParts(s[1], s[2], own, code))
    BY <2>5, <2>8, Zenon
  <2> QED BY <2>6, <2>7, <2>9
<1> QED BY <1>1, <1>2

LEMMA BaseInit == Init => Base
<1> SUFFICES ASSUME Init PROVE Base
  OBVIOUS
<1>1. prog \in Programs /\ op \in Operations(prog) /\ Fine(prog, op)
  BY ProgsAssumption, Lengths DEF Init, Operations
<1>2. Script(prog, op) = Start[prog]
  BY DEF Init, Script
<1>3. ProgramOK
  BY <1>1, <1>2 DEF Init, ProgramOK, Fine
<1>4. sent = <<>> /\ inbox = <<>> /\ sent \in Seq(Commands) /\ inbox \in Seq(Pieces)
  BY DEF Init
<1>5. NetworkOK
  BY <1>4 DEF Init, NetworkOK, Modes, Faults
<1>6. state = "menu" => prog = "toolkit"
  <2>1. prog # "toolkit" => Steps(prog, op) # 0
    BY <1>1, Menus, LongScripts DEF Init
  <2>2. Script(prog, op) = <<>> => Steps(prog, op) = 0
    BY DEF Steps
  <2> QED BY <1>2, <2>1, <2>2 DEF Init
<1>7. Results
  BY <1>6, Menus DEF Init, Results, HasMenu
<1>8. ~Joined(prog, op, at)
  BY <1>1, Menus DEF Init, Joined
<1>9. AtHost
  BY <1>6, <1>8 DEF AtHost, Init
<1>10. Connected
  BY <1>4 DEF Init, Connected
<1> QED BY <1>3, <1>5, <1>7, <1>9, <1>10 DEF Base, TypeOK

\* A step of the program that leaves the connection and the commands alone.
LEMMA BaseStep ==
  ASSUME Base, state = "running", Go \/ Fail \/ Stay, This.do # "connect" \/ Fail,
         UNCHANGED <<peer, sent>>, conn' \in {"none", "open", "ended", "broken"}, conn = "none" => conn' = "none",
         inbox' \in Seq(Pieces), mode' = mode,
         data' \in {"none", "asked", "up", "moving", "end", "closed"},
         file' \in {"none", "open", "whole"}, faults' \subseteq Faults
  PROVE  Base'
<1>1. ProgramOK' /\ Results'
  BY Advance DEF Base
<1>2. AtHost'
  BY SameHost DEF Base
<1>3. NetworkOK' /\ Connected'
  BY DEF Base, TypeOK, NetworkOK, Connected
<1> QED BY <1>1, <1>2, <1>3 DEF Base, TypeOK

LEMMA BaseChoose == ASSUME Base, Choose PROVE Base'
<1>1. PICK o \in DOMAIN Menu[prog] :
        Begin(o) /\ state' = IF o = "quit" /\ Menu[prog][o] = <<>> THEN "over" ELSE "running"
  BY DEF Choose
<1>2. prog \in Programs /\ o \in Operations(prog) /\ prog' = prog /\ op' = o /\ at' = 1 /\ result' = "none"
      /\ file' = "none" /\ state = "menu"
  BY <1>1 DEF Choose, Begin, Base, TypeOK, ProgramOK, Operations
<1>3. Fine(prog, o)
  BY <1>2, Lengths
<1>4. o # "start"
  <2>1. prog = "ftp" \/ prog = "pop3" \/ prog = "toolkit" \/ prog \in {"mail", "dotmail", "fulltest"}
    BY <1>2, Menus, Zenon
  <2>2. DOMAIN Menu[prog] \in {{"list", "get", "put", "delete", "cd", "quit"},
          {"stat", "list", "retr", "quit"}, {"dns", "http", "ftp", "smtp", "pop3", "quit"}, {"quit"}}
    BY <2>1, Menus, Zenon
  <2> QED BY <2>2
<1>5. ProgramOK'
  BY <1>1, <1>2, <1>3, <1>4 DEF ProgramOK, Fine
<1>6. /\ sent' \in Seq(Commands) /\ Len(sent') = Len(sent)
      /\ \A k \in 1..Len(sent) : sent'[k].cmd = sent[k].cmd
  BY OldCommands DEF Choose, Base, TypeOK, NetworkOK
<1>7. inbox' \in Seq(Pieces)
  BY OldPieces DEF Choose, Base, TypeOK, NetworkOK
<1>8. NetworkOK'
  BY <1>2, <1>6, <1>7 DEF Choose, Base, TypeOK, NetworkOK
<1>9. sent = <<>> => sent' = <<>>
  BY <1>6
<1>10. Connected'
  BY <1>6, <1>9 DEF Choose, Base, Connected
<1>11. Results'
  BY <1>1, <1>2 DEF Results
<1>12. AtHost'
  <2>1. prog \in {"toolkit", "fulltest"} => ~Joined(prog, o, 1)
    BY DEF Joined
  <2>2. prog \notin {"toolkit", "fulltest"} =>
          Joined(prog, op, at) /\ Joined(prog, o, 1) /\ Host(prog, o, 1) = Host(prog, op, at)
    BY <1>2, <1>4 DEF Base, AtHost, Joined, Host
  <2>3. peer' = peer
    BY DEF Choose
  <2> QED BY <1>2, <2>1, <2>2, <2>3 DEF Base, AtHost
<1> QED BY <1>5, <1>8, <1>10, <1>11, <1>12 DEF Base, TypeOK

LEMMA BaseConnect == ASSUME Base, ConnectTo PROVE Base'
<1>1. state = "running" /\ This.do = "connect"
  BY DEF ConnectTo, Here, This
<1>2. CASE Fail /\ UNCHANGED <<peer, conn, sent, inbox, mode, data>>
  BY <1>1, <1>2, BaseStep DEF ConnectTo, Base, TypeOK, NetworkOK
<1>3. CASE /\ Go /\ peer' = This.what /\ conn' = "open"
           /\ sent' = <<[cmd |-> "connect", own |-> TRUE]>> /\ inbox' = <<>>
           /\ mode' = "ready" /\ data' = "none"
  <2>1. ProgramOK' /\ Results'
    BY <1>1, <1>3, Advance DEF Base
  <2>2. at \in 1..Len(Script(prog, op)) /\ SoundStep(prog, op, at)
    BY <1>1, Lengths, Sound DEF Base, TypeOK, ProgramOK, Fine
  <2>3. /\ peer' \in {"ftp", "smtp", "pop3", "http"}
        /\ Joined(prog, op, at + 1) /\ Host(prog, op, at + 1) = peer'
    BY <1>1, <1>3, <2>2 DEF SoundStep, This
  <2>4. AtHost'
    BY <1>3, <2>3 DEF AtHost, Go
  <2>5. DEFINE e == [cmd |-> "connect", own |-> TRUE]
  <2>6. e \in Commands /\ e.cmd = "connect"
    BY DEF Commands, Words
  <2>7. sent' = <<e>>
    BY <1>3
  <2> HIDE DEF e
  <2>8. sent' \in Seq(Commands) /\ inbox' \in Seq(Pieces) /\ \A k \in 1..Len(sent') : sent'[k] = e
    <3>1. <<e>> \in Seq(Commands) /\ \A k \in 1..Len(<<e>>) : <<e>>[k] = e
      BY <2>6, Single
    <3>2. inbox' \in Seq(Pieces)
      BY <1>3
    <3> QED BY <2>7, <3>1, <3>2
  <2>9. NetworkOK'
    BY <1>3, <2>3, <2>8 DEF ConnectTo, Base, TypeOK, NetworkOK, Modes
  <2>10. "connect" \in Understood(peer')
    BY <2>3, Vocabulary
  <2>11. Connected'
    BY <2>3, <2>6, <2>8, <2>10 DEF Connected
  <2> QED BY <2>1, <2>4, <2>9, <2>11 DEF Base, TypeOK
<1> QED BY <1>2, <1>3 DEF ConnectTo

LEMMA BaseSend == ASSUME Base, SendOn PROVE Base'
<1>1. state = "running" /\ This.do = "send"
  BY DEF SendOn, Here, This
<1>2. inbox \in Seq(Pieces) /\ Old(inbox) \in Seq(Pieces)
  BY OldPieces DEF Base, TypeOK, NetworkOK
<1>3. CASE /\ conn \in {"ended", "broken"} /\ Go /\ conn' = "broken"
           /\ inbox' = Old(inbox) /\ UNCHANGED sent
  BY <1>1, <1>2, <1>3, BaseStep DEF SendOn, Base, TypeOK, NetworkOK
<1>4. CASE /\ conn = "broken" /\ state' = "killed"
           /\ UNCHANGED <<prog, op, at, result, conn, sent, inbox>>
  BY <1>1, <1>4 DEF SendOn, Base, TypeOK, ProgramOK, NetworkOK, Results, AtHost, Connected
<1>5. CASE /\ conn = "open" /\ Go
           /\ sent' = Append(Old(sent), [cmd |-> This.what, own |-> TRUE])
           /\ inbox' = Old(inbox) /\ UNCHANGED conn
  <2>1. ProgramOK' /\ Results'
    BY <1>1, <1>5, Advance DEF Base
  <2>2. AtHost'
    BY <1>1, <1>5, SameHost DEF Base, SendOn
  <2>3. at \in 1..Len(Script(prog, op)) /\ SoundStep(prog, op, at)
    BY <1>1, Lengths, Sound DEF Base, TypeOK, ProgramOK, Fine
  <2>4. This.what \in Understood(peer) /\ peer' = peer
    BY <1>1, <2>3 DEF SoundStep, This, Base, AtHost, SendOn
  <2>5. peer \in {"ftp", "smtp", "pop3", "http"}
    BY <1>5 DEF Base, TypeOK, NetworkOK, Connected
  <2>6. DEFINE e == [cmd |-> This.what, own |-> TRUE]
  <2>7. e \in Commands /\ e.cmd = This.what
    BY <2>4, <2>5, Dictionary DEF Commands
  <2>8. sent' = Append(Old(sent), e)
    BY <1>5
  <2> HIDE DEF e
  <2>9. /\ Old(sent) \in Seq(Commands) /\ Len(Old(sent)) = Len(sent)
        /\ \A k \in 1..Len(sent) : Old(sent)[k].cmd = sent[k].cmd
    BY OldCommands DEF Base, TypeOK, NetworkOK
  <2>10. /\ sent' \in Seq(Commands) /\ Len(sent') = Len(sent) + 1
         /\ \A k \in 1..Len(sent) : sent'[k] = Old(sent)[k]
         /\ sent'[Len(sent) + 1] = e
    BY <2>7, <2>8, <2>9, Newest
  <2>11. NetworkOK'
    BY <1>2, <1>5, <2>10 DEF SendOn, Base, TypeOK, NetworkOK
  <2>12. ASSUME NEW k \in 1..Len(sent')
         PROVE  sent'[k].cmd \in Understood(peer)
    <3>1. CASE k = Len(sent) + 1
      BY <2>4, <2>7, <2>10, <3>1
    <3>2. CASE k \in 1..Len(sent)
      BY <2>9, <2>10, <3>2 DEF Base, Connected
    <3>3. Len(sent) \in Nat
      BY DEF Base, TypeOK, NetworkOK
    <3> QED BY <2>10, <3>1, <3>2, <3>3
  <2>13. Connected'
    BY <2>4, <2>5, <2>12 DEF Connected
  <2> QED BY <2>1, <2>2, <2>11, <2>13 DEF Base, TypeOK
<1> QED BY <1>3, <1>4, <1>5 DEF SendOn

\* What a reader leaves in the inbox.
LEMMA Remains ==
  ASSUME inbox \in Seq(Pieces), NEW n \in Readable, inbox' = SubSeq(inbox, n + 1, Len(inbox))
  PROVE  /\ n \in 1..Len(inbox) /\ inbox' \in Seq(Pieces) /\ Len(inbox') = Len(inbox) - n
         /\ \A i \in 1..Len(inbox) - n : inbox'[i] = inbox[i + n]
<1>1. n \in 1..Len(inbox)
  BY DEF Readable
<1> QED BY <1>1, Front

LEMMA Noticed == ASSUME faults \subseteq Faults, NEW n PROVE faults \cup Amiss(n) \subseteq Faults
  BY DEF Faults, Amiss

LEMMA BaseRead == ASSUME Base, ReadReply \/ ReadLines \/ EnterPassive PROVE Base'
<1>1. state = "running" /\ This.do # "connect"
  BY DEF ReadReply, ReadLines, EnterPassive, Here, This
<1>2. /\ UNCHANGED <<peer, sent, conn, mode, file>> /\ (Go \/ Fail \/ Stay)
      /\ data' = data \/ data' = "up"
      /\ UNCHANGED inbox \/ \E n \in Readable : inbox' = SubSeq(inbox, n + 1, Len(inbox))
      /\ UNCHANGED faults \/ (\E n \in Readable : faults' = faults \cup Amiss(n))
         \/ faults' = faults \cup {"unset"}
         \/ (\E n \in Readable : faults' = faults \cup Amiss(n) \cup {"unset"})
  <2>1. CASE ReadReply
    BY <2>1 DEF ReadReply, GoOr
  <2>2. CASE ReadLines
    BY <2>2 DEF ReadLines
  <2>3. CASE EnterPassive
    BY <2>3 DEF EnterPassive
  <2> QED BY <2>1, <2>2, <2>3
<1>3. inbox' \in Seq(Pieces)
  BY <1>2, Remains DEF Base, TypeOK, NetworkOK
<1>4. faults' \subseteq Faults
  BY <1>2, Noticed DEF Base, TypeOK, NetworkOK, Faults
<1> QED BY <1>1, <1>2, <1>3, <1>4, BaseStep DEF Base, TypeOK, NetworkOK

LEMMA BasePage == ASSUME Base, ReceivePage PROVE Base'
<1>1. state = "running" /\ This.do # "connect"
  BY DEF ReceivePage, Here, This
<1>2. inbox' \in Seq(Pieces)
  BY DEF ReceivePage
<1>3. CASE Go
  BY <1>1, <1>2, <1>3, BaseStep DEF ReceivePage, Base, TypeOK, NetworkOK
<1>4. CASE state' = "killed" /\ UNCHANGED <<prog, op, at, result>>
  BY <1>1, <1>2, <1>4 DEF ReceivePage, Base, TypeOK, ProgramOK, NetworkOK, Results, AtHost, Connected
<1> QED BY <1>3, <1>4 DEF ReceivePage

LEMMA BaseLocal ==
  ASSUME Base, ResolveName \/ CreateFile \/ FetchData \/ UploadNothing PROVE Base'
<1>1. state = "running" /\ This.do # "connect"
  BY DEF ResolveName, CreateFile, FetchData, UploadNothing, Here, This
<1>2. /\ UNCHANGED <<peer, sent, inbox, conn, mode>> /\ (Go \/ Fail \/ Stay)
      /\ data' = data \/ data' = "closed"
      /\ file' \in {file, "open", "whole"} /\ faults' \subseteq faults \cup {"open"}
  <2>1. CASE ResolveName
    BY <2>1 DEF ResolveName, server
  <2>2. CASE CreateFile
    BY <2>2 DEF CreateFile, server
  <2>3. CASE FetchData
    BY <2>3 DEF FetchData
  <2>4. CASE UploadNothing
    BY <2>4 DEF UploadNothing
  <2> QED BY <2>1, <2>2, <2>3, <2>4
<1> QED BY <1>1, <1>2, BaseStep DEF Base, TypeOK, NetworkOK, Faults

LEMMA BaseServer ==
  ASSUME Base, UNCHANGED <<client, peer, file, faults>>,
         conn' \in {"none", "open", "ended", "broken"}, conn = "none" => conn' = "none",
         sent' = sent \/ (sent # <<>> /\ sent' = Tail(sent)), inbox' \in Seq(Pieces), mode' \in Modes,
         data' \in {"none", "asked", "up", "moving", "end", "closed"}
  PROVE  Base'
<1>1. ProgramOK' /\ Results' /\ AtHost'
  BY DEF Base, TypeOK, ProgramOK, Results, AtHost, client, HasMenu
<1>2. sent' \in Seq(Commands) /\ (sent = <<>> => sent' = <<>>)
  BY Oldest DEF Base, TypeOK, NetworkOK
<1>3. NetworkOK'
  BY <1>2 DEF Base, TypeOK, NetworkOK
<1>4. Connected'
  <2>1. ASSUME NEW k \in 1..Len(sent') PROVE sent'[k].cmd \in Understood(peer)
    <3>1. CASE sent' = sent
      BY <3>1 DEF Base, Connected
    <3>2. CASE sent # <<>> /\ sent' = Tail(sent)
      <4>1. /\ Len(sent') = Len(sent) - 1 /\ Len(sent) \in Nat
            /\ \A i \in 1..Len(sent) - 1 : sent'[i] = sent[i + 1]
        BY <3>2, Oldest DEF Base, TypeOK, NetworkOK
      <4>2. k + 1 \in 1..Len(sent) /\ sent'[k] = sent[k + 1]
        BY <4>1
      <4> QED BY <4>2 DEF Base, Connected
    <3> QED BY <3>1, <3>2
  <2> QED BY <1>2, <2>1 DEF Base, Connected
<1> QED BY <1>1, <1>3, <1>4 DEF Base, TypeOK

LEMMA BaseAnswer == ASSUME Base, Answer PROVE Base'
<1> DEFINE c == Head(sent).cmd
           own == Head(sent).own
<1>1. sent # <<>> /\ sent' = Tail(sent) /\ conn = "open" /\ UNCHANGED <<client, peer, file, faults>>
  BY DEF Answer
<1>2. c \in Words /\ own \in BOOLEAN /\ c \in Understood(peer)
  <2>1. 1 \in 1..Len(sent) /\ Head(sent) = sent[1] /\ sent[1] \in Commands
    BY <1>1, Oldest DEF Base, TypeOK, NetworkOK
  <2>2. sent[1].cmd \in Understood(peer)
    BY <2>1 DEF Base, Connected
  <2> QED BY <2>1, <2>2 DEF Commands
<1>3. peer \in {"ftp", "smtp", "pop3", "http"}
  BY <1>1 DEF Base, TypeOK, NetworkOK, Connected
<1> HIDE DEF c, own
<1>4. /\ conn' \in {"open", "ended"} /\ mode' \in Modes
      /\ data' \in {data, "asked", "moving"}
      /\ \/ UNCHANGED inbox
         \/ (peer = "http" => c = "end") /\ Reply(own, Good[peer][c])
         \/ Reply(own, "err")
         \/ \E s \in Listing(own) : inbox' = inbox \o <<Piece(own, "+OK", "all", TRUE)>> \o s
  BY <1>1 DEF Answer, c, own, Modes, Base, TypeOK, NetworkOK
<1>5. inbox' \in Seq(Pieces)
  <2>1. CASE (peer = "http" => c = "end") /\ Reply(own, Good[peer][c])
    <3>1. Good[peer][c] \in Codes
      BY <1>2, <1>3, <2>1, Dictionary
    <3> QED BY <1>2, <2>1, <3>1, Answered DEF Base, TypeOK, NetworkOK
  <2>2. CASE Reply(own, "err")
    <3>1. "err" \in Codes
      BY DEF Codes
    <3> QED BY <1>2, <2>2, <3>1, Answered DEF Base, TypeOK, NetworkOK
  <2>3. ASSUME NEW s \in Listing(own), inbox' = inbox \o <<Piece(own, "+OK", "all", TRUE)>> \o s
        PROVE  inbox' \in Seq(Pieces)
    <3>1. s \in Seq(Pieces)
      BY <1>2, ListingOf
    <3>2. Piece(own, "+OK", "all", TRUE) \in Pieces
      BY <1>2 DEF Piece, Pieces, Codes
    <3>3. PICK e \in Pieces : e = Piece(own, "+OK", "all", TRUE)
      BY <3>2
    <3>4. PICK q \in Seq(Pieces) : q = <<e>>
      BY Single
    <3>5. inbox' = (inbox \o q) \o s
      BY <2>3, <3>3, <3>4
    <3>6. inbox \o q \in Seq(Pieces)
      BY Joint DEF Base, TypeOK, NetworkOK
    <3> QED BY <3>1, <3>5, <3>6, Joint
  <2> QED BY <1>4, <2>1, <2>2, <2>3 DEF Base, TypeOK, NetworkOK
<1> QED BY <1>1, <1>4, <1>5, BaseServer DEF Base, TypeOK, NetworkOK

LEMMA BaseOthers == ASSUME Base, EndTransfer \/ CloseIdle PROVE Base'
<1>1. CASE EndTransfer
  <2>1. PICK own \in BOOLEAN, code \in {"226", "426"} :
          /\ Reply(own, code)
          /\ data' = IF data = "closed" THEN data ELSE IF code = "226" THEN "end" ELSE "none"
    BY <1>1, Zenon DEF EndTransfer
  <2>2. code \in Codes
    BY DEF Codes
  <2>3. inbox' \in Seq(Pieces)
    BY <2>1, <2>2, Answered DEF Base, TypeOK, NetworkOK
  <2>4. mode' = "ready" /\ UNCHANGED <<client, peer, conn, sent, file, faults>>
    BY <1>1 DEF EndTransfer
  <2> QED BY <2>1, <2>3, <2>4, BaseServer DEF Base, TypeOK, NetworkOK, Modes
<1>2. CASE CloseIdle
  <2>1. PICK e \in Pieces : e = Piece(FALSE, "421", "all", TRUE)
    BY DEF Piece, Pieces, Codes
  <2>2. inbox' \in Seq(Pieces)
    <3>1. inbox' = inbox \/ inbox' = Append(inbox, e)
      BY <1>2, <2>1 DEF CloseIdle
    <3>2. inbox \in Seq(Pieces)
      BY DEF Base, TypeOK, NetworkOK
    <3> QED BY <3>1, <3>2, Newest
  <2>3. conn = "open" /\ conn' = "ended" /\ UNCHANGED <<client, peer, sent, mode, data, done, file, faults>>
    BY <1>2 DEF CloseIdle
  <2> QED BY <2>2, <2>3, BaseServer DEF Base, TypeOK, NetworkOK
<1> QED BY <1>1, <1>2

LEMMA BaseNext == ASSUME Base, [Next]_vars PROVE Base'
<1>1. CASE UNCHANGED vars
  BY <1>1 DEF vars, client, server, Base, TypeOK, ProgramOK, NetworkOK, Results, HasMenu, AtHost, Connected
<1>2. CASE Choose
  BY <1>2, BaseChoose
<1>3. CASE Client
  BY <1>3, BaseConnect, BaseSend, BaseRead, BasePage, BaseLocal DEF Client
<1>4. CASE Server
  BY <1>4, BaseAnswer, BaseOthers DEF Server
<1> QED BY <1>1, <1>2, <1>3, <1>4 DEF Next, Rest

\* TypeOK holds for every number of replies that may be unread: no program is ever at
\* a step it does not have, or sends a server a command it does not know.
THEOREM TypeCorrect == Spec => []TypeOK
<1>1. Base /\ [Next]_vars => Base'
  BY BaseNext
<1>2. Base => TypeOK
  BY DEF Base
<1> QED BY BaseInit, <1>1, <1>2, PTL DEF Spec
----------------------------------------------------------------------------
(* What the actions do to the commands and the answers. *)

Aged == /\ Len(inbox') = Len(inbox)
        /\ \A i \in 1..Len(inbox) : /\ inbox'[i].own = FALSE /\ inbox'[i].code = inbox[i].code
                                   /\ inbox'[i].part = inbox[i].part /\ inbox'[i].eol = inbox[i].eol

LEMMA Sent ==
  ASSUME Base, SendOn
  PROVE  /\ state = "running" /\ This.do = "send"
         /\ UNCHANGED <<prog, op, peer, mode, data, done, file, faults>>
         /\ \/ /\ conn = "open" /\ conn' = "open" /\ Go /\ Aged
               /\ Len(sent') = Len(sent) + 1
               /\ \A k \in 1..Len(sent) : sent'[k].cmd = sent[k].cmd /\ sent'[k].own = FALSE
               /\ sent'[Len(sent) + 1] = [cmd |-> This.what, own |-> TRUE]
            \/ conn \in {"ended", "broken"} /\ conn' = "broken" /\ Go /\ Aged /\ sent' = sent
            \/ /\ conn = "broken" /\ state' = "killed"
               /\ UNCHANGED <<at, result, conn, sent, inbox>>
<1>1. /\ state = "running" /\ This.do = "send"
      /\ UNCHANGED <<prog, op, peer, mode, data, done, file, faults>>
  BY DEF SendOn, Here, This, Go
<1>2. inbox' = Old(inbox) => Aged
  BY OldPieces DEF Aged, Base, TypeOK, NetworkOK
<1>3. CASE conn = "open"
  <2>1. Go /\ Aged /\ conn' = conn /\ sent' = Append(Old(sent), [cmd |-> This.what, own |-> TRUE])
    BY <1>2, <1>3 DEF SendOn
  <2>2. /\ Old(sent) \in Seq(Commands) /\ Len(Old(sent)) = Len(sent)
        /\ \A k \in 1..Len(sent) : Old(sent)[k].cmd = sent[k].cmd /\ Old(sent)[k].own = FALSE
    BY OldCommands DEF Base, TypeOK, NetworkOK
  <2>3. PICK e : e = [cmd |-> This.what, own |-> TRUE]
    OBVIOUS
  <2>4. PICK s : s = Old(sent)
    OBVIOUS
  <2>5. /\ Len(sent') = Len(s) + 1 /\ sent'[Len(s) + 1] = e
        /\ \A k \in 1..Len(s) : sent'[k] = s[k]
    BY <2>1, <2>2, <2>3, <2>4
  <2>6. /\ Len(sent') = Len(sent) + 1 /\ sent'[Len(sent) + 1] = [cmd |-> This.what, own |-> TRUE]
        /\ \A k \in 1..Len(sent) : sent'[k] = Old(sent)[k]
    BY <2>2, <2>3, <2>4, <2>5, Zenon
  <2> QED BY <1>1, <1>3, <2>1, <2>2, <2>6
<1>4. CASE conn # "open"
  BY <1>1, <1>2, <1>4 DEF SendOn
<1> QED BY <1>3, <1>4

\* What the server has done with the first command.
LEMMA Served ==
  ASSUME Base, Answer
  PROVE  LET c == sent[1].cmd
             own == sent[1].own IN
         /\ Len(sent) \in Nat \ {0} /\ Len(sent') = Len(sent) - 1
         /\ \A k \in 1..Len(sent) - 1 : sent'[k] = sent[k + 1]
         /\ c \in Understood(peer) /\ own \in BOOLEAN
         /\ conn = "open" /\ mode \notin Transfers /\ UNCHANGED <<client, peer, file, faults>>
         /\ peer \in {"ftp", "smtp", "pop3", "http"}
<1>1. sent # <<>> /\ sent' = Tail(sent) /\ conn = "open" /\ mode \notin Transfers
      /\ UNCHANGED <<client, peer, file, faults>>
  BY DEF Answer, Transfers
<1>2. /\ Len(sent) \in Nat /\ Len(sent) >= 1 /\ sent[1] \in Commands
      /\ Len(sent') = Len(sent) - 1
      /\ \A k \in 1..Len(sent) - 1 : sent'[k] = sent[k + 1]
  BY <1>1, Oldest DEF Base, TypeOK, NetworkOK
<1>3. sent[1].cmd \in Understood(peer)
  BY <1>2 DEF Base, Connected
<1>4. peer \in {"ftp", "smtp", "pop3", "http"}
  BY <1>1 DEF Base, TypeOK, NetworkOK, Connected
<1> QED BY <1>1, <1>2, <1>3, <1>4 DEF Commands

Taking(n) ==
  /\ n \in 1..Len(inbox) /\ inbox' \in Seq(Pieces) /\ Len(inbox') = Len(inbox) - n
  /\ \A i \in 1..Len(inbox) - n : inbox'[i] = inbox[i + n]
  /\ faults' \in {faults \cup Amiss(n), faults \cup Amiss(n) \cup {"unset"}}
\* The rest of some answer has no code, and nothing else had set it.
NotSet == /\ This.do = "read" /\ This.unset /\ Go /\ peer = "ftp" /\ inbox[1].code = NoCode
          /\ "unset" \in faults'

LEMMA Heard ==
  ASSUME Base, ReadReply
  PROVE  /\ state = "running" /\ This.do \in {"read", "skip"}
         /\ UNCHANGED <<prog, op, peer, conn, sent, mode, data, done, file>>
         /\ \/ \E n \in Readable :
                 /\ Taking(n)
                 /\ Go \/ (This.do = "read" /\ Fail /\ inbox[1].code # This.ok)
                 /\ This.do = "read" /\ Go => inbox[1].code = This.ok
            \/ \E n \in Readable : Taking(n) /\ NotSet
            \/ /\ AtEnd /\ inbox' = inbox
               /\ \/ This.do = "read" /\ Fail /\ faults' = faults
                  \/ This.do = "read" /\ This.unset /\ Go /\ faults' = faults \cup {"unset"}
                  \/ This.do = "skip" /\ Go /\ faults' = faults
<1>1. /\ state = "running" /\ This.do \in {"read", "skip"}
      /\ UNCHANGED <<prog, op, peer, conn, sent, mode, data, done, file>>
  BY DEF ReadReply, Here, This, GoOr, Go, Fail
<1>2. ASSUME NEW n \in Readable, inbox' = SubSeq(inbox, n + 1, Len(inbox)),
             faults' \in {faults \cup Amiss(n), faults \cup Amiss(n) \cup {"unset"}}
      PROVE  Taking(n)
  BY <1>2, Remains DEF Taking, Base, TypeOK, NetworkOK
<1>3. CASE Here("read") /\ \E n \in Readable :
             /\ GoOr(Takes(inbox[1].code))
             /\ inbox' = SubSeq(inbox, n + 1, Len(inbox)) /\ faults' = faults \cup Amiss(n)
  <2>1. PICK n \in Readable :
          /\ GoOr(Takes(inbox[1].code))
          /\ inbox' = SubSeq(inbox, n + 1, Len(inbox)) /\ faults' = faults \cup Amiss(n)
    BY <1>3
  <2>2. /\ Go \/ (Fail /\ ~Takes(inbox[1].code))
        /\ Go => Takes(inbox[1].code)
    <3>1. CASE Takes(inbox[1].code)
      BY <2>1, <3>1 DEF GoOr
    <3>2. CASE ~Takes(inbox[1].code)
      <4>1. Fail
        BY <2>1, <3>2 DEF GoOr
      <4>2. at' = at /\ at \in Int
        BY <4>1 DEF Fail, Base, TypeOK, ProgramOK
      <4>3. ~Go
        BY <4>2 DEF Go
      <4> QED BY <3>2, <4>1, <4>3
    <3> QED BY <3>1, <3>2
  <2> QED BY <1>1, <1>2, <1>3, <2>1, <2>2 DEF Takes, Here, This
<1>4. CASE Here("skip") /\ \E n \in Readable :
             /\ Go /\ inbox' = SubSeq(inbox, n + 1, Len(inbox)) /\ faults' = faults \cup Amiss(n)
  BY <1>1, <1>2, <1>4 DEF Here, This
<1>5. CASE Here("read") /\ AtEnd /\ UNCHANGED inbox
             /\ \/ Fail /\ UNCHANGED faults
                \/ This.unset /\ Go /\ faults' = faults \cup {"unset"}
  BY <1>1, <1>5 DEF Here, This
<1>6. CASE Here("skip") /\ AtEnd /\ Go /\ UNCHANGED <<inbox, faults>>
  BY <1>1, <1>6 DEF Here, This
<1>7. CASE Here("read") /\ \E n \in Readable :
             /\ inbox' = SubSeq(inbox, n + 1, Len(inbox))
             /\ peer = "ftp" /\ inbox[1].code = NoCode /\ This.unset
             /\ Go /\ faults' = faults \cup Amiss(n) \cup {"unset"}
  BY <1>1, <1>2, <1>7 DEF NotSet, Here, This
<1> QED BY <1>3, <1>4, <1>5, <1>6, <1>7 DEF ReadReply

LEMMA Closed ==
  ASSUME Base, CloseIdle
  PROVE  /\ conn = "open" /\ conn' = "ended" /\ sent = <<>> /\ mode \notin Transfers
         /\ UNCHANGED <<client, peer, sent, mode, data, done, file, faults>>
         /\ \/ inbox' = inbox
            \/ /\ Len(inbox') = Len(inbox) + 1
               /\ \A i \in 1..Len(inbox) : inbox'[i] = inbox[i]
               /\ OnePart(inbox'[Len(inbox) + 1], FALSE, "421")
<1>1. /\ conn = "open" /\ conn' = "ended" /\ sent = <<>> /\ mode \notin Transfers
      /\ UNCHANGED <<client, peer, sent, mode, data, done, file, faults>>
  BY DEF CloseIdle, Transfers
<1>2. PICK e \in Pieces : e = Piece(FALSE, "421", "all", TRUE)
  BY DEF Piece, Pieces, Codes
<1>3. inbox' = inbox \/ inbox' = Append(inbox, e)
  BY <1>2 DEF CloseIdle
<1>4. OnePart(e, FALSE, "421")
  BY <1>2 DEF OnePart, Piece
<1>5. inbox \in Seq(Pieces)
  BY DEF Base, TypeOK, NetworkOK
<1>6. inbox' = Append(inbox, e) =>
        /\ Len(inbox') = Len(inbox) + 1
        /\ \A i \in 1..Len(inbox) : inbox'[i] = inbox[i]
        /\ OnePart(inbox'[Len(inbox) + 1], FALSE, "421")
  <2> SUFFICES ASSUME inbox' = Append(inbox, e)
               PROVE  /\ Len(inbox') = Len(inbox) + 1
                      /\ \A i \in 1..Len(inbox) : inbox'[i] = inbox[i]
                      /\ OnePart(inbox'[Len(inbox) + 1], FALSE, "421")
    OBVIOUS
  <2>1. Len(inbox') = Len(inbox) + 1 /\ \A i \in 1..Len(inbox) : inbox'[i] = inbox[i]
    BY <1>5
  <2>2. inbox'[Len(inbox) + 1] = e
    BY <1>5
  <2> QED BY <1>4, <2>1, <2>2
<1> QED BY <1>1, <1>3, <1>6

----------------------------------------------------------------------------
(* A mail. *)

LEMMA MailSteps ==
  ASSUME Base, prog = "mail", state = "running"
  PROVE  /\ op = "start"
         /\ \/ at = 1 /\ This.do = "connect"
            \/ at \in {2, 4, 6, 8, 16} /\ This.do = "read" /\ ~This.unset
            \/ at = 10 /\ This.do = "read" /\ ~This.unset /\ This.ok = "354"
            \/ at = 14 /\ This.do = "read" /\ ~This.unset /\ This.ok = "250"
            \/ at \in {3, 5, 7} /\ This.do = "send" /\ This.what # "DATA"
            \/ at \in {9, 15} /\ This.do = "send"
            \/ at \in {11, 12} /\ This.do = "send" /\ This.what = "text"
            \/ at = 13 /\ This.do = "send" /\ This.what = "."
<1>1. at \in 1..Steps(prog, op) /\ op \in Operations("mail") /\ Fine(prog, op)
  BY Lengths DEF Base, TypeOK, ProgramOK, Fine, Steps
<1>2. op \in {"start", "quit"}
  BY <1>1, Menus, Zenon DEF Operations
<1>3. op # "quit"
  <2>1. Script("mail", "quit") = <<>>
    BY DEF Menu, NoMenu, Script
  <2> QED BY <1>1, <2>1 DEF Steps
<1>4. op = "start" /\ at \in 1..16
  BY <1>1, <1>2, <1>3, LongScripts
<1> QED BY <1>4, MailScript, Parts DEF This

LEMMA SmtpCodes ==
  \A c \in Understood("smtp") : /\ Good["smtp"][c] = "354" => c = "DATA"
                               /\ Good["smtp"][c] \in Codes
  BY DEF Understood, Good, Codes

LEMMA MailServed ==
  ASSUME Base, Answer, prog = "mail"
  PROVE  LET c == sent[1].cmd
             own == sent[1].own IN
         /\ peer = "smtp" /\ ~Unheard /\ done \subseteq done'
         /\ \/ mode = "mail" /\ c # "." /\ UNCHANGED <<inbox, mode, done>>
            \/ /\ Reply(own, Good["smtp"][c]) /\ (mode = "mail" => c = ".")
               /\ c = "DATA" => mode' = "mail"
               /\ c = "." /\ own => "." \in done'
            \/ Reply(own, "err") /\ (mode = "mail" => c = ".") /\ (mode # "mail" => mode' = mode)
<1> DEFINE c == sent[1].cmd
           own == sent[1].own
<1>1. peer = "smtp" /\ ~Unheard
  BY Served DEF Base, AtHost, Host, Unheard
<1>2. Head(sent) = sent[1]
  BY Oldest DEF Answer, Base, TypeOK, NetworkOK
<1> HIDE DEF c, own
<1>3. /\ done \subseteq done'
      /\ \/ mode = "mail" /\ c # "." /\ UNCHANGED <<inbox, mode, done>>
         \/ /\ Reply(own, Good["smtp"][c]) /\ (mode = "mail" => c = ".")
            /\ c = "DATA" => mode' = "mail"
            /\ c = "." /\ own => "." \in done'
         \/ Reply(own, "err") /\ (mode = "mail" => c = ".") /\ (mode # "mail" => mode' = mode)
  BY <1>1, <1>2 DEF Answer, c, own, Effects
<1> QED BY <1>1, <1>3 DEF c, own

LEMMA MailSend == ASSUME Base, Mail, prog = "mail", SendOn PROVE Mail'
<1>0. state = "running" /\ This.do = "send"
  BY Sent
<1>1. /\ at \in {3, 5, 7, 9, 11, 12, 13, 15} /\ (at \in {3, 5, 7} => This.what # "DATA")
      /\ (at \in {11, 12} => This.what = "text") /\ (at = 13 => This.what = ".")
  BY <1>0, MailSteps
<1>2. UNCHANGED <<prog, mode, done>> /\ (at' = at \/ at' = at + 1)
  BY Sent DEF Go
<1>3. Len(sent) \in Nat /\ Len(inbox) \in Nat
  BY DEF Base, TypeOK, NetworkOK
<1>4. CASE UNCHANGED <<at, sent, inbox>>
  BY <1>1, <1>2, <1>4 DEF Mail, BeforeData, AfterData, InMail, Unread
<1>5. CASE Aged /\ at' = at + 1
  <2>1. \A c : Unread(c)' => Unread(c)
    BY <1>3, <1>5 DEF Unread, Aged
  <2>2. CASE at \in {3, 5, 7, 9}
    <3>1. BeforeData
      BY <2>2 DEF Mail
    <3>2. ~Unread("354")'
      BY <2>1, <3>1 DEF BeforeData
    <3>3. \A k \in 1..Len(sent') : sent'[k].cmd = "DATA" => k = Len(sent') /\ at = 9
      <4>1. CASE sent' = sent
        BY <3>1, <4>1 DEF BeforeData
      <4>2. CASE /\ Len(sent') = Len(sent) + 1
                 /\ \A k \in 1..Len(sent) : sent'[k].cmd = sent[k].cmd /\ sent'[k].own = FALSE
                 /\ sent'[Len(sent) + 1] = [cmd |-> This.what, own |-> TRUE]
        BY <1>1, <1>3, <2>2, <3>1, <4>2 DEF BeforeData
      <4> QED BY <1>3, <1>5, <4>1, <4>2, Sent
    <3>4. at' <= 9 => BeforeData'
      BY <1>5, <2>2, <3>2, <3>3 DEF BeforeData
    <3>5. AfterData'
      BY <3>2, <3>3 DEF AfterData, Unread
    <3> QED BY <1>2, <1>5, <2>2, <3>4, <3>5 DEF Mail
  <2>3. CASE at \in {11, 12, 13} /\ "." \notin done
    <3>1. InMail /\ mode = "mail" /\ \A k \in 1..Len(sent) : sent[k].cmd = "text"
      BY <2>3 DEF Mail, InMail
    <3>2. ~Unread("250")'
      BY <2>1, <3>1 DEF InMail
    <3>3. \A k \in 1..Len(sent') :
            \/ sent'[k].cmd = "text"
            \/ at = 13 /\ k = Len(sent') /\ sent'[k] = [cmd |-> ".", own |-> TRUE]
      <4>1. CASE sent' = sent
        BY <3>1, <4>1
      <4>2. CASE /\ Len(sent') = Len(sent) + 1
                 /\ \A k \in 1..Len(sent) : sent'[k].cmd = sent[k].cmd /\ sent'[k].own = FALSE
                 /\ sent'[Len(sent) + 1] = [cmd |-> This.what, own |-> TRUE]
        <5>1. \A k \in 1..Len(sent) : sent'[k].cmd = "text"
          BY <3>1, <4>2
        <5>2. at # 13 => sent'[Len(sent')].cmd = "text"
          BY <1>1, <2>3, <4>2
        <5>3. at = 13 => sent'[Len(sent')] = [cmd |-> ".", own |-> TRUE]
          BY <1>1, <2>3, <4>2
        <5> QED BY <1>3, <2>3, <4>2, <5>1, <5>2, <5>3
      <4> QED BY <1>3, <1>5, <4>1, <4>2, Sent
    <3>4. InMail'
      BY <1>2, <1>5, <2>3, <3>1, <3>2, <3>3 DEF InMail
    <3> QED BY <1>2, <1>5, <2>3, <3>4 DEF Mail
  <2>4. CASE "." \in done /\ at \in {11, 12, 13, 15}
    BY <1>2, <1>5, <2>4 DEF Mail
  <2> QED BY <1>1, <2>2, <2>3, <2>4 DEF Mail
<1> QED BY <1>3, <1>4, <1>5, Sent DEF Go

LEMMA MailRead == ASSUME Base, Mail, prog = "mail", ReadReply PROVE Mail'
<1>0. state = "running" /\ This.do # "connect" /\ This.do # "send"
  BY Heard
<1>1. /\ at \in {2, 4, 6, 8, 10, 14, 16} /\ ~This.unset /\ This.do = "read"
      /\ (at = 10 => This.ok = "354") /\ (at = 14 => This.ok = "250")
  BY <1>0, MailSteps
<1>2. UNCHANGED <<prog, mode, done, sent>>
  BY Heard
<1>3. Len(sent) \in Nat /\ Len(inbox) \in Nat
  BY DEF Base, TypeOK, NetworkOK
<1>4. CASE inbox' = inbox /\ Fail
  BY <1>1, <1>2, <1>4 DEF Mail, BeforeData, AfterData, InMail, Unread, Fail
<1>5. ASSUME NEW n \in Readable, Taking(n), Go \/ Fail, Go => inbox[1].code = This.ok
      PROVE  Mail'
  <2>1. n \in 1..Len(inbox) /\ Len(inbox') = Len(inbox) - n
        /\ \A i \in 1..Len(inbox') : i + n \in 1..Len(inbox) /\ inbox'[i] = inbox[i + n]
    BY <1>3, <1>5 DEF Taking
  <2>2. \A c : Unread(c)' => Unread(c)
    BY <2>1 DEF Unread
  <2>3. CASE at \in {2, 4, 6, 8}
    <3>1. BeforeData' /\ at' <= 9
      BY <1>2, <1>5, <2>2, <2>3 DEF Mail, BeforeData, Go, Fail
    <3> QED BY <1>1, <2>3, <3>1, <1>5 DEF Mail, Go, Fail
  <2>4. CASE at = 10 /\ Fail
    <3>1. AfterData
      BY <2>4 DEF Mail
    <3>2. ASSUME NEW i \in 1..Len(inbox'), inbox'[i].code = "354"
          PROVE  sent = <<>> /\ mode = "mail" /\ \A j \in i+1..Len(inbox') : inbox'[j].code \in {NoCode, "421"}
      <4>1. i + n \in 1..Len(inbox) /\ inbox[i + n].code = "354"
        BY <2>1, <3>2
      <4>2. \A j \in i+n+1..Len(inbox) : inbox[j].code \in {NoCode, "421"}
        BY <3>1, <4>1 DEF AfterData
      <4>3. ASSUME NEW j \in i+1..Len(inbox')
            PROVE  j + n \in i+n+1..Len(inbox) /\ inbox'[j] = inbox[j + n]
        <5>1. j \in 1..Len(inbox')
          BY <4>3
        <5>2. j + n \in 1..Len(inbox) /\ inbox'[j] = inbox[j + n]
          BY <2>1, <5>1
        <5> QED BY <1>3, <2>1, <4>3, <5>2
      <4> QED BY <3>1, <4>1, <4>2, <4>3 DEF AfterData
    <3>3. AfterData'
      BY <1>2, <3>1, <3>2 DEF AfterData
    <3> QED BY <2>4, <3>3 DEF Mail, Fail
  <2>5. CASE at = 10 /\ Go
    <3>1. AfterData /\ 1 \in 1..Len(inbox) /\ inbox[1].code = "354"
      <4>1. AfterData
        BY <2>5 DEF Mail
      <4>2. 1 \in 1..Len(inbox)
        BY <1>3, <2>1
      <4>3. inbox[1].code = "354"
        BY <1>1, <1>5, <2>5
      <4> QED BY <4>1, <4>2, <4>3
    <3>2. sent = <<>> /\ mode = "mail" /\ \A j \in 2..Len(inbox) : inbox[j].code \in {NoCode, "421"}
      BY <3>1 DEF AfterData
    <3>3. ASSUME NEW i \in 1..Len(inbox') PROVE inbox'[i].code # "250"
      <4>1. i + n \in 2..Len(inbox) /\ inbox'[i] = inbox[i + n]
        BY <1>3, <2>1
      <4>2. inbox[i + n].code \in {NoCode, "421"}
        BY <3>2, <4>1
      <4> QED BY <4>1, <4>2, Blank
    <3>4. InMail'
      BY <1>2, <3>2, <3>3 DEF InMail, Unread
    <3> QED BY <2>5, <3>4 DEF Mail, Go
  <2>6. CASE at = 14 /\ Fail
    <3>1. InMail => InMail'
      BY <1>2, <2>2, <2>6 DEF InMail, Fail
    <3> QED BY <1>2, <2>6, <3>1 DEF Mail, Fail
  <2>7. CASE at = 14 /\ Go
    <3>1. Unread("250")
      BY <1>1, <1>3, <1>5, <2>1, <2>7 DEF Unread
    <3>2. "." \in done
      BY <2>7, <3>1 DEF Mail, InMail
    <3> QED BY <1>2, <2>7, <3>2 DEF Mail, Go
  <2>8. CASE at = 16
    BY <1>2, <1>5, <2>8 DEF Mail, Go, Fail
  <2> QED BY <1>1, <1>5, <2>3, <2>4, <2>5, <2>6, <2>7, <2>8
<1> QED BY <1>1, <1>4, <1>5, Heard DEF NotSet

LEMMA NewCodes ==
  /\ \A own \in BOOLEAN, code \in Codes : Base /\ Reply(own, code) =>
       \A x : Unread(x)' => Unread(x) \/ x \in {code, NoCode, "more"}
  /\ Base /\ CloseIdle => \A x : Unread(x)' => Unread(x) \/ x = "421"
<1>1. ASSUME NEW own \in BOOLEAN, NEW code \in Codes, Base, Reply(own, code), NEW x, Unread(x)'
      PROVE  Unread(x) \/ x \in {code, NoCode, "more"}
  <2>1. inbox \in Seq(Pieces)
    BY <1>1 DEF Base, TypeOK, NetworkOK
  <2>2. /\ Len(inbox) \in Nat /\ Len(inbox') \in Nat
        /\ \A i \in 1..Len(inbox) : inbox'[i] = inbox[i]
        /\ \A i \in Len(inbox)+1..Len(inbox') : inbox'[i].code \in {code, NoCode, "more"}
    BY <1>1, <2>1, Answered
  <2>3. PICK i \in 1..Len(inbox') : inbox'[i].code = x
    BY <1>1 DEF Unread
  <2>4. i \in 1..Len(inbox) \/ i \in Len(inbox)+1..Len(inbox')
    BY <2>2
  <2> QED BY <2>2, <2>3, <2>4 DEF Unread
<1>2. ASSUME Base, CloseIdle, NEW x, Unread(x)' PROVE Unread(x) \/ x = "421"
  <2>1. PICK i \in 1..Len(inbox') : inbox'[i].code = x
    BY <1>2 DEF Unread
  <2>2. Len(inbox) \in Nat
    BY <1>2 DEF Base, TypeOK, NetworkOK
  <2>3. CASE inbox' = inbox
    BY <2>1, <2>3 DEF Unread
  <2>4. CASE /\ Len(inbox') = Len(inbox) + 1
             /\ \A k \in 1..Len(inbox) : inbox'[k] = inbox[k]
             /\ OnePart(inbox'[Len(inbox) + 1], FALSE, "421")
    BY <2>1, <2>2, <2>4 DEF Unread, OnePart
  <2> QED BY <1>2, <2>3, <2>4, Closed
<1> QED BY <1>1, <1>2

LEMMA MailAnswer == ASSUME Base, Mail, prog = "mail", Answer PROVE Mail'
<1> DEFINE c == sent[1].cmd
           own == sent[1].own
           n == Len(inbox)
           m == Len(sent)
<1>1. /\ m \in Nat \ {0} /\ sent # <<>> /\ Len(sent') = m - 1 /\ n \in Nat
      /\ \A k \in 1..m - 1 : sent'[k] = sent[k + 1]
      /\ prog' = prog /\ at' = at
  BY Served DEF client, Base, TypeOK, NetworkOK, Answer
<1>2. /\ own \in BOOLEAN /\ done \subseteq done' /\ Good["smtp"][c] \in Codes /\ "err" \in Codes
      /\ Good["smtp"][c] = "354" => c = "DATA"
  BY Served, MailServed, SmtpCodes DEF Codes
<1>3. /\ \/ mode = "mail" /\ c # "." /\ UNCHANGED <<inbox, mode, done>>
         \/ /\ Reply(own, Good["smtp"][c]) /\ (mode = "mail" => c = ".")
            /\ c = "DATA" => mode' = "mail"
            /\ c = "." /\ own => "." \in done'
         \/ Reply(own, "err") /\ (mode = "mail" => c = ".") /\ (mode # "mail" => mode' = mode)
      /\ peer = "smtp" /\ ~Unheard
  BY MailServed
<1> HIDE DEF c, own
<1>4. ASSUME NEW x, Unread(x)', ~Unread(x)
      PROVE  x \in {Good["smtp"][c], "err", NoCode, "more"}
  <2>1. inbox' # inbox
    BY <1>4 DEF Unread
  <2> QED BY <1>2, <1>3, <1>4, <2>1, NewCodes
<1> HIDE DEF n, m
<1>5. c # "DATA" => (Unread("354")' => Unread("354"))
  BY <1>2, <1>4, Blank
<1>6. CASE at <= 9
  <2>1. BeforeData /\ c # "DATA"
    BY <1>1, <1>6 DEF Mail, BeforeData, c, m
  <2>2. \A k \in 1..Len(sent') : sent'[k].cmd # "DATA"
    BY <1>1, <2>1 DEF BeforeData, m
  <2>3. BeforeData'
    BY <1>5, <2>1, <2>2 DEF BeforeData
  <2> QED BY <1>1, <1>6, <2>3 DEF Mail, Base, TypeOK, ProgramOK
<1>7. CASE at = 10
  <2>1. AfterData /\ ~Unread("354")
    BY <1>1, <1>7 DEF Mail, AfterData, Unread
  <2>2. \A k \in 1..Len(sent') : sent'[k].cmd = "DATA" => k = Len(sent')
    BY <1>1, <2>1 DEF AfterData, m
  <2>3. CASE ~Unread("354")'
    <3>1. AfterData'
      BY <2>2, <2>3 DEF AfterData, Unread
    <3> QED BY <1>1, <1>7, <3>1 DEF Mail
  <2>4. CASE Unread("354")'
    <3>1. c = "DATA" /\ m = 1
      BY <1>1, <1>5, <2>1, <2>4 DEF AfterData, c, m
    <3>2. sent' = <<>>
      BY <1>1, <3>1, BaseAnswer DEF Base, TypeOK, NetworkOK
    <3>3. inbox' # inbox /\ ~ Reply(own, "err")
      <4>1. inbox' # inbox
        BY <2>1, <2>4 DEF Unread
      <4>2. Reply(own, "err") => (Unread("354")' => Unread("354"))
        BY <1>2, NewCodes, Blank
      <4> QED BY <2>1, <2>4, <4>1, <4>2
    <3>4. Reply(own, Good["smtp"][c]) /\ mode' = "mail"
      BY <1>3, <3>1, <3>3
    <3>5. /\ \A i \in 1..n : inbox'[i] = inbox[i]
          /\ \/ Len(inbox') = n + 1
             \/ /\ Len(inbox') = n + 2
                /\ TwoParts(inbox'[n + 1], inbox'[n + 2], own, Good["smtp"][c])
      BY <1>2, <1>3, <3>4, Answered DEF n, Base, TypeOK, NetworkOK
    <3>6. ASSUME NEW i \in 1..Len(inbox'), inbox'[i].code = "354", NEW j \in i+1..Len(inbox')
          PROVE  inbox'[j].code \in {NoCode, "421"}
      <4>1. i \notin 1..n
        BY <2>1, <3>5, <3>6 DEF Unread, n
      <4>2. i = n + 1 /\ j = n + 2 /\ TwoParts(inbox'[n + 1], inbox'[n + 2], own, Good["smtp"][c])
        BY <1>1, <3>5, <4>1
      <4> QED BY <1>3, <3>6, <4>2 DEF TwoParts
    <3>7. AfterData'
      BY <2>2, <3>2, <3>4, <3>6 DEF AfterData
    <3> QED BY <1>1, <1>7, <3>7 DEF Mail
  <2> QED BY <2>3, <2>4
<1>8. CASE at \in 11..14 /\ "." \notin done'
  <2>1. "." \notin done
    BY <1>2, <1>8
  <2>2. InMail /\ mode = "mail"
    BY <1>1, <1>8, <2>1 DEF Mail, InMail
  <2>3. /\ \A k \in 1..Len(sent') :
             \/ sent'[k].cmd = "text"
             \/ at' = 14 /\ k = Len(sent') /\ sent'[k] = [cmd |-> ".", own |-> TRUE]
        /\ c = "text" \/ (c = "." /\ own /\ at = 14 /\ m = 1)
    BY <1>1, <2>2 DEF InMail, c, own, m
  <2>4. CASE c = "text"
    <3>1. UNCHANGED <<inbox, mode, done>>
      BY <1>3, <2>2, <2>4
    <3>2. InMail'
      BY <1>1, <2>2, <2>3, <3>1 DEF InMail, Unread
    <3> QED BY <1>1, <1>8, <3>2 DEF Mail
  <2>5. CASE c = "." /\ own /\ at = 14 /\ m = 1
    <3>1. Reply(own, "err")
      BY <1>3, <1>8, <2>5
    <3>2. ~Unread("250")'
      <4>1. ~Unread("250")
        BY <2>2 DEF InMail
      <4> QED BY <1>2, <3>1, <4>1, NewCodes, Blank
    <3>3. sent' = <<>>
      BY <1>1, <2>5, BaseAnswer DEF Base, TypeOK, NetworkOK
    <3>4. InMail'
      BY <1>1, <2>3, <2>5, <3>2, <3>3 DEF InMail
    <3> QED BY <1>1, <1>8, <3>4 DEF Mail
  <2> QED BY <2>3, <2>4, <2>5
<1>9. CASE at \in 11..14 /\ "." \in done'
  BY <1>1, <1>9 DEF Mail
<1>10. CASE at >= 15
  <2>1. "." \in done' /\ at' >= 15 /\ at' \in Nat
    BY <1>1, <1>2, <1>10 DEF Mail, Base, TypeOK, ProgramOK
  <2> QED BY <2>1 DEF Mail
<1>11. at \in Nat
  BY DEF Base, TypeOK, ProgramOK
<1> QED BY <1>6, <1>7, <1>8, <1>9, <1>10, <1>11

LEMMA MailOthers == ASSUME Base, Mail, prog = "mail", EndTransfer \/ CloseIdle PROVE Mail'
<1>1. /\ UNCHANGED <<prog, at, sent>> /\ done \subseteq done'
      /\ sent = <<>> \/ mode \notin {"mail"}
      /\ mode' = mode \/ mode # "mail"
  BY DEF EndTransfer, CloseIdle, client
<1>2. /\ Unread("354")' => Unread("354")
      /\ Unread("250")' => Unread("250")
  <2>1. CASE EndTransfer
    <3>1. PICK own \in BOOLEAN, code \in {"226", "426"} : Reply(own, code)
      BY <2>1, Zenon DEF EndTransfer
    <3>2. code \in Codes
      BY DEF Codes
    <3> QED BY <3>1, <3>2, NewCodes, Blank
  <2>2. CASE CloseIdle
    BY <2>2, NewCodes
  <2> QED BY <2>1, <2>2
<1>3. at <= 9 /\ BeforeData => BeforeData'
  BY <1>1, <1>2 DEF BeforeData
<1>4. ASSUME AfterData PROVE AfterData'
  <2>1. CASE ~Unread("354")
    BY <1>1, <1>2, <1>4, <2>1 DEF AfterData, Unread
  <2>2. CASE Unread("354")
    <3>1. mode = "mail" /\ sent = <<>>
      BY <1>4, <2>2 DEF AfterData, Unread
    <3>2. CloseIdle
      BY <3>1 DEF EndTransfer
    <3>3. Len(inbox) \in Nat /\ mode' = mode
      <4>1. mode' = mode
        BY <3>2 DEF CloseIdle
      <4> QED BY <4>1 DEF Base, TypeOK, NetworkOK
    <3>4. CASE inbox' = inbox
      BY <1>1, <1>4, <3>3, <3>4 DEF AfterData
    <3>5. CASE /\ Len(inbox') = Len(inbox) + 1
               /\ \A i \in 1..Len(inbox) : inbox'[i] = inbox[i]
               /\ OnePart(inbox'[Len(inbox) + 1], FALSE, "421")
      <4>1. ASSUME NEW i \in 1..Len(inbox'), inbox'[i].code = "354", NEW j \in i+1..Len(inbox')
            PROVE  inbox'[j].code \in {NoCode, "421"}
        <5>1. i \in 1..Len(inbox) /\ inbox[i].code = "354"
          BY <3>3, <3>5, <4>1 DEF OnePart
        <5>2. CASE j = Len(inbox) + 1
          BY <3>5, <5>2 DEF OnePart
        <5>3. CASE j \in i+1..Len(inbox)
          BY <1>4, <3>3, <3>5, <5>1, <5>3 DEF AfterData
        <5> QED BY <3>3, <3>5, <5>2, <5>3
      <4> QED BY <1>1, <1>4, <3>1, <3>3, <4>1 DEF AfterData
    <3> QED BY <3>2, <3>4, <3>5, Closed
  <2> QED BY <2>1, <2>2
<1>5. InMail => InMail'
  BY <1>1, <1>2 DEF InMail
<1>6. at \in Nat
  BY DEF Base, TypeOK, ProgramOK
<1> QED BY <1>1, <1>3, <1>4, <1>5, <1>6 DEF Mail

LEMMA MailNext == ASSUME Base, Mail, prog = "mail", [Next]_vars PROVE Mail'
<1>1. CASE UNCHANGED vars
  BY <1>1 DEF vars, client, server, Mail, BeforeData, AfterData, InMail, Unread
<1>2. CASE Choose
  <2>1. HasMenu
    BY <1>2 DEF Choose, Base, Results
  <2> QED BY <2>1, Menus DEF HasMenu
<1>3. CASE ConnectTo
  <2>1. at = 1
    <3>1. state = "running" /\ This.do = "connect"
      BY <1>3 DEF ConnectTo, Here, This
    <3> QED BY <3>1, MailSteps
  <2>2. CASE Fail /\ UNCHANGED <<peer, conn, sent, inbox, mode, data>>
    BY <2>1, <2>2 DEF Fail, Mail, BeforeData, Unread
  <2>3. CASE Go /\ sent' = <<[cmd |-> "connect", own |-> TRUE]>> /\ inbox' = <<>>
    <3>1. PICK e : e = [cmd |-> "connect", own |-> TRUE]
      OBVIOUS
    <3>2. \A k \in 1..Len(sent') : sent'[k] = e
      <4>1. sent' = <<e>>
        BY <2>3, <3>1
      <4>2. \A k \in 1..Len(<<e>>) : <<e>>[k] = e
        BY Single
      <4> QED BY <4>1, <4>2
    <3>3. e.cmd = "connect"
      BY <3>1
    <3>4. BeforeData' /\ at' = 2
      BY <2>1, <2>3, <3>2, <3>3 DEF BeforeData, Unread, Go
    <3> QED BY <3>4 DEF Mail
  <2> QED BY <1>3, <2>2, <2>3 DEF ConnectTo
<1>4. CASE SendOn
  BY <1>4, MailSend
<1>5. CASE ReadReply
  BY <1>5, MailRead
<1>6. CASE Client /\ ~ConnectTo /\ ~SendOn /\ ~ReadReply
  <2>1. state = "running" /\ This.do \notin {"connect", "send", "read"}
    BY <1>6 DEF Client, ResolveName, ReadLines, EnterPassive, ReceivePage, CreateFile, FetchData,
                UploadNothing, Here, This
  <2> QED BY <2>1, MailSteps
<1>7. CASE Server
  BY <1>7, MailAnswer, MailOthers DEF Server
<1> QED BY <1>1, <1>2, <1>3, <1>4, <1>5, <1>6, <1>7 DEF Next, Client, Rest
----------------------------------------------------------------------------
(* FTP. *)

\* The nine kinds of step between the login and the last reply, and what comes next.
FtpAt(p, o, i) ==
  \/ p = "ftp" /\ (o # "start" \/ i >= 2)
  \/ p = "toolkit" /\ o = "ftp" /\ i >= 3
  \/ p = "fulltest" /\ i \in 12..29
StepOf(s, t, b, c, d, i, n, p) ==
  \/ /\ s.do = "send" /\ s.what \in {"USER", "PASS", "DELE", "CWD"} /\ i < n
     /\ t.do = "skip" \/ (t.do = "read" /\ t.ok \notin {"150", "226"})
  \/ s.do = "send" /\ s.what = "PASV" /\ i < n /\ t.do = "enter"
  \/ s.do = "enter" /\ s.ok = "227" /\ i < n /\ t.do = "send" /\ t.what = d
  \/ s.do = "send" /\ s.what = c /\ i < n /\ t.do = "read" /\ t.ok = "150" /\ d = c
  \/ /\ s.do = "read" /\ s.ok = "150" /\ i < n /\ d = c /\ i > 1 /\ b.do = "send" /\ b.what = c
     /\ \/ c = "RETR" /\ t.do = "create"
        \/ c = "LIST" /\ t.do = "fetch"
        \/ c = "STOR" /\ t.do = "upload"
  \/ /\ s.do = "create" /\ i < n /\ c = "RETR" /\ t.do = "fetch" /\ d = c
     /\ s.what = IF p = "ftp" THEN "checked" ELSE "unchecked"
  \/ /\ s.do \in {"fetch", "upload"} /\ (s.do = "upload" <=> c = "STOR") /\ i < n
     /\ t.do = "read" /\ t.ok = "226" /\ d = c
  \/ /\ s.do = "read" /\ s.ok = "226" /\ ~s.unset
     /\ i = n \/ (t.do = "send" /\ t.what = "PASV") \/ t.do = "resolve"
  \/ /\ s.do = "skip" \/ (s.do = "read" /\ s.ok \notin {"150", "226"})
     /\ i = n \/ (t.do = "send" /\ t.what \in {"USER", "PASS", "PASV"})
FtpStep(p, o, i) ==
  StepOf(Script(p, o)[i], Script(p, o)[i + 1], Script(p, o)[i - 1],
         Ordered(p, o, i), Ordered(p, o, i + 1), i, Steps(p, o), p)

\* The mark of a transfer answers the order.
LEMMA MarkedStep ==
  ASSUME NEW s, NEW t, NEW b, NEW c, NEW d, NEW i, NEW n, NEW p,
         StepOf(s, t, b, c, d, i, n, p), s.do = "read", s.ok = "150"
  PROVE  i > 1 /\ b.do = "send" /\ b.what = c
  BY DEF StepOf

LEMMA ToolKinds ==
  /\ \A k \in 3..20 : FtpStep("toolkit", "ftp", k)
  /\ \A k \in 12..29 : FtpStep("fulltest", "start", k)
<1>1. \A k \in 3..20 : FtpStep("toolkit", "ftp", k)
  BY ToolScripts, LongScripts, Parts DEF FtpStep, StepOf, Ordered
<1>2. \A k \in 12..29 : FtpStep("fulltest", "start", k)
  BY ToolScripts, LongScripts, Parts DEF FtpStep, StepOf, Ordered
<1> QED BY <1>1, <1>2

LEMMA FtpKinds ==
  ASSUME NEW p \in Programs, NEW o \in Operations(p), NEW i \in 1..Len(Script(p, o)), FtpAt(p, o, i)
  PROVE  FtpStep(p, o, i)
<1>1. Fine(p, o) /\ i \in 1..Steps(p, o)
  BY Lengths DEF Steps
<1>2. CASE p = "ftp"
  <2>1. o \in {"start", "list", "get", "put", "delete", "cd", "quit"}
    BY <1>2, Menus, Zenon DEF Operations
  <2>2. o # "quit"
    <3>1. Script("ftp", "quit") = <<>>
      BY FtpScripts
    <3>2. Steps("ftp", "quit") = 0
      BY <3>1 DEF Steps
    <3> QED BY <1>1, <1>2, <3>2
  <2>3. \A k \in 2..6 : FtpStep("ftp", "start", k)
    BY FtpScripts, LongScripts, Parts DEF FtpStep, StepOf, Ordered
  <2>4. \A k \in 1..6 : FtpStep("ftp", "list", k)
    BY FtpScripts, LongScripts, Parts DEF FtpStep, StepOf, Ordered
  <2>5. \A k \in 1..7 : FtpStep("ftp", "get", k)
    BY FtpScripts, LongScripts, Parts DEF FtpStep, StepOf, Ordered
  <2>6. \A k \in 1..6 : FtpStep("ftp", "put", k)
    BY FtpScripts, LongScripts, Parts DEF FtpStep, StepOf, Ordered
  <2>7. \A k \in 1..2 : FtpStep("ftp", "delete", k)
    BY FtpScripts, LongScripts, Parts DEF FtpStep, StepOf, Ordered
  <2>8. \A k \in 1..2 : FtpStep("ftp", "cd", k)
    BY FtpScripts, LongScripts, Parts DEF FtpStep, StepOf, Ordered
  <2> QED BY <1>1, <1>2, <2>1, <2>2, <2>3, <2>4, <2>5, <2>6, <2>7, <2>8, LongScripts DEF FtpAt
<1>3. CASE p = "toolkit" /\ o = "ftp" /\ i >= 3
  <2>1. Steps("toolkit", "ftp") = 20
    BY LongScripts
  <2>2. i \in 3..20
    BY <1>1, <1>3, <2>1
  <2> QED BY <1>3, <2>2, ToolKinds
<1>4. CASE p = "fulltest" /\ i \in 12..29
  <2>1. o \in {"start", "quit"}
    BY <1>4, Menus, Zenon DEF Operations
  <2>2. o # "quit"
    <3>1. Script("fulltest", "quit") = <<>>
      BY DEF Menu, NoMenu, Script
    <3>2. Steps("fulltest", "quit") = 0
      BY <3>1 DEF Steps
    <3> QED BY <1>1, <1>4, <3>2
  <2> QED BY <1>4, <2>1, <2>2, ToolKinds
<1> QED BY <1>2, <1>3, <1>4 DEF FtpAt

LEMMA CmdType == Cmd \in Transfers
  BY DEF Cmd, Ordered, Transfers

LEMMA Placed ==
  ASSUME Base, AtFtp, state = "running"
  PROVE  /\ at \in Nat \ {0} /\ at <= Steps(prog, op) /\ Steps(prog, op) \in Nat
         /\ FtpStep(prog, op, at)
<1>1. Fine(prog, op) /\ at \in 1..Len(Script(prog, op))
  BY Lengths DEF Base, TypeOK, ProgramOK, Fine
<1>2. FtpAt(prog, op, at)
  <2>1. prog = "ftp" => op # "start" \/ at >= 2
    BY <1>1 DEF AtFtp, Base, AtHost, Joined
  <2> QED BY <2>1 DEF AtFtp, FtpAt
<1> QED BY <1>1, <1>2, FtpKinds DEF Fine, Steps, Base, TypeOK, ProgramOK

LEMMA Turned ==
  ASSUME Base, state = "running", Go
  PROVE  /\ Cmd' = Ordered(prog, op, at + 1) /\ at' = at + 1
         /\ at = Steps(prog, op) => state' # "running"
         /\ at < Steps(prog, op) => state' = "running" /\ This' = Script(prog, op)[at + 1]
  BY DEF Go, Last, Returns, Cmd, This, Base, TypeOK, ProgramOK, Steps

\* Where the steps of an FTP client lead.
Plain == ~Order /\ ~Mark /\ ~Moving /\ ~Final /\ ~Here("enter")

LEMMA FtpTurn ==
  ASSUME Base, AtFtp, state = "running", Go
  PROVE  \/ This.do = "send" /\ This.what \notin Transfers /\ This.what # "PASV" /\ Plain'
         \/ /\ This.do = "send" /\ This.what = "PASV"
            /\ Here("enter")' /\ ~Order' /\ ~Mark' /\ ~Moving' /\ ~Final'
         \/ /\ This.do = "enter" /\ This.ok = "227"
            /\ Order' /\ ~Mark' /\ ~Moving' /\ ~Final' /\ ~Here("enter")'
         \/ /\ Order /\ This.what = Cmd /\ Cmd' = Cmd
            /\ Mark' /\ ~Order' /\ ~Moving' /\ ~Final' /\ ~Here("enter")'
         \/ /\ Mark /\ Cmd' = Cmd /\ (Here("fetch")' => Cmd # "RETR")
            /\ Moving' /\ ~Order' /\ ~Mark' /\ ~Final' /\ ~Here("enter")'
         \/ /\ Here("create") /\ Cmd' = Cmd /\ Cmd = "RETR"
            /\ This.what = IF prog = "ftp" THEN "checked" ELSE "unchecked"
            /\ Moving' /\ Here("fetch")' /\ ~Order' /\ ~Mark' /\ ~Final' /\ ~Here("enter")'
         \/ /\ This.do \in {"fetch", "upload"} /\ Cmd' = Cmd /\ (This.do = "upload" <=> Cmd = "STOR")
            /\ Final' /\ ~Order' /\ ~Mark' /\ ~Moving' /\ ~Here("enter")'
         \/ Final /\ ~This.unset /\ Plain'
         \/ /\ This.do = "skip" \/ (This.do = "read" /\ This.ok \notin {"150", "226"})
            /\ Plain'
<1>1. /\ at \in Nat /\ at <= Steps(prog, op) /\ Steps(prog, op) \in Nat /\ FtpStep(prog, op, at)
  BY Placed
<1>2. /\ Cmd' = Ordered(prog, op, at + 1)
      /\ at = Steps(prog, op) => state' # "running"
      /\ at < Steps(prog, op) => state' = "running" /\ This' = Script(prog, op)[at + 1]
  BY Turned
<1>3. /\ Here("enter") <=> state = "running" /\ This.do = "enter"
      /\ Here("create") <=> state = "running" /\ This.do = "create"
      /\ Order <=> state = "running" /\ This.do = "send" /\ This.what \in Transfers
      /\ Mark <=> state = "running" /\ This.do = "read" /\ This.ok = "150"
      /\ Final <=> state = "running" /\ This.do = "read" /\ This.ok = "226"
      /\ Moving <=> state = "running" /\ This.do \in {"create", "fetch", "upload"}
  BY DEF Here, This, Order, Mark, Final, Moving
<1>4. /\ Here("enter")' <=> state' = "running" /\ This'.do = "enter"
      /\ Here("fetch")' <=> state' = "running" /\ This'.do = "fetch"
      /\ Order' <=> state' = "running" /\ This'.do = "send" /\ This'.what \in Transfers
      /\ Mark' <=> state' = "running" /\ This'.do = "read" /\ This'.ok = "150"
      /\ Final' <=> state' = "running" /\ This'.do = "read" /\ This'.ok = "226"
      /\ Moving' <=> state' = "running" /\ This'.do \in {"create", "fetch", "upload"}
  BY DEF Here, This, Order, Mark, Final, Moving
<1>5. Cmd = Ordered(prog, op, at)
  BY DEF Cmd
<1>6. PICK s, t, c, d, n, m :
        /\ s = This /\ t = Script(prog, op)[at + 1] /\ c = Cmd /\ d = Ordered(prog, op, at + 1)
        /\ n = Steps(prog, op) /\ m = Script(prog, op)[at - 1]
  OBVIOUS
<1>7. s = Script(prog, op)[at]
  BY <1>6 DEF This
<1>8. StepOf(s, t, m, c, d, at, n, prog)
  BY <1>1, <1>5, <1>6, <1>7 DEF FtpStep
<1>9. c \in Transfers /\ d \in Transfers
  BY <1>6, CmdType DEF Ordered, Transfers
<1>10. ASSUME at < n
       PROVE  /\ Cmd' = d /\ (Here("enter")' <=> t.do = "enter") /\ (Here("fetch")' <=> t.do = "fetch")
              /\ Order' <=> t.do = "send" /\ t.what \in Transfers
              /\ Mark' <=> t.do = "read" /\ t.ok = "150"
              /\ Final' <=> t.do = "read" /\ t.ok = "226"
              /\ Moving' <=> t.do \in {"create", "fetch", "upload"}
  BY <1>2, <1>4, <1>6, <1>10
<1>11. at = n => Plain'
  BY <1>2, <1>4, <1>6 DEF Plain
<1>12. at < n \/ at = n
  BY <1>1, <1>6
<1>13. CASE s.do = "send" /\ s.what \in {"USER", "PASS", "DELE", "CWD"} /\ at < n
            /\ (t.do = "skip" \/ (t.do = "read" /\ t.ok \notin {"150", "226"}))
  <2>1. Plain'
    BY <1>10, <1>13 DEF Plain
  <2> QED BY <1>6, <1>13, <2>1 DEF Transfers
<1>14. CASE s.do = "send" /\ s.what = "PASV" /\ at < n /\ t.do = "enter"
  <2>1. Here("enter")' /\ ~Order' /\ ~Mark' /\ ~Moving' /\ ~Final'
    BY <1>10, <1>14
  <2> QED BY <1>6, <1>14, <2>1
<1>15. CASE s.do = "enter" /\ s.ok = "227" /\ at < n /\ t.do = "send" /\ t.what = d
  <2>1. Order' /\ ~Mark' /\ ~Moving' /\ ~Final' /\ ~Here("enter")'
    BY <1>9, <1>10, <1>15
  <2> QED BY <1>6, <1>15, <2>1
<1>16. CASE s.do = "send" /\ s.what = c /\ at < n /\ t.do = "read" /\ t.ok = "150" /\ d = c
  <2>1. Cmd' = Cmd /\ Mark' /\ ~Order' /\ ~Moving' /\ ~Final' /\ ~Here("enter")'
    BY <1>6, <1>10, <1>16
  <2>2. Order /\ This.what = Cmd
    BY <1>3, <1>6, <1>9, <1>16
  <2> QED BY <2>1, <2>2
<1>17. CASE /\ s.do = "read" /\ s.ok = "150" /\ at < n /\ d = c
            /\ \/ c = "RETR" /\ t.do = "create"
               \/ c = "LIST" /\ t.do = "fetch"
               \/ c = "STOR" /\ t.do = "upload"
  <2>1. Cmd' = Cmd /\ Moving' /\ ~Order' /\ ~Mark' /\ ~Final' /\ ~Here("enter")'
    BY <1>6, <1>10, <1>17
  <2>2. Here("fetch")' => Cmd # "RETR"
    BY <1>6, <1>10, <1>17
  <2>3. Mark
    BY <1>3, <1>6, <1>17
  <2> QED BY <2>1, <2>2, <2>3
<1>18. CASE /\ s.do = "create" /\ at < n /\ c = "RETR" /\ t.do = "fetch" /\ d = c
            /\ s.what = IF prog = "ftp" THEN "checked" ELSE "unchecked"
  <2>1. /\ Cmd' = Cmd /\ Moving' /\ Here("fetch")'
        /\ ~Order' /\ ~Mark' /\ ~Final' /\ ~Here("enter")'
    BY <1>6, <1>10, <1>18
  <2>2. Here("create") /\ Cmd = "RETR"
    BY <1>3, <1>6, <1>18
  <2> QED BY <1>6, <1>18, <2>1, <2>2
<1>19. CASE /\ s.do \in {"fetch", "upload"} /\ (s.do = "upload" <=> c = "STOR") /\ at < n
            /\ t.do = "read" /\ t.ok = "226" /\ d = c
  <2>1. Cmd' = Cmd /\ Final' /\ ~Order' /\ ~Mark' /\ ~Moving' /\ ~Here("enter")'
    BY <1>6, <1>10, <1>19
  <2> QED BY <1>6, <1>19, <2>1
<1>20. CASE /\ s.do = "read" /\ s.ok = "226" /\ ~s.unset
            /\ at = n \/ (t.do = "send" /\ t.what = "PASV") \/ t.do = "resolve"
  <2>1. Plain'
    BY <1>10, <1>11, <1>12, <1>20 DEF Plain, Transfers
  <2>2. Final /\ ~This.unset
    BY <1>3, <1>6, <1>20
  <2> QED BY <2>1, <2>2
<1>21. CASE /\ s.do = "skip" \/ (s.do = "read" /\ s.ok \notin {"150", "226"})
            /\ at = n \/ (t.do = "send" /\ t.what \in {"USER", "PASS", "PASV"})
  <2>1. Plain'
    BY <1>10, <1>11, <1>12, <1>21 DEF Plain, Transfers
  <2> QED BY <1>6, <1>21, <2>1
<1> QED BY <1>8, <1>13, <1>14, <1>15, <1>16, <1>17, <1>18, <1>19, <1>20, <1>21 DEF StepOf

LEMMA FtpCodes ==
  /\ \A c \in Understood("ftp") :
       /\ Good["ftp"][c] \in Codes /\ Good["ftp"][c] \notin {"421", "226", "err", NoCode}
       /\ Good["ftp"][c] = "227" => c = "PASV"
       /\ Good["ftp"][c] = "150" <=> c \in Transfers
       /\ Good["ftp"][c] = "250" => c \in {"DELE", "CWD"}
  /\ \A c \in Understood("ftp") : c \notin {"QUIT", "DATA", "RCPT", "."}
  /\ "err" \in Codes /\ "226" \in Codes /\ "426" \in Codes
  BY Blank DEF Understood, Good, Codes, Transfers

\* An answer has come, in one piece or in two.
Grown(own, code) ==
  /\ \A i \in 1..Len(inbox) : inbox'[i] = inbox[i]
  /\ \/ /\ Len(inbox') = Len(inbox) + 1
        /\ OnePart(inbox'[Len(inbox) + 1], own, code)
     \/ /\ Len(inbox') = Len(inbox) + 2
        /\ TwoParts(inbox'[Len(inbox) + 1], inbox'[Len(inbox) + 2], own, code)
        /\ inbox'[Len(inbox) + 1].code = code

LEMMA GrownFtp ==
  ASSUME Base, peer = "ftp", NEW own \in BOOLEAN, NEW code \in Codes, Reply(own, code)
  PROVE  Grown(own, code)
  BY Answered DEF Base, TypeOK, NetworkOK, Unheard, Grown, TwoParts

LEMMA GrownFacts ==
  ASSUME Base, NEW own, NEW code, Grown(own, code), code # "421"
  PROVE  /\ Len(inbox) \in Nat /\ Len(inbox') \in Nat /\ Len(inbox') > Len(inbox)
         /\ \A i \in 1..Len(inbox') : \/ i \in 1..Len(inbox) /\ inbox'[i] = inbox[i]
                                      \/ /\ i > Len(inbox) /\ inbox'[i].own = own
                                         /\ inbox'[i].code \in {code, NoCode}
         /\ \A x : Unread(x)' => Unread(x) \/ x \in {code, NoCode}
         /\ \A i, j \in 1..Len(inbox') : i > Len(inbox) /\ j > i => j = i + 1 /\ inbox'[i].part = "head"
<1>1. Len(inbox) \in Nat
  BY DEF Base, TypeOK, NetworkOK
<1>2. \A i \in 1..Len(inbox') : \/ i \in 1..Len(inbox) /\ inbox'[i] = inbox[i]
                                \/ /\ i > Len(inbox) /\ inbox'[i].own = own
                                   /\ inbox'[i].code \in {code, NoCode}
  BY <1>1 DEF Grown, OnePart, TwoParts
<1>3. Len(inbox') \in Nat /\ Len(inbox') > Len(inbox)
  BY <1>1 DEF Grown, OnePart, TwoParts
<1>4. ASSUME NEW x, Unread(x)' PROVE Unread(x) \/ x \in {code, NoCode}
  BY <1>2, <1>4 DEF Unread
<1>5. \A i, j \in 1..Len(inbox') : i > Len(inbox) /\ j > i => j = i + 1 /\ inbox'[i].part = "head"
  BY <1>1 DEF Grown, TwoParts
<1> QED BY <1>1, <1>2, <1>3, <1>4, <1>5

LEMMA StaysCoded ==
  ASSUME Base, Coded, NEW own, NEW code, Grown(own, code), code # NoCode
  PROVE  Coded'
<1>1. CASE inbox = <<>>
  <2>1. Len(inbox) = 0
    BY <1>1
  <2>2. inbox'[1].code = code
    BY <2>1 DEF Grown, OnePart
  <2> QED BY <2>2 DEF Coded
<1>2. CASE inbox # <<>>
  <2>1. 1 \in 1..Len(inbox)
    BY <1>2 DEF Base, TypeOK, NetworkOK
  <2> QED BY <1>2, <2>1 DEF Coded, Grown
<1> QED BY <1>1, <1>2

LEMMA FtpServed ==
  ASSUME Base, Answer, peer = "ftp"
  PROVE  LET c == sent[1].cmd
             own == sent[1].own IN
         /\ done \subseteq done' /\ conn' = "open"
         /\ \/ /\ Grown(own, Good["ftp"][c])
               /\ \/ c \in Transfers /\ data = "up" /\ mode' = c /\ data' = "moving"
                  \/ c \notin Transfers /\ mode' = mode /\ data' = IF c = "PASV" THEN "asked" ELSE data
               /\ own /\ c \in Transfers \cup {"DELE"} => c \in done'
            \/ Grown(own, "err") /\ data' = data /\ mode' \notin Transfers
<1>1. PICK c, own : c = Head(sent).cmd /\ own = Head(sent).own
  OBVIOUS
<1>2. c = sent[1].cmd /\ own = sent[1].own /\ c \in Understood("ftp") /\ own \in BOOLEAN
      /\ mode \notin Transfers /\ conn = "open"
  BY <1>1, Served, Oldest DEF Answer, Base, TypeOK, NetworkOK
<1>3. \/ /\ Reply(own, Good["ftp"][c])
         /\ \/ c \in Transfers /\ data = "up" /\ mode' = c /\ data' = "moving"
            \/ c \notin Transfers /\ mode' = mode /\ data' = IF c = "PASV" THEN "asked" ELSE data
         /\ done \subseteq done' /\ conn' = "open"
         /\ own /\ c \in Transfers \cup {"DELE"} => c \in done'
      \/ Reply(own, "err") /\ data' = data /\ mode' \notin Transfers /\ done' = done /\ conn' = conn
  BY <1>1, <1>2, FtpCodes DEF Answer, Transfers, Effects
<1>4. Good["ftp"][c] \in Codes /\ "err" \in Codes
  BY <1>2, FtpCodes
<1>5. /\ Reply(own, Good["ftp"][c]) => Grown(own, Good["ftp"][c])
      /\ Reply(own, "err") => Grown(own, "err")
  BY <1>2, <1>4, GrownFtp
<1> QED BY <1>2, <1>3, <1>5

LEMMA Here0 ==
  ASSUME UNCHANGED client
  PROVE  /\ This' = This /\ Order' = Order /\ Mark' = Mark /\ Moving' = Moving /\ Final' = Final
         /\ Cmd' = Cmd /\ \A do : Here(do)' = Here(do)
         /\ AtFtp' <=> (AtFtp /\ peer' = "ftp") \/ (peer # "ftp" /\ AtFtp')
         /\ Script(prog, op)[at - 1]' = Script(prog, op)[at - 1]
         /\ state' = state /\ at' = at
  BY DEF client, This, Order, Mark, Moving, Final, Cmd, Here, AtFtp

LEMMA FtpAnswer == ASSUME Base, AtFtp, FtpInv, Answer PROVE FtpInv'
<1>1. PICK c, own : c = sent[1].cmd /\ own = sent[1].own
  OBVIOUS
<1>2. /\ Len(sent) \in Nat \ {0} /\ Len(sent') = Len(sent) - 1
      /\ \A k \in 1..Len(sent) - 1 : sent'[k] = sent[k + 1]
      /\ c \in Understood("ftp") /\ own \in BOOLEAN /\ peer = "ftp"
      /\ conn = "open" /\ mode \notin Transfers /\ UNCHANGED <<client, peer, file, faults>>
  BY <1>1, Served DEF AtFtp
<1>3. /\ done \subseteq done' /\ conn' = "open"
      /\ \/ /\ Grown(own, Good["ftp"][c])
            /\ \/ c \in Transfers /\ data = "up" /\ mode' = c /\ data' = "moving"
               \/ c \notin Transfers /\ mode' = mode /\ data' = IF c = "PASV" THEN "asked" ELSE data
            /\ own /\ c \in Transfers \cup {"DELE"} => c \in done'
         \/ Grown(own, "err") /\ data' = data /\ mode' \notin Transfers
  BY <1>1, <1>2, FtpServed
<1>4. PICK code : /\ Grown(own, code) /\ code \notin {"421", "226", NoCode}
                  /\ code = "227" => c = "PASV" /\ data' = "asked" /\ mode' = mode
                  /\ code = "150" => c \in Transfers /\ data = "up" /\ mode' = c /\ data' = "moving"
                                     /\ (own => c \in done')
  <2>1. Good["ftp"][c] \notin {"421", "226", NoCode} /\ "err" \notin {"421", "226", "227", "150", NoCode}
    BY <1>2, FtpCodes, Blank
  <2>2. /\ Good["ftp"][c] = "227" => c = "PASV"
        /\ Good["ftp"][c] = "150" <=> c \in Transfers
    BY <1>2, FtpCodes
  <2>3. "PASV" \notin Transfers
    BY DEF Transfers
  <2> QED BY <1>2, <1>3, <2>1, <2>2, <2>3, Zenon
<1>5. /\ Len(inbox) \in Nat /\ Len(inbox') \in Nat /\ Len(inbox') > Len(inbox)
      /\ \A i \in 1..Len(inbox') : \/ i \in 1..Len(inbox) /\ inbox'[i] = inbox[i]
                                   \/ /\ i > Len(inbox) /\ inbox'[i].own = own
                                      /\ inbox'[i].code \in {code, NoCode}
      /\ \A x : Unread(x)' => Unread(x) \/ x \in {code, NoCode}
      /\ \A i, j \in 1..Len(inbox') : i > Len(inbox) /\ j > i => j = i + 1 /\ inbox'[i].part = "head"
  BY <1>4, GrownFacts
<1>6. NoCode \notin {"227", "150", "226", "421"}
  BY Blank
<1>7. /\ This' = This /\ Order' = Order /\ Mark' = Mark /\ Moving' = Moving /\ Final' = Final
      /\ Cmd' = Cmd /\ (\A do : Here(do)' = Here(do)) /\ state' = state /\ at' = at
      /\ Script(prog, op)[at - 1]' = Script(prog, op)[at - 1]
  BY <1>2, Here0
<1>8. (Moving \/ Final => NoTransfer) /\ \A i \in 1..Len(inbox) : ~inbox[i].own
  <2>1. sent # <<>>
    <3>1. Len(<<>>) = 0
      OBVIOUS
    <3> QED BY <1>2, <3>1
  <2>2. \A i \in 1..Len(inbox) : ~inbox[i].own
    BY <2>1 DEF FtpInv, OwnIsLast
  <2> QED BY <1>2, <2>1, <2>2 DEF FtpInv, TransferIsReal, Taken, Dead
<1>9. OwnIsLast'
  <2>1. \A k \in 1..Len(sent') : sent'[k].own => k = Len(sent')
    BY <1>2 DEF FtpInv, OwnIsLast
  <2>2. own => sent' = <<>>
    <3>1. PICK n : n \in Nat \ {0} /\ n = Len(sent) /\ Len(sent') = n - 1 /\ (own => 1 = n)
      <4>1. 1 \in 1..Len(sent)
        BY <1>2
      <4>2. own => 1 = Len(sent)
        BY <1>1, <4>1 DEF FtpInv, OwnIsLast
      <4> QED BY <1>2, <4>2
    <3>2. sent' \in Seq(Commands)
      BY BaseAnswer DEF Base, TypeOK, NetworkOK
    <3>3. own => Len(sent') = 0
      BY <3>1
    <3> QED BY <3>2, <3>3
  <2> QED BY <1>5, <1>8, <2>1, <2>2 DEF OwnIsLast
<1>10. FtpServer'
  BY <1>2, <1>3, <1>4, <1>5, <1>6 DEF FtpInv, FtpServer
<1>11. LastSent'
  <2>1. sent' # <<>> => sent # <<>> /\ sent'[Len(sent')] = sent[Len(sent)]
    BY <1>2
  <2> QED BY <1>7, <2>1 DEF FtpInv, LastSent
<1>12. /\ data' = "up" => data = "up" /\ code # "227" /\ code # "150"
       /\ NoTransfer => NoTransfer'
  <2>1. data' = "up" => data = "up" /\ code # "227" /\ code # "150"
    BY <1>3, <1>4
  <2>2. ASSUME NoTransfer PROVE NoTransfer'
    <3>1. data' # "up" /\ mode' \notin Transfers
      BY <1>2, <1>3, <2>1, <2>2 DEF NoTransfer
    <3> QED BY <1>4, <1>5, <1>6, <2>2, <3>1 DEF NoTransfer
  <2> QED BY <2>1, <2>2
<1>13. Ports'
  <2>1. data' = "up" => ~Unread("227")'
    BY <1>5, <1>6, <1>12 DEF FtpInv, Ports
  <2>2. ASSUME NEW i \in 1..Len(inbox'), NEW j \in 1..Len(inbox'), i < j, inbox'[i].code = "227",
               inbox'[j].code \in {"150", "226"}
        PROVE  FALSE
    <3>1. CASE j <= Len(inbox)
      <4>1. i \in 1..Len(inbox) /\ j \in 1..Len(inbox) /\ inbox'[i] = inbox[i] /\ inbox'[j] = inbox[j]
        BY <1>5, <2>2, <3>1
      <4> QED BY <2>2, <4>1 DEF FtpInv, Ports, AfterPort
    <3>2. CASE j > Len(inbox)
      <4>1. code = "150" /\ data = "up"
        BY <1>4, <1>5, <1>6, <2>2, <3>2
      <4>2. ~Unread("227")
        BY <4>1 DEF FtpInv, Ports
      <4> QED BY <1>5, <1>6, <2>2, <4>1, <4>2 DEF Unread
    <3> QED BY <1>5, <3>1, <3>2
  <2>3. data' = "up" => \A k \in 1..Len(sent') : sent'[k].cmd \notin Transfers
    <3>1. ASSUME data = "up", NEW k \in 1..Len(sent'), sent'[k].cmd \in Transfers PROVE FALSE
      <4>1. k + 1 \in 1..Len(sent) /\ sent[k + 1].cmd \in Transfers
        BY <1>2, <3>1
      <4>2. Len(sent) = 1
        BY <3>1, <4>1 DEF FtpInv, Ports
      <4> QED BY <1>2, <4>1, <4>2
    <3> QED BY <1>12, <3>1
  <2>4. ASSUME mode' \in Transfers PROVE ~Unread("227")'
    <3>1. data = "up" /\ c \in Transfers
      BY <1>2, <1>3, <2>4
    <3>2. code # "227"
      BY <1>4, <3>1 DEF Transfers
    <3> QED BY <1>5, <1>6, <3>1, <3>2 DEF FtpInv, Ports
  <2> QED BY <2>1, <2>2, <2>3, <2>4 DEF Ports, AfterPort
<1>14. AnswersPort'
  <2>1. ASSUME Here("enter"), NEW i \in 1..Len(inbox'), inbox'[i].own, inbox'[i].code = "227"
        PROVE  /\ data' = "asked" /\ mode' \notin Transfers
               /\ \A j \in i+1..Len(inbox') : j = i + 1 /\ inbox'[i].part = "head"
    <3>1. i > Len(inbox) /\ code = "227"
      BY <1>5, <1>6, <1>8, <2>1
    <3>2. \A j \in i+1..Len(inbox') : j \in 1..Len(inbox') /\ j > i
      BY <1>5
    <3> QED BY <1>2, <1>4, <1>5, <3>1, <3>2
  <2> QED BY <1>7, <2>1 DEF AnswersPort
<1>15. TransferIsReal'
  <2>1. ASSUME Order
        PROVE  ~Unread("150")' /\ data' # "up" /\ NoTransfer'
    <3>1. ~Mark /\ ~Unread("150") /\ data # "up" /\ NoTransfer
      BY <1>2, <2>1 DEF FtpInv, TransferIsReal, Order, Mark, Here
    <3>2. code # "150"
      BY <1>4, <3>1
    <3> QED BY <1>5, <1>6, <1>12, <3>1, <3>2
  <2>2. ASSUME Mark, Unread("150")' PROVE Taken'
    <3>1. ~Unread("150")
      BY <1>2, <2>2 DEF FtpInv, TransferIsReal, Taken
    <3>2. code = "150" /\ c \in Transfers /\ data = "up"
      BY <1>4, <1>5, <1>6, <2>2, <3>1
    <3>3. Len(sent) = 1 /\ inbox = <<>>
      <4>1. 1 \in 1..Len(sent) /\ sent[1].cmd \in Transfers
        BY <1>1, <1>2, <3>2
      <4> QED BY <3>2, <4>1 DEF FtpInv, Ports
    <3>4. sent[1] = [cmd |-> Cmd, own |-> TRUE]
      <4>1. at > 1 /\ Script(prog, op)[at - 1].do = "send" /\ Script(prog, op)[at - 1].what = Cmd
        <5>1. FtpStep(prog, op, at) /\ state = "running" /\ This.do = "read" /\ This.ok = "150"
          BY <2>2, Placed DEF Mark, Here, This
        <5> QED BY <5>1, MarkedStep DEF FtpStep, This, Cmd
      <4>2. state = "running" /\ LastSent
        BY <2>2 DEF FtpInv, Mark, Here
      <4>3. PICK n : n = Len(sent) /\ n = 1
        BY <3>3
      <4>4. sent[n] = [cmd |-> Cmd, own |-> TRUE]
        <5>1. Len(<<>>) = 0
          OBVIOUS
        <5>2. sent # <<>>
          BY <1>2, <5>1
        <5> QED BY <4>1, <4>2, <4>3, <5>2 DEF LastSent
      <4> QED BY <4>3, <4>4
    <3>5. c = Cmd /\ own
      BY <1>1, <3>4
    <3>6. sent' = <<>>
      <4>1. sent' \in Seq(Commands)
        BY BaseAnswer DEF Base, TypeOK, NetworkOK
      <4> QED BY <1>2, <3>3, <4>1
    <3>7. ~Unread("226")'
      BY <1>4, <1>5, <1>6, <3>3 DEF Unread
    <3> QED BY <1>4, <1>7, <3>2, <3>5, <3>6, <3>7 DEF Taken, Course
  <2>3. Mark => NoTransfer' \/ Coded'
    BY <1>4, <1>12, StaysCoded DEF FtpInv, TransferIsReal
  <2>4. Here("fetch") /\ Cmd = "RETR" => file' = "open" \/ Unopened'
    BY <1>2 DEF FtpInv, TransferIsReal, Unopened, client
  <2> QED BY <1>7, <1>8, <1>12, <2>1, <2>2, <2>3, <2>4 DEF TransferIsReal
<1> QED BY <1>9, <1>10, <1>11, <1>13, <1>14, <1>15 DEF FtpInv

LEMMA FtpEnd == ASSUME Base, AtFtp, FtpInv, EndTransfer PROVE FtpInv'
<1> DEFINE own == mode \in done /\ sent = <<>>
<1>1. PICK code \in {"226", "426"} :
        /\ Reply(own, code)
        /\ data' = IF data = "closed" THEN data ELSE IF code = "226" THEN "end" ELSE "none"
        /\ done' = IF code = "226" /\ own THEN done \cup {"226"} ELSE done
  BY Zenon DEF EndTransfer
<1>2. /\ UNCHANGED <<client, peer, conn, sent, file, faults>> /\ mode' = "ready"
      /\ conn = "open" /\ mode \in Transfers /\ data \in {"moving", "closed"} /\ peer = "ftp"
  BY DEF EndTransfer, Transfers, FtpInv, FtpServer, AtFtp
<1>3. Grown(own, code) /\ own \in BOOLEAN
  <2>1. code \in Codes /\ own \in BOOLEAN
    BY FtpCodes, <1>1 DEF Codes
  <2> QED BY <1>1, <1>2, <2>1, GrownFtp
<1>4. /\ Len(inbox) \in Nat /\ Len(inbox') \in Nat /\ Len(inbox') > Len(inbox)
      /\ \A i \in 1..Len(inbox') : \/ i \in 1..Len(inbox) /\ inbox'[i] = inbox[i]
                                   \/ /\ i > Len(inbox) /\ inbox'[i].own = own
                                      /\ inbox'[i].code \in {code, NoCode}
      /\ \A x : Unread(x)' => Unread(x) \/ x \in {code, NoCode}
  BY <1>1, <1>3, GrownFacts
<1>5. NoCode \notin {"227", "150", "226", "421"}
  BY Blank
<1>6. /\ This' = This /\ Order' = Order /\ Mark' = Mark /\ Moving' = Moving /\ Final' = Final
      /\ Cmd' = Cmd /\ (\A do : Here(do)' = Here(do)) /\ state' = state /\ at' = at
      /\ Script(prog, op)[at - 1]' = Script(prog, op)[at - 1]
  BY <1>2, Here0
<1>7. mode' \notin Transfers /\ data' \in {"closed", "end", "none"} /\ done \subseteq done'
  BY <1>1, <1>2 DEF Transfers
<1>8. OwnIsLast'
  BY <1>2, <1>4 DEF FtpInv, OwnIsLast
<1>9. FtpServer'
  BY <1>1, <1>2, <1>4, <1>5, <1>7 DEF FtpInv, FtpServer
<1>10. LastSent'
  BY <1>2, <1>6 DEF FtpInv, LastSent
<1>11. Ports'
  <2>1. ASSUME NEW i \in 1..Len(inbox'), NEW j \in 1..Len(inbox'), i < j, inbox'[i].code = "227",
               inbox'[j].code \in {"150", "226"}
        PROVE  FALSE
    <3>1. i \in 1..Len(inbox) /\ inbox'[i] = inbox[i]
      BY <1>1, <1>4, <1>5, <2>1
    <3> QED BY <1>2, <2>1, <3>1 DEF FtpInv, Ports, AfterPort, Unread
  <2> QED BY <1>7, <2>1 DEF Ports, AfterPort
<1>12. AnswersPort'
  <2>1. ASSUME Here("enter"), NEW i \in 1..Len(inbox'), inbox'[i].own, inbox'[i].code = "227" PROVE FALSE
    <3>1. i \in 1..Len(inbox) /\ inbox'[i] = inbox[i]
      BY <1>1, <1>4, <1>5, <2>1
    <3> QED BY <1>2, <2>1, <3>1 DEF FtpInv, AnswersPort
  <2> QED BY <1>6, <2>1 DEF AnswersPort
<1>13. Taken => Taken'
  <2>1. ASSUME Taken PROVE own /\ mode = Cmd /\ data = "moving" /\ ~Unread("226")
    BY <1>2, <2>1 DEF Taken, Course
  <2>2. CASE code = "226"
    BY <1>1, <1>2, <1>6, <1>7, <2>1, <2>2 DEF Taken, Course
  <2>3. CASE code = "426"
    <3>1. ~Unread("226") => ~Unread("226")'
      BY <1>4, <1>5, <2>3
    <3> QED BY <1>1, <1>2, <1>6, <1>7, <2>1, <2>3, <3>1 DEF Taken, Course
  <2> QED BY <2>2, <2>3
<1>14. TransferIsReal'
  <2>1. ~NoTransfer /\ ~Order
    BY <1>2 DEF FtpInv, TransferIsReal, NoTransfer
  <2>2. Mark => (~Unread("150")' \/ Taken') /\ Coded'
    <3>1. Mark => ~Unread("150")' \/ Taken'
      BY <1>1, <1>4, <1>5, <1>13 DEF FtpInv, TransferIsReal
    <3>2. Mark => Coded'
      BY <1>1, <1>3, <1>5, <2>1, Blank, StaysCoded DEF FtpInv, TransferIsReal
    <3> QED BY <3>1, <3>2
  <2>3. Moving => Taken'
    BY <1>2, <1>13, <2>1 DEF FtpInv, TransferIsReal, Dead
  <2>4. Here("fetch") /\ Cmd = "RETR" => file' = "open" \/ Unopened'
    BY <1>2 DEF FtpInv, TransferIsReal, Unopened, client
  <2>5. ASSUME Final
        PROVE  Cmd \in done' /\ sent' = <<>> /\ (Unread("226")' => "226" \in done') /\ Cmd # "RETR"
    <3>1. Cmd \in done /\ sent = <<>> /\ mode = Cmd /\ Cmd = "STOR" /\ (Unread("226") => "226" \in done)
      BY <1>2, <2>1, <2>5 DEF FtpInv, TransferIsReal, Dead
    <3>2. Unread("226")' => Unread("226") \/ code = "226"
      BY <1>4, <1>5
    <3>3. code = "226" => "226" \in done'
      BY <1>1, <3>1
    <3> QED BY <1>2, <1>7, <3>1, <3>2, <3>3
  <2> QED BY <1>6, <1>7, <2>1, <2>2, <2>3, <2>4, <2>5 DEF TransferIsReal
<1> QED BY <1>8, <1>9, <1>10, <1>11, <1>12, <1>14 DEF FtpInv

LEMMA FtpClose == ASSUME Base, AtFtp, FtpInv, CloseIdle PROVE FtpInv'
<1>1. /\ conn = "open" /\ conn' = "ended" /\ sent = <<>> /\ mode \notin Transfers
      /\ UNCHANGED <<client, peer, sent, mode, data, done, file, faults>>
      /\ Len(inbox) \in Nat /\ Len(inbox') \in Nat /\ Len(inbox') >= Len(inbox)
      /\ \A i \in 1..Len(inbox') : \/ i \in 1..Len(inbox) /\ inbox'[i] = inbox[i]
                                   \/ i > Len(inbox) /\ OnePart(inbox'[i], FALSE, "421")
      /\ \A x : Unread(x)' => Unread(x) \/ x = "421"
  <2>1. Len(inbox) \in Nat /\ inbox' \in Seq(Pieces) /\ Len(inbox') \in Nat
    BY BaseOthers DEF Base, TypeOK, NetworkOK
  <2>2. \A x : Unread(x)' => Unread(x) \/ x = "421"
    BY NewCodes
  <2>3. \/ inbox' = inbox
        \/ /\ Len(inbox') = Len(inbox) + 1
           /\ \A i \in 1..Len(inbox) : inbox'[i] = inbox[i]
           /\ OnePart(inbox'[Len(inbox) + 1], FALSE, "421")
    BY Closed
  <2>4. Len(inbox') >= Len(inbox)
    BY <2>1, <2>3 DEF OnePart
  <2>5. ASSUME NEW i \in 1..Len(inbox')
        PROVE  \/ i \in 1..Len(inbox) /\ inbox'[i] = inbox[i]
               \/ i > Len(inbox) /\ OnePart(inbox'[i], FALSE, "421")
    <3>1. CASE inbox' = inbox
      BY <3>1
    <3>2. CASE i \in 1..Len(inbox)
      BY <2>3, <3>2
    <3>3. CASE i \notin 1..Len(inbox) /\ inbox' # inbox
      <4>1. i = Len(inbox) + 1
        BY <2>1, <2>3, <3>3 DEF OnePart
      <4> QED BY <2>1, <2>3, <3>3, <4>1 DEF OnePart
    <3> QED BY <3>1, <3>2, <3>3
  <2>6. UNCHANGED <<client, peer, sent, mode, data, done, file, faults>> /\ conn = "open" /\ conn' = "ended"
        /\ sent = <<>> /\ mode \notin Transfers
    BY Closed
  <2> QED BY <2>1, <2>2, <2>4, <2>5, <2>6
<1>2. /\ This' = This /\ Order' = Order /\ Mark' = Mark /\ Moving' = Moving /\ Final' = Final
      /\ Cmd' = Cmd /\ (\A do : Here(do)' = Here(do)) /\ state' = state /\ at' = at
  BY <1>1, Here0
<1>3. OwnIsLast'
  BY <1>1 DEF FtpInv, OwnIsLast, OnePart
<1>4. FtpServer'
  BY <1>1 DEF FtpInv, FtpServer
<1>5. Ports'
  <2>1. ASSUME NEW i \in 1..Len(inbox'), NEW j \in 1..Len(inbox'), i < j, inbox'[i].code = "227",
               inbox'[j].code \in {"150", "226"}
        PROVE  FALSE
    <3>1. i \in 1..Len(inbox) /\ j \in 1..Len(inbox) /\ inbox'[i] = inbox[i] /\ inbox'[j] = inbox[j]
      BY <1>1, <2>1 DEF OnePart
    <3> QED BY <2>1, <3>1 DEF FtpInv, Ports, AfterPort
  <2> QED BY <1>1, <2>1 DEF FtpInv, Ports, AfterPort
<1>6. AnswersPort'
  <2>1. ASSUME Here("enter"), NEW i \in 1..Len(inbox'), inbox'[i].own, inbox'[i].code = "227"
        PROVE  /\ data = "asked"
               /\ \A j \in i+1..Len(inbox') :
                    inbox'[j].code = "421" \/ (j = i + 1 /\ inbox'[i].part = "head")
    <3>1. i \in 1..Len(inbox) /\ inbox'[i] = inbox[i]
      BY <1>1, <2>1 DEF OnePart
    <3>2. /\ data = "asked"
          /\ \A j \in i+1..Len(inbox) :
               inbox[j].code = "421" \/ (j = i + 1 /\ inbox[i].part = "head")
      BY <2>1, <3>1 DEF FtpInv, AnswersPort
    <3>3. \A j \in i+1..Len(inbox') : (j \in i+1..Len(inbox) /\ inbox'[j] = inbox[j]) \/ inbox'[j].code = "421"
      BY <1>1, <3>1 DEF OnePart
    <3> QED BY <3>1, <3>2, <3>3
  <2> QED BY <1>1, <1>2, <2>1 DEF AnswersPort
<1>7. (Taken => Taken') /\ (NoTransfer => NoTransfer') /\ (Coded => Coded')
  <2>1. Taken => Taken'
    BY <1>1, <1>2 DEF Taken, Course
  <2>2. NoTransfer => NoTransfer'
    BY <1>1 DEF NoTransfer
  <2>3. ASSUME Coded, inbox' # <<>> PROVE inbox'[1].code # NoCode
    <3>1. 1 \in 1..Len(inbox')
      BY <2>3, BaseOthers DEF Base, TypeOK, NetworkOK
    <3>2. CASE 1 \in 1..Len(inbox) /\ inbox'[1] = inbox[1]
      <4>1. Len(<<>>) = 0
        OBVIOUS
      <4>2. inbox # <<>>
        BY <3>2, <4>1
      <4> QED BY <2>3, <3>2, <4>2 DEF Coded
    <3>3. CASE OnePart(inbox'[1], FALSE, "421")
      BY <3>3, Blank DEF OnePart
    <3> QED BY <1>1, <3>1, <3>2, <3>3
  <2> QED BY <2>1, <2>2, <2>3 DEF Coded
<1>8. TransferIsReal'
  <2>1. Order => /\ ~Unread("150")'
                 /\ data' = "up" => \A i \in 1..Len(inbox') : inbox'[i].code = "421"
                 /\ data' # "up" => NoTransfer'
    BY <1>1, <1>7 DEF FtpInv, TransferIsReal, OnePart
  <2>2. Mark => (~Unread("150")' \/ Taken') /\ (NoTransfer' \/ Coded')
    BY <1>1, <1>7 DEF FtpInv, TransferIsReal
  <2>3. Moving => Taken' \/ NoTransfer'
    BY <1>1, <1>7 DEF FtpInv, TransferIsReal, Dead
  <2>4. Here("fetch") /\ Cmd = "RETR" => file' = "open" \/ Unopened'
    BY <1>1 DEF FtpInv, TransferIsReal, Unopened, client
  <2>5. Final => \/ NoTransfer'
                 \/ /\ Cmd \in done'
                    /\ Unread("226")' => Unread("226")
                    /\ Unread("226") => "226" \in done' /\ (Cmd = "RETR" => file' = "whole" \/ Unopened')
    BY <1>1, <1>7 DEF FtpInv, TransferIsReal, Dead, Unopened, client
  <2>6. sent' = <<>> /\ mode' \notin Transfers
    BY <1>1
  <2> QED BY <1>2, <2>1, <2>2, <2>3, <2>4, <2>5, <2>6 DEF TransferIsReal
<1> QED BY <1>1, <1>3, <1>4, <1>5, <1>6, <1>8 DEF FtpInv, LastSent

LEMMA PlainFtp ==
  ASSUME OwnIsLast', FtpServer', LastSent', Plain',
         data' = "up" => ~Unread("227")',
         AfterPort',
         data' = "up" => \A k \in 1..Len(sent') : sent'[k].cmd \notin Transfers
  PROVE  FtpInv'
<1>1. Ports'
  BY DEF Ports
<1>2. ~Here("fetch")' /\ ~Here("enter")'
  BY DEF Plain, Moving, Here
<1> QED BY <1>1, <1>2 DEF FtpInv, Plain, AnswersPort, TransferIsReal

LEMMA Stopped == ASSUME state' # "running" PROVE Plain' /\ LastSent'
  BY DEF Plain, Order, Mark, Moving, Final, Here, LastSent

\* Outside the mark of a transfer no data connection is up for a command on its way.
NoneUp == data = "up" => \A k \in 1..Len(sent) : sent[k].cmd \notin Transfers

LEMMA Unmarked == ASSUME FtpInv, ~Mark \/ conn # "open" \/ inbox # <<>> PROVE NoneUp
<1>1. CASE conn # "open"
  BY <1>1 DEF FtpInv, FtpServer, NoneUp
<1> QED BY <1>1 DEF FtpInv, Ports, NoneUp

LEMMA FtpTaking ==
  ASSUME Base, FtpInv, NEW n, Taking(n), UNCHANGED <<sent, mode, conn>>,
         mode \in Transfers => data' = data
  PROVE  /\ OwnIsLast' /\ FtpServer'
         /\ \A x : Unread(x)' => Unread(x)
         /\ AfterPort'
         /\ n \in 1..Len(inbox) /\ Len(inbox) \in Nat /\ Len(inbox') = Len(inbox) - n /\ inbox # <<>>
         /\ \A i \in 1..Len(inbox') : i + n \in 1..Len(inbox) /\ inbox'[i] = inbox[i + n]
         /\ NoneUp
<1>1. /\ n \in 1..Len(inbox) /\ Len(inbox) \in Nat /\ Len(inbox') = Len(inbox) - n
      /\ \A i \in 1..Len(inbox') : i + n \in 1..Len(inbox) /\ inbox'[i] = inbox[i + n]
  <2>1. Len(inbox) \in Nat
    BY DEF Base, TypeOK, NetworkOK
  <2> QED BY <2>1 DEF Taking
<1>2. inbox # <<>>
  <2>1. Len(<<>>) = 0
    OBVIOUS
  <2> QED BY <1>1, <2>1
<1>3. \A x : Unread(x)' => Unread(x)
  BY <1>1 DEF Unread
<1>4. OwnIsLast'
  BY <1>1 DEF FtpInv, OwnIsLast
<1>6. FtpServer'
  BY <1>3 DEF FtpInv, FtpServer
<1>7. ASSUME NEW i \in 1..Len(inbox'), NEW j \in 1..Len(inbox'), i < j, inbox'[i].code = "227",
             inbox'[j].code \in {"150", "226"}
      PROVE  FALSE
  <2>1. i + n \in 1..Len(inbox) /\ j + n \in 1..Len(inbox) /\ i + n < j + n
        /\ inbox'[i] = inbox[i + n] /\ inbox'[j] = inbox[j + n]
    <3>1. /\ i + n \in 1..Len(inbox) /\ inbox'[i] = inbox[i + n]
          /\ j + n \in 1..Len(inbox) /\ inbox'[j] = inbox[j + n]
      BY <1>1
    <3>2. i \in Nat /\ j \in Nat /\ n \in Nat /\ i < j
      BY <1>1, <1>7
    <3> QED BY <3>1, <3>2
  <2> QED BY <1>7, <2>1 DEF FtpInv, Ports, AfterPort
<1>8. NoneUp
  BY <1>2, Unmarked
<1>9. AfterPort'
  BY <1>3, <1>7 DEF FtpInv, Ports, AfterPort
<1> QED BY <1>1, <1>2, <1>3, <1>4, <1>6, <1>8, <1>9

\* A reader that sees the end has read everything.
LEMMA NothingLeft ==
  ASSUME Base, peer = "ftp", FtpServer, AtEnd
  PROVE  Dead /\ sent = <<>> /\ mode \notin Transfers
<1>1. conn # "open" /\ Readable = {}
  BY DEF AtEnd
<1>2. ASSUME inbox # <<>> PROVE FALSE
  <2>1. 1 \in 1..Len(inbox)
    BY <1>2 DEF Base, TypeOK, NetworkOK
  <2>2. 1 \in Readable
    BY <2>1 DEF Readable, Pipe, RawRead
  <2> QED BY <1>1, <2>2
<1> QED BY <1>1, <1>2 DEF Dead, FtpServer

LEMMA FtpOffers ==
  \A o \in {"list", "get", "put", "delete", "cd"} :
    Script("ftp", o)[1].do = "send" /\ Script("ftp", o)[1].what \in {"PASV", "DELE", "CWD"}
  BY FtpScripts, Parts

LEMMA AgedFtp ==
  ASSUME Base, FtpInv, Aged, mode' = mode
  PROVE  /\ \A i \in 1..Len(inbox') : ~inbox'[i].own
         /\ \A x : Unread(x)' <=> Unread(x)
         /\ AfterPort'
<1>1. \A x : Unread(x)' <=> Unread(x)
  BY DEF Aged, Unread
<1>2. AfterPort'
  BY <1>1 DEF Aged, FtpInv, Ports, AfterPort
<1> QED BY <1>1, <1>2 DEF Aged

LEMMA FtpChoose ==
  ASSUME Base, AtFtp, FtpInv, Choose, prog = "ftp"
  PROVE  FtpInv'
<1>1. PICK o \in DOMAIN Menu[prog] :
        Begin(o) /\ state' = IF o = "quit" /\ Menu[prog][o] = <<>> THEN "over" ELSE "running"
  BY DEF Choose
<1>2. /\ state = "menu" /\ sent' = Old(sent) /\ inbox' = Old(inbox)
      /\ UNCHANGED <<prog, peer, conn, mode, data, faults>> /\ op' = o /\ at' = 1
  BY <1>1 DEF Choose, Begin
<1>3. Aged /\ Len(sent') = Len(sent) /\ sent' \in Seq(Commands)
      /\ \A k \in 1..Len(sent) : sent'[k].cmd = sent[k].cmd /\ sent'[k].own = FALSE
  BY <1>2, OldPieces, OldCommands DEF Base, TypeOK, NetworkOK, Aged
<1>4. Plain' /\ LastSent'
  <2>1. CASE state' # "running"
    BY <2>1, Stopped
  <2>2. CASE state' = "running"
    <3>1. o \in {"list", "get", "put", "delete", "cd"}
      <4>1. Menu["ftp"]["quit"] = <<>>
        BY DEF Menu, FtpMenu
      <4> QED BY <1>1, <2>2, <4>1, Menus
    <3>2. This' = Script("ftp", o)[1]
      BY <1>2 DEF This
    <3>3. This'.do = "send" /\ This'.what \in {"PASV", "DELE", "CWD"}
      BY <3>1, <3>2, FtpOffers
    <3>4. Plain'
      BY <3>3 DEF Plain, Order, Mark, Moving, Final, Here, This, Transfers
    <3> QED BY <1>2, <3>4 DEF LastSent
  <2> QED BY <2>1, <2>2
<1>5. /\ \A i \in 1..Len(inbox') : ~inbox'[i].own
      /\ \A x : Unread(x)' <=> Unread(x)
      /\ AfterPort'
  BY <1>2, <1>3, AgedFtp
<1>6. OwnIsLast'
  BY <1>3, <1>5 DEF OwnIsLast
<1>7. FtpServer'
  <2>1. sent = <<>> => sent' = <<>>
    BY <1>3
  <2> QED BY <1>2, <1>5, <2>1 DEF FtpInv, FtpServer
<1>8. NoneUp
  BY <1>2, Unmarked DEF Mark, Here
<1> QED BY <1>2, <1>3, <1>4, <1>5, <1>6, <1>7, <1>8, PlainFtp DEF FtpInv, Ports, NoneUp

LEMMA FtpSend == ASSUME Base, AtFtp, FtpInv, SendOn PROVE FtpInv'
<1>1. /\ state = "running" /\ This.do = "send" /\ peer = "ftp"
      /\ UNCHANGED <<prog, op, peer, mode, data, done, file, faults>>
  BY Sent DEF AtFtp
<1>2. ~Mark /\ ~Here("enter") /\ ~Here("create") /\ ~Moving /\ ~Final
  BY <1>1 DEF Mark, Here, This, Moving, Final
<1>3. NoneUp
  BY <1>2, Unmarked
<1>4. CASE conn = "broken" /\ state' = "killed" /\ UNCHANGED <<at, result, conn, sent, inbox>>
  <2>1. OwnIsLast' /\ FtpServer' /\ Plain' /\ LastSent'
    BY <1>1, <1>4, Stopped DEF FtpInv, OwnIsLast, FtpServer, Unread
  <2> QED BY <1>1, <1>3, <1>4, <2>1, PlainFtp DEF FtpInv, Ports, AfterPort, NoneUp, Unread
<1>5. CASE Go /\ Aged /\ conn' \in {"open", "broken"}
           /\ \/ conn \in {"ended", "broken"} /\ conn' = "broken" /\ sent' = sent
              \/ /\ conn = "open" /\ conn' = "open"
                 /\ Len(sent') = Len(sent) + 1
                 /\ \A k \in 1..Len(sent) : sent'[k].cmd = sent[k].cmd /\ sent'[k].own = FALSE
                 /\ sent'[Len(sent) + 1] = [cmd |-> This.what, own |-> TRUE]
  <2>1. /\ \A i \in 1..Len(inbox') : ~inbox'[i].own
        /\ \A x : Unread(x)' <=> Unread(x)
        /\ AfterPort'
    BY <1>1, <1>5, AgedFtp
  <2>2. Len(sent) \in Nat /\ Len(inbox) \in Nat /\ inbox' \in Seq(Pieces) /\ sent' \in Seq(Commands)
    BY BaseSend DEF Base, TypeOK, NetworkOK
  <2>3. conn # "open" => sent = <<>>
    BY DEF FtpInv, FtpServer
  <2>4. OwnIsLast'
    BY <1>5, <2>1, <2>2, <2>3 DEF OwnIsLast
  <2>5. FtpServer'
    BY <1>1, <1>5, <2>1, <2>3 DEF FtpInv, FtpServer
  <2>6. LastSent'
    <3>1. Script(prog, op)[at' - 1] = This /\ UNCHANGED <<prog, op>>
      BY <1>1, <1>5 DEF Go, This, Base, TypeOK, ProgramOK
    <3>2. sent' # <<>> => sent'[Len(sent')] = [cmd |-> This.what, own |-> TRUE]
      BY <1>5, <2>2, <2>3
    <3> QED BY <3>1, <3>2 DEF LastSent
  <2>7. \/ ~Order /\ Plain'
        \/ ~Order /\ Here("enter")' /\ ~Order' /\ ~Mark' /\ ~Moving' /\ ~Final'
        \/ Order /\ Mark' /\ ~Order' /\ ~Moving' /\ ~Final' /\ ~Here("enter")'
    <3>1. Order => This.what \in {"LIST", "RETR", "STOR"}
      BY DEF Order, Transfers
    <3>2. This.what \in Transfers => Order
      BY <1>1 DEF Order, Here, This
    <3> QED BY <1>1, <1>2, <1>5, <3>1, <3>2, FtpTurn DEF Transfers
  <2>8. ~Here("fetch")'
    BY <2>7 DEF Plain, Moving, Here
  <2>9. ASSUME data' = "up", NEW k \in 1..Len(sent'), sent'[k].cmd \in Transfers
        PROVE  Mark' /\ Len(sent') = 1 /\ inbox' = <<>>
    <3>1. conn = "open"
      BY <2>3, <1>5, <1>3, <1>1, <2>9 DEF NoneUp
    <3>2. k = Len(sent) + 1 /\ This.what \in Transfers
      BY <1>1, <1>3, <1>5, <2>2, <2>9, <3>1 DEF NoneUp
    <3>3. Order
      BY <1>1, <3>2 DEF Order, Here, This
    <3>4. sent = <<>> /\ \A i \in 1..Len(inbox) : inbox[i].code = "421"
      BY <1>1, <2>9, <3>3 DEF FtpInv, TransferIsReal
    <3>5. ~Unread("421")
      BY <3>1 DEF FtpInv, FtpServer
    <3>6. Len(inbox') = 0
      BY <1>5, <2>2, <3>4, <3>5 DEF Aged, Unread
    <3>7. Mark'
      BY <2>7, <3>3
    <3> QED BY <1>5, <2>2, <3>1, <3>4, <3>6, <3>7
  <2>10. Ports'
    BY <1>1, <2>1, <2>9 DEF FtpInv, Ports
  <2>11. AnswersPort'
    BY <2>1 DEF AnswersPort
  <2>12. Order => NoTransfer' \/ Coded'
    <3>1. CASE data # "up"
      BY <1>1, <2>1, <3>1 DEF FtpInv, TransferIsReal, NoTransfer
    <3>2. CASE data = "up"
      <4>1. Order => \A i \in 1..Len(inbox') : inbox'[i].code = "421"
        BY <1>5, <3>2 DEF FtpInv, TransferIsReal, Aged
      <4>2. inbox' # <<>> => 1 \in 1..Len(inbox')
        BY <2>2
      <4> QED BY <4>1, <4>2, Blank DEF Coded
    <3> QED BY <3>1, <3>2
  <2>13. TransferIsReal'
    BY <2>1, <2>7, <2>8, <2>12 DEF FtpInv, TransferIsReal, Plain
  <2> QED BY <2>4, <2>5, <2>6, <2>10, <2>11, <2>13 DEF FtpInv
<1> QED BY <1>4, <1>5, Sent

\* What the rest of an answer leaves of a transfer.
LEMMA TakenRemains ==
  ASSUME Taken, Cmd' = Cmd, UNCHANGED <<sent, mode, data, done>>, \A x : Unread(x)' => Unread(x)
  PROVE  Taken'
  BY DEF Taken, Course

LEMMA FtpRead == ASSUME Base, AtFtp, FtpInv, ReadReply PROVE FtpInv'
<1>1. /\ state = "running" /\ This.do \in {"read", "skip"} /\ peer = "ftp"
      /\ UNCHANGED <<prog, op, peer, conn, sent, mode, data, done, file>>
  BY Heard DEF AtFtp
<1>2. LastSent'
  <2>1. ASSUME Go PROVE Script(prog, op)[at' - 1] = This
    BY <2>1 DEF Go, This, Base, TypeOK, ProgramOK
  <2>2. Fail => state' # "running"
    BY DEF Fail, Returns
  <2>3. Go \/ Fail
    BY Heard DEF NotSet
  <2> QED BY <1>1, <2>1, <2>2, <2>3 DEF LastSent
<1>3. Go => \/ Mark /\ Cmd' = Cmd /\ (Here("fetch")' => Cmd # "RETR")
               /\ ~Order' /\ ~Mark' /\ ~Final' /\ ~Here("enter")'
            \/ Plain'
  <2>1. ~Order /\ ~Here("create")
    BY <1>1 DEF Order, Here, This
  <2> QED BY <1>1, <2>1, FtpTurn
<1>4. Fail => Plain'
  BY Stopped DEF Fail, Returns
<1>5. CASE /\ AtEnd /\ inbox' = inbox
  <2>1. Dead /\ sent = <<>> /\ mode \notin Transfers
    BY <1>1, <1>5, NothingLeft DEF FtpInv
  <2>2. Dead'
    BY <1>1, <1>5, <2>1 DEF Dead
  <2>3. OwnIsLast' /\ FtpServer'
    BY <1>1, <1>5 DEF FtpInv, OwnIsLast, FtpServer, Unread
  <2>4. Ports' /\ AnswersPort'
    BY <1>1, <1>5, <2>1 DEF FtpInv, Ports, AfterPort, AnswersPort, Unread, Dead
  <2>5. TransferIsReal'
    <3>1. Plain' => TransferIsReal'
      <4>1. Plain' => ~Here("fetch")'
        BY DEF Plain, Moving, Here
      <4> QED BY <4>1 DEF Plain, TransferIsReal
    <3>2. Cmd' = Cmd /\ (Here("fetch")' => Cmd # "RETR") /\ ~Order' /\ ~Mark' /\ ~Final'
            => TransferIsReal'
      BY <2>2 DEF TransferIsReal
    <3>3. Go \/ Fail
      BY Heard DEF NotSet
    <3> QED BY <1>3, <1>4, <3>1, <3>2, <3>3
  <2> QED BY <1>2, <2>3, <2>4, <2>5 DEF FtpInv
<1>6. ASSUME NEW n, Taking(n), Go \/ Fail, This.do = "read" /\ Go => inbox[1].code = This.ok
      PROVE  FtpInv'
  <2>1. /\ OwnIsLast' /\ FtpServer'
        /\ \A x : Unread(x)' => Unread(x)
        /\ AfterPort'
        /\ n \in 1..Len(inbox) /\ Len(inbox) \in Nat /\ NoneUp
    BY <1>1, <1>6, FtpTaking
  <2>2. data' = "up" => ~Unread("227")' /\ \A k \in 1..Len(sent') : sent'[k].cmd \notin Transfers
    BY <1>1, <2>1 DEF FtpInv, Ports, NoneUp
  <2>3. Plain' => FtpInv'
    BY <1>2, <2>1, <2>2, PlainFtp
  <2>4. ASSUME Go, Mark, Cmd' = Cmd, Here("fetch")' => Cmd # "RETR",
               ~Order', ~Mark', ~Final', ~Here("enter")'
        PROVE  FtpInv'
    <3>1. inbox[1].code = "150"
      BY <1>1, <1>6, <2>4 DEF Mark, Here, This
    <3>2. Unread("150")
      BY <2>1, <3>1 DEF Unread
    <3>3. Taken
      BY <2>4, <3>2 DEF FtpInv, TransferIsReal
    <3>4. Taken'
      BY <1>1, <2>1, <2>4, <3>3, TakenRemains
    <3>5. TransferIsReal'
      BY <2>4, <3>4 DEF TransferIsReal
    <3>6. Ports' /\ AnswersPort'
      BY <2>1, <2>2, <2>4 DEF Ports, AnswersPort
    <3> QED BY <1>2, <2>1, <3>5, <3>6 DEF FtpInv
  <2> QED BY <1>3, <1>4, <1>6, <2>3, <2>4
<1>7. ASSUME NEW n, Taking(n), NotSet PROVE FtpInv'
  <2>1. /\ OwnIsLast' /\ FtpServer' /\ AfterPort' /\ inbox # <<>>
        /\ \A x : Unread(x)' => Unread(x)
        /\ NoneUp
    BY <1>1, <1>7, FtpTaking
  <2>2. data' = "up" => ~Unread("227")' /\ \A k \in 1..Len(sent') : sent'[k].cmd \notin Transfers
    BY <1>1, <2>1 DEF FtpInv, Ports, NoneUp
  <2>3. CASE Plain'
    BY <1>2, <2>1, <2>2, <2>3, PlainFtp
  <2>4. CASE Mark /\ (Here("fetch")' => Cmd' # "RETR") /\ ~Order' /\ ~Mark' /\ ~Final' /\ ~Here("enter")'
    <3>1. NoTransfer
      BY <1>7, <2>1, <2>4 DEF FtpInv, TransferIsReal, Coded, NotSet
    <3>2. NoTransfer'
      BY <1>1, <2>1, <3>1 DEF NoTransfer
    <3>3. TransferIsReal'
      BY <2>4, <3>2 DEF TransferIsReal
    <3>4. Ports' /\ AnswersPort'
      BY <2>1, <2>2, <2>4 DEF Ports, AnswersPort
    <3> QED BY <1>2, <2>1, <3>3, <3>4 DEF FtpInv
  <2> QED BY <1>3, <1>7, <2>3, <2>4 DEF NotSet
<1> QED BY <1>5, <1>6, <1>7, Heard

LEMMA FtpEnter == ASSUME Base, AtFtp, FtpInv, EnterPassive PROVE FtpInv'
<1>1. /\ state = "running" /\ This.do = "enter" /\ Here("enter") /\ peer = "ftp"
      /\ UNCHANGED <<peer, conn, sent, mode, done, file>>
  BY DEF AtFtp, EnterPassive, Here, This
<1>2. ~Mark /\ ~Order /\ ~Moving /\ ~Final
  BY <1>1 DEF Mark, Order, Moving, Final, Here, This
<1>3. NoneUp
  BY <1>2, Unmarked
<1>4. CASE AtEnd /\ Fail /\ UNCHANGED <<inbox, faults, data>>
  <2>1. Plain' /\ LastSent'
    BY <1>4, Stopped DEF Fail, Returns
  <2>2. OwnIsLast' /\ FtpServer'
    BY <1>1, <1>4 DEF FtpInv, OwnIsLast, FtpServer, Unread
  <2> QED BY <1>1, <1>3, <1>4, <2>1, <2>2, PlainFtp DEF FtpInv, Ports, AfterPort, NoneUp, Unread
<1>5. ASSUME NEW n, Taking(n), mode \in Transfers => data' = data
      PROVE  /\ OwnIsLast' /\ FtpServer'
             /\ \A x : Unread(x)' => Unread(x)
             /\ AfterPort'
             /\ n \in 1..Len(inbox) /\ Len(inbox) \in Nat /\ Len(inbox') = Len(inbox) - n
             /\ \A i \in 1..Len(inbox') : i + n \in 1..Len(inbox) /\ inbox'[i] = inbox[i + n]
  BY <1>1, <1>5, FtpTaking
<1>6. ASSUME NEW n, Taking(n), Fail, data' = data PROVE FtpInv'
  <2>1. Plain' /\ LastSent'
    BY <1>6, Stopped DEF Fail, Returns
  <2> QED BY <1>1, <1>3, <1>5, <1>6, <2>1, PlainFtp DEF FtpInv, Ports, NoneUp
<1>7. ASSUME NEW n, Taking(n), Takes(inbox[1].code), inbox[1].part = "all" \/ n > 1, Go,
             data' = IF inbox[1].own /\ data = "asked" THEN "up" ELSE data
      PROVE  FtpInv'
  <2>1. This.ok = "227" /\ Order' /\ ~Mark' /\ ~Moving' /\ ~Final' /\ ~Here("enter")' /\ ~Here("fetch")'
    <3>1. This.ok = "227" /\ Order' /\ ~Mark' /\ ~Moving' /\ ~Final' /\ ~Here("enter")'
      BY <1>1, <1>2, <1>7, FtpTurn DEF Moving
    <3> QED BY <3>1 DEF Moving, Here
  <2>2. inbox[1].code = "227"
    BY <1>7, <2>1 DEF Takes
  <2>3. n \in 1..Len(inbox) /\ Len(inbox) \in Nat
    BY <1>7 DEF Taking, Base, TypeOK, NetworkOK
  <2>4. data # "up"
    <3>1. Unread("227")
      BY <2>2, <2>3 DEF Unread
    <3> QED BY <3>1 DEF FtpInv, Ports
  <2>5. mode \in Transfers => data' = data
    <3>1. mode \in Transfers => data # "asked"
      BY DEF FtpInv, FtpServer
    <3> QED BY <1>7, <3>1
  <2>6. /\ OwnIsLast' /\ FtpServer'
        /\ \A x : Unread(x)' => Unread(x)
        /\ AfterPort'
        /\ \A i \in 1..Len(inbox') : i + n \in 1..Len(inbox) /\ inbox'[i] = inbox[i + n]
    BY <1>5, <1>7, <2>5
  <2>7. ASSUME data' = "up"
        PROVE  sent' = <<>> /\ \A i \in 1..Len(inbox') : inbox'[i].code = "421"
    <3>1. inbox[1].own /\ data = "asked"
      BY <1>7, <2>4, <2>7
    <3>2. 1 \in 1..Len(inbox)
      BY <2>3
    <3>3. sent = <<>>
      BY <3>1, <3>2 DEF FtpInv, OwnIsLast
    <3>4. \A j \in 2..Len(inbox) : inbox[j].code = "421" \/ (j = 2 /\ inbox[1].part = "head")
      BY <1>1, <2>2, <3>1, <3>2 DEF FtpInv, AnswersPort
    <3>5. ASSUME NEW i \in 1..Len(inbox') PROVE inbox'[i].code = "421"
      <4>1. i + n \in 2..Len(inbox) /\ inbox'[i] = inbox[i + n]
        BY <2>3, <2>6
      <4>2. i + n = 2 => inbox[1].part # "head"
        BY <1>7, <2>3
      <4> QED BY <3>4, <4>1, <4>2
    <3> QED BY <1>1, <3>3, <3>5
  <2>8. ~Unread("150")'
    <3>1. ASSUME NEW i \in 1..Len(inbox'), inbox'[i].code = "150" PROVE FALSE
      <4>1. 1 \in 1..Len(inbox) /\ i + n \in 1..Len(inbox) /\ 1 < i + n /\ inbox'[i] = inbox[i + n]
        BY <2>3, <2>6
      <4> QED BY <2>2, <3>1, <4>1 DEF FtpInv, Ports, AfterPort
    <3> QED BY <3>1 DEF Unread
  <2>9. Ports'
    <3>1. data' = "up" => ~Unread("227")'
      BY <2>7 DEF Unread
    <3>2. data' = "up" => \A k \in 1..Len(sent') : sent'[k].cmd \notin Transfers
      BY <2>7
    <3> QED BY <2>6, <3>1, <3>2 DEF Ports
  <2>12. data' # "up" => NoTransfer'
    <3>1. Unread("227") /\ 1 \in 1..Len(inbox)
      BY <2>2, <2>3 DEF Unread
    <3>2. mode' \notin Transfers
      BY <1>1, <3>1 DEF FtpInv, Ports, AfterPort
    <3>3. ASSUME NEW i \in 1..Len(inbox'), inbox'[i].code = "226" PROVE FALSE
      <4>1. i + n \in 1..Len(inbox) /\ 1 < i + n /\ inbox'[i] = inbox[i + n]
        BY <2>3, <2>6
      <4> QED BY <2>2, <3>1, <3>3, <4>1 DEF FtpInv, Ports, AfterPort
    <3> QED BY <3>2, <3>3 DEF NoTransfer, Unread
  <2>10. AnswersPort' /\ TransferIsReal'
    BY <2>1, <2>7, <2>8, <2>12 DEF AnswersPort, TransferIsReal
  <2>11. LastSent'
    <3>1. Script(prog, op)[at' - 1] = This /\ UNCHANGED <<prog, op>>
      BY <1>7 DEF Go, This, Base, TypeOK, ProgramOK
    <3> QED BY <1>1, <3>1 DEF LastSent
  <2> QED BY <2>6, <2>9, <2>10, <2>11 DEF FtpInv
<1>8. ASSUME NEW n \in Readable, inbox' = SubSeq(inbox, n + 1, Len(inbox)), faults' = faults \cup Amiss(n)
      PROVE  Taking(n)
  BY <1>8, Remains DEF Taking, Base, TypeOK, NetworkOK
<1> QED BY <1>4, <1>6, <1>7, <1>8 DEF EnterPassive

LEMMA FtpLocal ==
  ASSUME Base, AtFtp, FtpInv, CreateFile \/ FetchData \/ UploadNothing
  PROVE  FtpInv'
<1>1. /\ state = "running" /\ This.do \in {"create", "fetch", "upload"} /\ peer = "ftp"
      /\ UNCHANGED <<peer, conn, sent, inbox, mode, done>>
  BY DEF AtFtp, CreateFile, FetchData, UploadNothing, Here, This, server
<1>2. Moving /\ ~Mark /\ ~Order /\ ~Final /\ (Go \/ Fail)
  BY <1>1 DEF Moving, Mark, Order, Final, Here, This, CreateFile, FetchData, UploadNothing
<1>3. NoneUp
  BY <1>2, Unmarked
<1>4. LastSent'
  <2>1. ASSUME Go PROVE Script(prog, op)[at' - 1] = This /\ UNCHANGED <<prog, op>>
    BY <2>1 DEF Go, This, Base, TypeOK, ProgramOK
  <2>2. Fail => state' # "running"
    BY DEF Fail, Returns
  <2> QED BY <1>1, <1>2, <2>1, <2>2 DEF LastSent
<1>5. OwnIsLast' /\ \A x : Unread(x)' <=> Unread(x)
  BY <1>1 DEF FtpInv, OwnIsLast, Unread
<1>6. data' = data \/ data' = "closed"
  BY DEF CreateFile, FetchData, UploadNothing, server
<1>7. FtpServer'
  BY <1>1, <1>5, <1>6 DEF FtpInv, FtpServer
<1>8. Dead \/ Taken \/ NoTransfer
  BY <1>2 DEF FtpInv, TransferIsReal
<1>9. (Dead => Dead') /\ (NoTransfer => NoTransfer') /\ AfterPort'
  <2>1. NoTransfer => NoTransfer'
    BY <1>1, <1>5, <1>6 DEF NoTransfer
  <2>2. AfterPort'
    BY <1>1, <1>5 DEF FtpInv, Ports, AfterPort
  <2> QED BY <1>1, <2>1, <2>2 DEF Dead
<1>10. CASE CreateFile
  <2>1. This.do = "create" /\ Here("create") /\ data' = data
    BY <1>10 DEF CreateFile, Here, This, server
  <2>2. CASE Fail
    <3>1. Plain'
      BY <2>2, Stopped DEF Fail, Returns
    <3> QED BY <1>1, <1>3, <1>4, <1>5, <1>7, <1>9, <2>1, <3>1, PlainFtp DEF FtpInv, Ports, NoneUp
  <2>3. CASE Go
    <3>1. /\ Cmd' = Cmd /\ Cmd = "RETR" /\ Moving' /\ ~Order' /\ ~Mark' /\ ~Final' /\ ~Here("enter")'
          /\ This.what = IF prog = "ftp" THEN "checked" ELSE "unchecked"
      BY <1>1, <1>2, <2>1, <2>3, FtpTurn
    <3>2. prog' = prog
      BY <2>3 DEF Go
    <3>3. file' = "open" \/ Unopened'
      <4>1. file' = "open" \/ (This.what = "unchecked" /\ faults' = faults \cup {"open"})
        BY <1>10, <2>3, <3>1 DEF CreateFile, Fail, Go
      <4> QED BY <3>1, <3>2, <4>1 DEF Unopened
    <3>4. Taken => Taken'
      BY <1>1, <1>5, <2>1, <3>1, TakenRemains
    <3>5. TransferIsReal'
      BY <1>8, <1>9, <3>1, <3>3, <3>4 DEF TransferIsReal
    <3>6. Ports' /\ AnswersPort'
      BY <1>1, <1>3, <1>5, <1>9, <2>1, <3>1 DEF FtpInv, Ports, AnswersPort, NoneUp
    <3> QED BY <1>4, <1>5, <1>7, <3>5, <3>6 DEF FtpInv
  <2> QED BY <1>2, <2>2, <2>3
<1>11. CASE FetchData \/ UploadNothing
  <2>1. Go /\ data' = "closed" /\ This.do \in {"fetch", "upload"} /\ ~Here("create") /\ faults' = faults
    BY <1>11 DEF FetchData, UploadNothing, Here, This
  <2>2. /\ Cmd' = Cmd /\ (This.do = "upload" <=> Cmd = "STOR")
        /\ Final' /\ ~Order' /\ ~Mark' /\ ~Moving' /\ ~Here("enter")'
    BY <1>1, <1>2, <2>1, FtpTurn
  <2>3. prog' = prog
    BY <2>1 DEF Go
  <2>4. ASSUME Taken
        PROVE  /\ Cmd' \in done' /\ sent' = <<>>
               /\ mode' \in Transfers => mode' = Cmd' /\ Cmd' = "STOR"
               /\ Unread("226")' => "226" \in done' /\ (Cmd' = "RETR" => file' = "whole" \/ Unopened')
    <3>1. Cmd \in done /\ sent = <<>> /\ Course
      BY <2>4 DEF Taken
    <3>2. CASE FetchData
      <4>1. This.do = "fetch" /\ Here("fetch") /\ Cmd # "STOR"
            /\ file' = (IF file = "open" /\ data = "end" THEN "whole" ELSE file)
            /\ (data \notin {"up", "moving"} \/ conn # "open")
        BY <2>2, <3>2 DEF FetchData, Here, This
      <4>2. mode \in Transfers => conn = "open" /\ data \in {"moving", "closed"}
        BY DEF FtpInv, FtpServer
      <4>3. \/ mode \notin Transfers /\ data = "end" /\ "226" \in done
            \/ mode \notin Transfers /\ data = "none" /\ ~Unread("226")
        BY <3>1, <4>1, <4>2, CmdType DEF Course
      <4>4. Cmd = "RETR" => file = "open" \/ Unopened
        BY <4>1 DEF FtpInv, TransferIsReal
      <4>5. Unopened => Unopened'
        BY <2>1, <2>3 DEF Unopened
      <4> QED BY <1>1, <1>5, <2>2, <3>1, <4>1, <4>3, <4>4, <4>5
    <3>3. CASE UploadNothing
      <4>1. This.do = "upload" /\ Cmd = "STOR"
        BY <2>2, <3>3 DEF UploadNothing, Here, This
      <4> QED BY <1>1, <1>5, <2>2, <3>1, <4>1 DEF Course
    <3> QED BY <1>11, <3>2, <3>3
  <2>5. ~Here("fetch")'
    BY <2>2 DEF Moving, Here
  <2>6. TransferIsReal'
    BY <1>8, <1>9, <2>2, <2>4, <2>5 DEF TransferIsReal
  <2>7. Ports' /\ AnswersPort'
    BY <1>1, <1>5, <1>9, <2>1, <2>2 DEF FtpInv, Ports, AnswersPort
  <2> QED BY <1>4, <1>5, <1>7, <2>6, <2>7 DEF FtpInv
<1> QED BY <1>10, <1>11

LEMMA FtpWelcome ==
  /\ Script("ftp", "start")[2].do = "skip" /\ Script("toolkit", "ftp")[3].do = "skip"
  /\ Script("fulltest", "start")[12].do = "skip"
  BY FtpScripts, ToolScripts, Parts

LEMMA FtpArrivals ==
  Script("toolkit", "ftp")[2].do = "connect" /\ Script("fulltest", "start")[11].do = "connect"
  BY ToolScripts, Parts

LEMMA NoTests == ~(Len(Script("fulltest", "quit")) >= 1)
<1>1. Script("fulltest", "quit") = <<>>
  BY DEF Menu, NoMenu, Script
<1>2. Len(<<>>) = 0
  OBVIOUS
<1> QED BY <1>1, <1>2

LEMMA Welcomed ==
  ASSUME Base, ConnectTo, AtFtp'
  PROVE  /\ state = "running" /\ This.do = "connect" /\ prog' = prog /\ op' = op /\ op # "delete"
         /\ Go /\ conn' = "open" /\ mode' = "ready" /\ data' = "none"
         /\ sent' = <<[cmd |-> "connect", own |-> TRUE]>> /\ inbox' = <<>>
         /\ state' = "running" /\ This'.do = "skip"
<1>1. state = "running" /\ This.do = "connect" /\ prog' = prog /\ op' = op
  BY DEF ConnectTo, Here, This, Go, Fail
<1>2. ~AtFtp
  <2>1. ASSUME AtFtp PROVE FALSE
    <3>1. FtpStep(prog, op, at)
      BY <1>1, <2>1, Placed
    <3>2. This.do # "connect"
      BY <3>1 DEF FtpStep, StepOf, This
    <3> QED BY <1>1, <3>2
  <2> QED BY <2>1
<1>3. /\ Go /\ conn' = "open" /\ mode' = "ready" /\ data' = "none"
      /\ sent' = <<[cmd |-> "connect", own |-> TRUE]>> /\ inbox' = <<>>
  <2>1. ~(Fail /\ UNCHANGED <<peer, conn, sent, inbox, mode, data>>)
    BY <1>2 DEF Fail, AtFtp
  <2> QED BY <2>1 DEF ConnectTo
<1>4. at' = at + 1 /\ at \in Nat
  BY <1>3 DEF Go, Base, TypeOK, ProgramOK
<1>5. \/ prog = "ftp" /\ op = "start" /\ at = 1
      \/ prog = "toolkit" /\ op = "ftp" /\ at = 2
      \/ prog = "fulltest" /\ op = "start" /\ at = 11
  <2>1. CASE prog = "ftp"
    <3>1. Joined("ftp", op, at) => FALSE
      BY <1>2, <2>1 DEF Base, AtHost, Host, AtFtp
    <3> QED BY <1>4, <2>1, <3>1 DEF Joined, Base, TypeOK, ProgramOK
  <2>2. CASE prog = "toolkit" /\ op = "ftp" /\ at' >= 3
    BY <1>2, <1>4, <2>2 DEF AtFtp, Base, AtHost, Joined, Host
  <2>3. CASE prog = "fulltest" /\ at' \in 12..29
    <3>1. at = 11
      BY <1>2, <1>4, <2>3 DEF AtFtp, Base, AtHost, Joined, Host
    <3>2. op = "start"
      <4>1. op \in {"start", "quit"}
        <5>1. op \in Operations(prog)
          BY DEF Base, TypeOK, ProgramOK
        <5> QED BY <2>3, <5>1, Menus, Zenon DEF Operations
      <4>2. Len(Script(prog, op)) >= 1
        <5>1. Fine(prog, op) /\ at \in 1..Len(Script(prog, op)) + 1 /\ at <= Len(Script(prog, op))
          BY <1>1, Lengths DEF Base, TypeOK, ProgramOK
        <5> QED BY <5>1 DEF Fine
      <4> QED BY <2>3, <4>1, <4>2, NoTests
    <3> QED BY <2>3, <3>1, <3>2
  <2> QED BY <1>1, <2>1, <2>2, <2>3 DEF AtFtp
<1>6. at < Steps(prog, op)
  BY <1>5, LongScripts
<1>7. state' = "running" /\ This' = Script(prog, op)[at + 1]
  BY <1>1, <1>3, <1>6, Turned
<1>8. This'.do = "skip"
  BY <1>5, <1>7, FtpWelcome
<1> QED BY <1>1, <1>3, <1>5, <1>7, <1>8

\* An FTP client connects once, to a server that knows nothing of it.
LEMMA FtpConnects == ASSUME Base, ConnectTo, AtFtp' PROVE FtpInv'
<1>1. /\ state = "running" /\ This.do = "connect" /\ prog' = prog /\ op' = op
      /\ Go /\ conn' = "open" /\ mode' = "ready" /\ data' = "none"
      /\ sent' = <<[cmd |-> "connect", own |-> TRUE]>> /\ inbox' = <<>>
      /\ state' = "running" /\ This'.do = "skip"
  BY Welcomed
<1>2. Script(prog, op)[at' - 1] = This /\ at' = at + 1 /\ at \in Nat
  BY <1>1 DEF Go, This, Base, TypeOK, ProgramOK
<1>3. LastSent'
  BY <1>1, <1>2 DEF LastSent
<1>4. OwnIsLast'
  <2>1. PICK e : e = [cmd |-> "connect", own |-> TRUE]
    OBVIOUS
  <2>2. Len(<<e>>) = 1
    OBVIOUS
  <2>3. sent' = <<e>>
    BY <1>1, <2>1
  <2> QED BY <1>1, <2>2, <2>3 DEF OwnIsLast
<1>5. FtpServer' /\ Ports' /\ AnswersPort' /\ ~Unread("150")'
  BY <1>1 DEF FtpServer, Ports, AfterPort, AnswersPort, Transfers, Unread
<1>6. ~Moving' /\ ~Final' /\ ~Order' /\ ~Mark'
  BY <1>1 DEF Moving, Final, Order, Mark, Here, This
<1>7. TransferIsReal'
  <2>1. ~Here("fetch")'
    BY <1>6 DEF Moving, Here
  <2> QED BY <1>1, <1>5, <1>6, <2>1 DEF TransferIsReal
<1> QED BY <1>3, <1>4, <1>5, <1>7 DEF FtpInv

LEMMA FtpBefore ==
  ASSUME Base, [Next]_vars, ~ConnectTo, AtFtp'
  PROVE  AtFtp /\ (Choose => prog = "ftp")
<1>1. CASE UNCHANGED vars
  BY <1>1, Zenon DEF vars, client, server, AtFtp, Choose
<1>2. CASE Choose
  BY <1>2 DEF Choose, Begin, AtFtp
<1>3. CASE Server
  BY <1>3, Zenon DEF Server, Answer, EndTransfer, CloseIdle, client, AtFtp, Choose
<1>4. CASE Client
  <2>1. /\ state = "running" /\ peer' = peer /\ prog' = prog /\ op' = op /\ (at' = at \/ at' = at + 1)
        /\ This.do # "connect" \/ at' = at
    <3>1. ResolveName \/ SendOn \/ ReadReply \/ ReadLines \/ EnterPassive \/ ReceivePage
          \/ CreateFile \/ FetchData \/ UploadNothing
      BY <1>4 DEF Client
    <3>2. state = "running" /\ peer' = peer /\ This.do # "connect"
      BY <3>1 DEF ResolveName, SendOn, ReadReply, ReadLines, EnterPassive, ReceivePage, CreateFile,
                  FetchData, UploadNothing, Here, This
    <3>3. prog' = prog /\ op' = op /\ (at' = at \/ at' = at + 1)
      BY <3>1 DEF ResolveName, SendOn, ReadReply, ReadLines, EnterPassive, ReceivePage, CreateFile,
                  FetchData, UploadNothing, Go, Fail, Stay, GoOr
    <3> QED BY <3>2, <3>3
  <2>2. ~Choose
    BY <2>1 DEF Choose
  <2>3. at \in Nat
    BY DEF Base, TypeOK, ProgramOK
  <2>4. CASE at' = at
    BY <2>1, <2>2, <2>4 DEF AtFtp
  <2>5. CASE at' = at + 1 /\ This.do # "connect"
    <3>1. ~(prog = "toolkit" /\ op = "ftp" /\ at = 2) /\ ~(prog = "fulltest" /\ at = 11)
      <4>1. ASSUME prog = "fulltest" /\ at = 11 PROVE op = "start"
        <5>1. op \in {"start", "quit"}
          <6>1. op \in Operations(prog)
            BY DEF Base, TypeOK, ProgramOK
          <6> QED BY <4>1, <6>1, Menus, Zenon DEF Operations
        <5>2. Len(Script(prog, op)) >= 1
          <6>1. Fine(prog, op) /\ at \in 1..Len(Script(prog, op)) + 1 /\ at <= Len(Script(prog, op))
            BY <2>1, Lengths DEF Base, TypeOK, ProgramOK
          <6> QED BY <6>1 DEF Fine
        <5> QED BY <4>1, <5>1, <5>2, NoTests
      <4> QED BY <2>5, <4>1, FtpArrivals DEF This
    <3> QED BY <2>1, <2>2, <2>3, <2>5, <3>1 DEF AtFtp
  <2> QED BY <2>1, <2>4, <2>5
<1> QED BY <1>1, <1>2, <1>3, <1>4 DEF Next, Rest

LEMMA OnlyFtp == ASSUME Base, AtFtp PROVE ~ResolveName /\ ~ReadLines /\ ~ReceivePage
<1>1. state = "running" => This.do \notin {"resolve", "lines", "http"}
  <2>1. state = "running" => FtpStep(prog, op, at)
    BY Placed
  <2> QED BY <2>1 DEF FtpStep, StepOf, This
<1> QED BY <1>1 DEF ResolveName, ReadLines, ReceivePage, Here, This

LEMMA FtpNext == ASSUME Base, Ftp, [Next]_vars PROVE Ftp'
<1> SUFFICES ASSUME AtFtp' PROVE FtpInv'
  BY DEF Ftp, FtpInv
<1>1. CASE ConnectTo
  BY <1>1, FtpConnects
<1>2. CASE ~ConnectTo
  <2>1. AtFtp /\ FtpInv /\ (Choose => prog = "ftp")
    BY <1>2, FtpBefore DEF Ftp, FtpInv
  <2>2. CASE UNCHANGED vars
    <3>1. UNCHANGED client /\ UNCHANGED <<sent, inbox, mode, data, done, conn, file, faults>> /\ prog' = prog
      BY <2>2 DEF vars, server, client
    <3>2. /\ This' = This /\ Order' = Order /\ Mark' = Mark /\ Moving' = Moving /\ Final' = Final
          /\ Cmd' = Cmd /\ (\A do : Here(do)' = Here(do)) /\ state' = state /\ at' = at
          /\ Script(prog, op)[at - 1]' = Script(prog, op)[at - 1]
      BY <3>1, Here0
    <3>3. OwnIsLast' /\ FtpServer' /\ LastSent' /\ Ports' /\ AnswersPort'
      BY <2>1, <3>1, <3>2 DEF FtpInv, OwnIsLast, FtpServer, LastSent, Ports, AfterPort, AnswersPort, Unread
    <3>4. TransferIsReal'
      BY <2>1, <3>1, <3>2 DEF FtpInv, TransferIsReal, Dead, Taken, Course, NoTransfer, Coded, Unread, Unopened
    <3> QED BY <3>3, <3>4 DEF FtpInv
  <2>3. CASE Choose
    BY <2>1, <2>3, FtpChoose
  <2>4. CASE Server
    BY <2>1, <2>4, FtpAnswer, FtpEnd, FtpClose DEF Server
  <2>5. CASE Client
    <3>1. ~ResolveName /\ ~ReadLines /\ ~ReceivePage
      BY <2>1, OnlyFtp
    <3> QED BY <1>2, <2>1, <2>5, <3>1, FtpSend, FtpRead, FtpEnter, FtpLocal DEF Client
  <2> QED BY <2>2, <2>3, <2>4, <2>5 DEF Next, Rest
<1> QED BY <1>1, <1>2

----------------------------------------------------------------------------
\* What a step may change of what an operation has achieved.
LEMMA Kept ==
  ASSUME Base, [Next]_vars, ~Choose
  PROVE  /\ prog' = prog /\ op' = op /\ done \subseteq done' /\ faults \subseteq faults'
         /\ file = "whole" => file' = "whole" \/ Here("create")
         /\ \/ at' = at
            \/ state = "running" /\ Go
         /\ result' = result \/ (state = "running" /\ Fail) \/ (state = "running" /\ Go)
<1>1. CASE UNCHANGED vars
  BY <1>1, Zenon DEF vars, client, server
<1>2. CASE Server
  <2>1. CASE Answer
    <3>1. prog' = prog /\ op' = op /\ at' = at /\ result' = result /\ faults' = faults /\ file' = file
      BY <2>1 DEF Answer, client
    <3>2. done \subseteq done'
      BY <2>1 DEF Answer
    <3> QED BY <3>1, <3>2
  <2>2. CASE EndTransfer
    BY <2>2 DEF EndTransfer, client
  <2>3. CASE CloseIdle
    BY <2>3 DEF CloseIdle, client
  <2> QED BY <1>2, <2>1, <2>2, <2>3 DEF Server
<1>3. CASE Client
  <2>1. CASE ResolveName
    BY <2>1 DEF ResolveName, server, Fail, Go, Here
  <2>2. CASE ConnectTo
    BY <2>2 DEF ConnectTo, Fail, Go, Here
  <2>3. CASE SendOn
    BY <2>3 DEF SendOn, Fail, Go, Here
  <2>4. CASE ReadReply
    BY <2>4 DEF ReadReply, GoOr, Fail, Go, Here
  <2>5. CASE ReadLines
    BY <2>5 DEF ReadLines, Stay, Go, Here
  <2>6. CASE EnterPassive
    BY <2>6 DEF EnterPassive, Fail, Go, Here
  <2>7. CASE ReceivePage
    BY <2>7 DEF ReceivePage, Go, Here
  <2>8. CASE CreateFile
    BY <2>8 DEF CreateFile, server, Fail, Go, Here
  <2>9. CASE FetchData
    BY <2>9 DEF FetchData, Go, Here
  <2>10. CASE UploadNothing
    BY <2>10 DEF UploadNothing, Go, Here
  <2> QED BY <1>3, <2>1, <2>2, <2>3, <2>4, <2>5, <2>6, <2>7, <2>8, <2>9, <2>10 DEF Client
<1> QED BY <1>1, <1>2, <1>3 DEF Next, Rest

\* A client that goes on moves by one step; nobody else moves it.
LEMMA GoesOn ==
  ASSUME Base, Next, state = "running", Go
  PROVE  Client
<1>1. at' = at + 1 /\ at \in Nat
  BY DEF Go, Base, TypeOK, ProgramOK
<1>2. ~Server /\ ~Rest
  <2>1. ~Answer
    BY <1>1, Served DEF client
  <2>2. EndTransfer \/ CloseIdle => UNCHANGED client
    BY DEF EndTransfer, CloseIdle
  <2>3. ~EndTransfer /\ ~CloseIdle
    BY <1>1, <2>2 DEF client
  <2> QED BY <2>1, <2>3 DEF Server, Rest
<1>3. ~Choose
  BY DEF Choose
<1> QED BY <1>2, <1>3 DEF Next

\* The last reply of a transfer is the end of this very transfer.
LEMMA FtpFinish ==
  ASSUME Base, Ftp, Next, AtFtp, Final, Go
  PROVE  /\ {Cmd, "226"} \subseteq done /\ done' = done /\ file' = file /\ faults \subseteq faults'
         /\ Cmd = "RETR" => file = "whole" \/ Unopened
<1>1. state = "running" /\ This.do = "read" /\ This.ok = "226" /\ peer = "ftp"
  BY DEF Final, Here, This, AtFtp
<1>2. ReadReply
  BY <1>1, GoesOn DEF Client, ResolveName, ConnectTo, SendOn, ReadLines, EnterPassive, ReceivePage,
                      CreateFile, FetchData, UploadNothing, Here, This
<1>3. ~This.unset
  <2>1. FtpStep(prog, op, at)
    BY <1>1, Placed
  <2> QED BY <1>1, <2>1 DEF FtpStep, StepOf, This
<1>4. ~Fail /\ at \in Nat
  <2>1. at \in Nat
    BY DEF Base, TypeOK, ProgramOK
  <2> QED BY <2>1 DEF Go, Fail
<1>5. PICK n : Taking(n) /\ inbox[1].code = "226"
  BY <1>1, <1>2, <1>3, <1>4, Heard DEF NotSet
<1>6. Unread("226") /\ ~Dead
  <2>1. Len(inbox) \in Nat /\ n \in 1..Len(inbox)
    BY <1>5 DEF Taking, Base, TypeOK, NetworkOK
  <2>2. Len(<<>>) = 0
    OBVIOUS
  <2> QED BY <1>5, <2>1, <2>2 DEF Unread, Dead
<1>7. done' = done /\ file' = file /\ faults \subseteq faults'
  BY <1>2, <1>5, Heard DEF Taking
<1> QED BY <1>6, <1>7 DEF Ftp, FtpInv, TransferIsReal, NoTransfer

LEMMA InScript ==
  ASSUME Base, state = "running"
  PROVE  at \in Nat \ {0} /\ at <= Steps(prog, op) /\ Steps(prog, op) \in Nat
<1>1. Fine(prog, op) /\ at \in 1..Len(Script(prog, op))
  BY Lengths DEF Base, TypeOK, ProgramOK, Fine
<1> QED BY <1>1 DEF Fine, Steps

LEMMA Finals ==
  /\ \A i \in {13, 20} : Script("toolkit", "ftp")[i].do = "read" /\ Script("toolkit", "ftp")[i].ok = "226"
  /\ \A i \in {22, 29} : /\ Script("fulltest", "start")[i].do = "read"
                         /\ Script("fulltest", "start")[i].ok = "226"
  BY ToolScripts, Parts

LEMMA NoLateFile ==
  \A i \in 30..50 : Script("fulltest", "start")[i].do \notin {"create", "fetch"}
  BY ToolScripts

\* A program that runs all tests has no other operation.
LEMMA OneOperation == ASSUME Base, prog = "fulltest", state = "running" PROVE op = "start"
<1>1. op \in {"start", "quit"}
  <2>1. op \in Operations(prog)
    BY DEF Base, TypeOK, ProgramOK
  <2> QED BY <2>1, Menus, Zenon DEF Operations
<1>2. Len(Script(prog, op)) >= 1
  <2>1. Fine(prog, op) /\ at \in 1..Len(Script(prog, op)) + 1 /\ at <= Len(Script(prog, op))
    BY Lengths DEF Base, TypeOK, ProgramOK
  <2> QED BY <2>1 DEF Fine
<1> QED BY <1>1, <1>2, NoTests

LEMMA PassedNext == ASSUME Base, Ftp, Passed, [Next]_vars PROVE Passed'
<1>1. CASE Choose
  <2>1. at' = 1 /\ prog' = prog
    BY <1>1 DEF Choose, Begin
  <2> QED BY <2>1 DEF Passed
<1>2. CASE ~Choose
  <2>1. /\ prog' = prog /\ op' = op /\ done \subseteq done' /\ faults \subseteq faults'
        /\ file = "whole" => file' = "whole" \/ Here("create")
        /\ at' = at \/ (state = "running" /\ Go)
    BY <1>2, Kept
  <2>2. Unopened => Unopened'
    BY <2>1 DEF Unopened
  <2>3. at \in Nat /\ (Go => at' = at + 1)
    BY DEF Base, TypeOK, ProgramOK, Go
  <2>4. ASSUME (prog = "toolkit" /\ op = "ftp" /\ at >= 21) \/ (prog = "fulltest" /\ at >= 30)
        PROVE  ~Here("create")
    <3>1. CASE prog = "toolkit" /\ op = "ftp" /\ at >= 21
      <4>1. state # "running"
        <5>1. Steps("toolkit", "ftp") = 20
          BY LongScripts
        <5> QED BY <3>1, <5>1, InScript
      <4> QED BY <4>1 DEF Here
    <3>2. CASE prog = "fulltest" /\ at >= 30 /\ state = "running"
      <4>1. op = "start"
        BY <3>2, OneOperation
      <4>2. Steps("fulltest", "start") = 50
        BY LongScripts
      <4>3. at \in 30..50
        BY <2>3, <3>2, <4>1, <4>2, InScript
      <4> QED BY <3>2, <4>1, <4>3, NoLateFile DEF Here
    <3> QED BY <2>4, <3>1, <3>2 DEF Here
  <2>5. CASE at' = at
    BY <2>1, <2>2, <2>4, <2>5 DEF Passed
  <2>6. ASSUME state = "running", Go,
               (prog = "toolkit" /\ op = "ftp" /\ at \in {13, 20}) \/ (prog = "fulltest" /\ at \in {22, 29})
        PROVE  /\ {Cmd, "226"} \subseteq done'
               /\ Cmd = "RETR" => file' = "whole" \/ Unopened'
               /\ at \in {13, 22} => Cmd = "LIST"
               /\ at \in {20, 29} => Cmd = "RETR"
    <3>1. AtFtp
      BY <2>6 DEF AtFtp, Base, AtHost, Joined, Host
    <3>2. Final
      <4>1. CASE prog = "toolkit" /\ op = "ftp" /\ at \in {13, 20}
        BY <2>6, <4>1, Finals DEF Final, Here, This
      <4>2. CASE prog = "fulltest" /\ at \in {22, 29}
        <5>1. op = "start"
          BY <2>6, <4>2, OneOperation
        <5> QED BY <2>6, <4>2, <5>1, Finals DEF Final, Here, This
      <4> QED BY <2>6, <4>1, <4>2
    <3>3. Next
      <4>1. at' # at
        BY <2>3, <2>6
      <4>2. ~UNCHANGED vars
        BY <4>1 DEF vars, client
      <4> QED BY <4>2
    <3>4. /\ {Cmd, "226"} \subseteq done /\ file' = file
          /\ Cmd = "RETR" => file = "whole" \/ Unopened
      BY <2>6, <3>1, <3>2, <3>3, FtpFinish
    <3>5. /\ at \in {13, 22} => Cmd = "LIST"
          /\ at \in {20, 29} => Cmd = "RETR"
      <4>1. prog = "fulltest" => op = "start"
        BY <2>6, OneOperation
      <4> QED BY <2>6, <4>1 DEF Cmd, Ordered
    <3> QED BY <2>1, <2>2, <3>4, <3>5
  <2>7. CASE state = "running" /\ Go
    <3>1. at' = at + 1
      BY <2>3, <2>7
    <3>2. (prog = "toolkit" /\ op = "ftp" /\ at' >= 14) \/ (prog = "fulltest" /\ at' >= 23)
            => "LIST" \in done'
      <4>1. CASE (prog = "toolkit" /\ op = "ftp" /\ at = 13) \/ (prog = "fulltest" /\ at = 22)
        BY <2>6, <2>7, <4>1
      <4>2. CASE (prog = "toolkit" /\ op = "ftp" /\ at >= 14) \/ (prog = "fulltest" /\ at >= 23)
        BY <2>1, <4>2 DEF Passed
      <4> QED BY <2>3, <3>1, <4>1, <4>2
    <3>3. (prog = "toolkit" /\ op = "ftp" /\ at' >= 21) \/ (prog = "fulltest" /\ at' >= 30)
            => {"RETR", "226"} \subseteq done' /\ (file' = "whole" \/ Unopened')
      <4>1. CASE (prog = "toolkit" /\ op = "ftp" /\ at = 20) \/ (prog = "fulltest" /\ at = 29)
        BY <2>6, <2>7, <4>1
      <4>2. CASE (prog = "toolkit" /\ op = "ftp" /\ at >= 21) \/ (prog = "fulltest" /\ at >= 30)
        BY <2>1, <2>2, <2>4, <4>2 DEF Passed
      <4> QED BY <2>3, <3>1, <4>1, <4>2
    <3> QED BY <2>1, <2>3, <3>1, <3>2, <3>3 DEF Passed
  <2> QED BY <2>1, <2>5, <2>7
<1> QED BY <1>1, <1>2

----------------------------------------------------------------------------
(* An FTP client that is in count. *)

\* Which program an operation belongs to.
LEMMA Owner ==
  ASSUME Base
  PROVE  /\ op \in {"get", "put", "delete"} => prog = "ftp"
         /\ op = "ftp" => prog = "toolkit"
  BY Menus DEF Base, TypeOK, ProgramOK, Operations

LEMMA SyncTurn ==
  ASSUME Base, AtFtp, state = "running", Go
  PROVE  \/ /\ This.do = "send" /\ state' = "running" /\ This'.do \in {"skip", "read", "enter"}
            /\ This'.do = "read" => This'.ok # "226"
         \/ /\ This.do \in {"enter", "skip"} \/ (This.do = "read" /\ ~Mark)
            /\ state' # "running" \/ This'.do \in {"send", "resolve"}
         \/ (Mark \/ Here("create")) /\ state' = "running" /\ This'.do \in {"create", "fetch", "upload"}
         \/ /\ This.do \in {"fetch", "upload"}
            /\ state' = "running" /\ This'.do = "read" /\ This'.ok = "226"
<1>1. /\ at \in Nat /\ at <= Steps(prog, op) /\ Steps(prog, op) \in Nat /\ FtpStep(prog, op, at)
  BY Placed
<1>2. /\ at = Steps(prog, op) => state' # "running"
      /\ at < Steps(prog, op) => state' = "running" /\ This' = Script(prog, op)[at + 1]
  BY Turned
<1>3. /\ Here("create") <=> This.do = "create"
      /\ Mark <=> This.do = "read" /\ This.ok = "150"
  BY DEF Here, This, Mark
<1>4. PICK s, t, c, d, n, m :
        /\ s = This /\ t = Script(prog, op)[at + 1] /\ c = Cmd /\ d = Ordered(prog, op, at + 1)
        /\ n = Steps(prog, op) /\ m = Script(prog, op)[at - 1]
  OBVIOUS
<1>5. StepOf(s, t, m, c, d, at, n, prog)
  <2>1. s = Script(prog, op)[at] /\ c = Ordered(prog, op, at)
    BY <1>4 DEF This, Cmd
  <2> QED BY <1>1, <1>4, <2>1 DEF FtpStep
<1>6. /\ at < n => state' = "running" /\ This' = t
      /\ at = n => state' # "running"
      /\ at < n \/ at = n
  BY <1>1, <1>2, <1>4
<1>7. CASE s.do = "send"
  <2>1. at < n /\ t.do \in {"skip", "read", "enter"} /\ (t.do = "read" => t.ok # "226")
    BY <1>5, <1>7 DEF StepOf
  <2> QED BY <1>4, <1>6, <1>7, <2>1
<1>8. CASE s.do = "enter" \/ s.do = "skip" \/ (s.do = "read" /\ s.ok # "150")
  <2>1. at = n \/ t.do \in {"send", "resolve"}
    BY <1>5, <1>8 DEF StepOf
  <2> QED BY <1>3, <1>4, <1>6, <1>8, <2>1
<1>9. CASE (s.do = "read" /\ s.ok = "150") \/ s.do = "create"
  <2>1. at < n /\ t.do \in {"create", "fetch", "upload"}
    BY <1>5, <1>9 DEF StepOf
  <2> QED BY <1>3, <1>4, <1>6, <1>9, <2>1
<1>10. CASE s.do \in {"fetch", "upload"}
  <2>1. at < n /\ t.do = "read" /\ t.ok = "226"
    BY <1>5, <1>10 DEF StepOf
  <2> QED BY <1>4, <1>6, <1>10, <2>1
<1>11. s.do \in {"send", "enter", "skip", "read", "create", "fetch", "upload"}
  BY <1>5 DEF StepOf
<1> QED BY <1>7, <1>8, <1>9, <1>10, <1>11

LEMMA Silent == ASSUME None PROVE \A x : x # "421" => ~Unread(x)
  BY DEF None, Goodbyes, Unread

\* Between two commands nothing is owed.
LEMMA Settled ==
  ASSUME None', state' # "running" \/ This'.do \in {"send", "resolve"}
  PROVE  InStep'
<1>1. ~Unread("250")'
  BY DEF None, Goodbyes, Unread
<1>2. ~Mark' /\ ~Moving' /\ ~Final' /\ ~Here("enter")' /\ ~Here("skip")' /\ ~Here("read")'
  BY DEF Mark, Moving, Final, Here, This
<1> QED BY <1>1, <1>2 DEF InStep

LEMMA Whole ==
  ASSUME Base, peer = "ftp", peer' = "ftp", NEW n, Taking(n), InCount'
  PROVE  /\ n \in 1..Len(inbox) /\ Len(inbox) \in Nat
         /\ inbox[n].part # "head" /\ \A k \in 2..n : inbox[k].part = "rest"
<1>1. n \in 1..Len(inbox) /\ Len(inbox) \in Nat /\ Amiss(n) \subseteq faults'
  BY DEF Taking, Base, TypeOK, NetworkOK
<1>2. "cut" \notin Amiss(n) /\ "merged" \notin Amiss(n)
  BY <1>1 DEF InCount, Excuses
<1>3. inbox[n].part # "head"
  BY <1>2 DEF Amiss
<1>4. \A k \in 2..n : inbox[k].part = "rest"
  BY <1>2 DEF Amiss
<1> QED BY <1>1, <1>3, <1>4

LEMMA ReadsBlock ==
  ASSUME Base, peer = "ftp", peer' = "ftp", NEW n, Taking(n), InCount',
         NEW m \in 1..Len(inbox), FtpBlock(1, m), m < Len(inbox) => inbox[m + 1].part # "rest"
  PROVE  n = m
<1>1. /\ n \in 1..Len(inbox) /\ Len(inbox) \in Nat
      /\ inbox[n].part # "head" /\ \A k \in 2..n : inbox[k].part = "rest"
  BY Whole
<1>2. CASE m = 1 /\ inbox[1].part = "all"
  <2>1. ASSUME n > 1 PROVE FALSE
    <3>1. 2 \in 2..n /\ 2 <= Len(inbox)
      BY <1>1, <2>1
    <3> QED BY <1>1, <1>2, <3>1
  <2> QED BY <1>1, <1>2, <2>1
<1>3. CASE m = 2 /\ inbox[1].part = "head" /\ inbox[2].part = "rest"
  <2>1. n # 1
    BY <1>1, <1>3
  <2>2. ASSUME n > 2 PROVE FALSE
    <3>1. 3 \in 2..n /\ 3 <= Len(inbox)
      BY <1>1, <2>2
    <3> QED BY <1>1, <1>3, <3>1
  <2> QED BY <1>1, <1>3, <2>1, <2>2
<1> QED BY <1>2, <1>3 DEF Block, FtpBlock

LEMMA OneRead ==
  ASSUME Base, peer = "ftp", peer' = "ftp", NEW n, Taking(n), InCount', One, UNCHANGED <<sent, mode>>
  PROVE  None'
<1>1. n \in 1..Len(inbox) /\ Len(inbox) \in Nat /\ Len(inbox') = Len(inbox) - n
      /\ \A i \in 1..Len(inbox) - n : inbox'[i] = inbox[i + n]
  BY DEF Taking, Base, TypeOK, NetworkOK
<1>2. inbox # <<>>
  <2>1. Len(<<>>) = 0
    OBVIOUS
  <2> QED BY <1>1, <2>1
<1>3. sent = <<>> /\ Idle
  BY <1>2 DEF One, Dead
<1>4. PICK m \in 1..Len(inbox) : FtpBlock(1, m) /\ Goodbyes(m + 1)
  BY <1>2 DEF One, Dead
<1>5. n = m
  <2>1. m < Len(inbox) => inbox[m + 1].part # "rest"
    BY <1>1, <1>4 DEF Goodbyes
  <2> QED BY <1>4, <2>1, ReadsBlock
<1>6. Goodbyes(1)'
  BY <1>1, <1>4, <1>5 DEF Goodbyes
<1> QED BY <1>3, <1>6 DEF None, Idle

LEMMA TwoRead ==
  ASSUME Base, peer = "ftp", peer' = "ftp", NEW n, Taking(n), InCount', Two, UNCHANGED <<sent, mode>>
  PROVE  One' \/ InCourse'
<1>1. n \in 1..Len(inbox) /\ Len(inbox) \in Nat /\ Len(inbox') = Len(inbox) - n
      /\ \A i \in 1..Len(inbox) - n : inbox'[i] = inbox[i + n]
      /\ inbox' \in Seq(Pieces)
  BY DEF Taking, Base, TypeOK, NetworkOK
<1>2. PICK b \in 1..Len(inbox) :
        /\ FtpBlock(1, b)
        /\ \/ ~Idle /\ b = Len(inbox)
           \/ Idle /\ \E m \in b+1..Len(inbox) : FtpBlock(b + 1, m) /\ Goodbyes(m + 1)
  BY DEF Two
<1>3. n = b
  <2>1. b < Len(inbox) => inbox[b + 1].part # "rest"
    BY <1>1, <1>2 DEF Block, FtpBlock
  <2> QED BY <1>2, <2>1, ReadsBlock
<1>4. sent' = <<>> /\ Idle' = Idle
  BY DEF Two, Idle
<1>5. CASE ~Idle /\ b = Len(inbox)
  <2>1. inbox' = <<>>
    BY <1>1, <1>3, <1>5
  <2> QED BY <1>4, <1>5, <2>1 DEF InCourse
<1>6. ASSUME Idle, NEW m \in b+1..Len(inbox), FtpBlock(b + 1, m), Goodbyes(m + 1) PROVE One'
  <2>1. m - b \in 1..Len(inbox')
    BY <1>1, <1>3
  <2>2. FtpBlock(1, m - b)'
    BY <1>1, <1>3, <1>6 DEF Block, FtpBlock
  <2>3. Goodbyes(m - b + 1)'
    <3>1. ASSUME NEW i \in m-b+1..Len(inbox')
          PROVE  inbox'[i].code = "421" /\ inbox'[i].part = "all"
      <4>1. i \in 1..Len(inbox) - n /\ i + n \in m+1..Len(inbox)
        BY <1>1, <1>3
      <4> QED BY <1>1, <1>6, <4>1 DEF Goodbyes
    <3> QED BY <3>1 DEF Goodbyes
  <2> QED BY <1>4, <1>6, <2>1, <2>2, <2>3 DEF One
<1> QED BY <1>2, <1>5, <1>6

LEMMA DeleteSteps ==
  /\ Steps("ftp", "delete") = 2 /\ Script("ftp", "delete")[1].do = "send"
  /\ Script("ftp", "delete")[1].what = "DELE"
  /\ Script("ftp", "delete")[2].do = "read" /\ Script("ftp", "delete")[2].ok = "250"
  BY FtpScripts, LongScripts, Parts

LEMMA FtpBegins == ASSUME Choose, prog = "ftp", state' = "running" PROVE This'.do = "send"
<1>1. PICK o \in DOMAIN Menu[prog] :
        Begin(o) /\ state' = IF o = "quit" /\ Menu[prog][o] = <<>> THEN "over" ELSE "running"
  BY DEF Choose
<1>2. o \in {"list", "get", "put", "delete", "cd"}
  <2>1. Menu["ftp"]["quit"] = <<>>
    BY DEF Menu, FtpMenu
  <2> QED BY <1>1, <2>1, Menus
<1>3. This' = Script("ftp", o)[1]
  BY <1>1 DEF Choose, Begin, This
<1> QED BY <1>2, <1>3, FtpOffers

LEMMA SyncChoose ==
  ASSUME Base, Choose, prog = "ftp", InStep
  PROVE  InStep'
<1>1. PICK o \in DOMAIN Menu[prog] :
        Begin(o) /\ state' = IF o = "quit" /\ Menu[prog][o] = <<>> THEN "over" ELSE "running"
  BY DEF Choose
<1>2. /\ state = "menu" /\ sent' = Old(sent) /\ inbox' = Old(inbox) /\ UNCHANGED <<prog, mode>>
      /\ op' = o /\ at' = 1
  BY <1>1 DEF Choose, Begin
<1>3. None
  BY <1>2 DEF InStep
<1>4. /\ Len(inbox') = Len(inbox) /\ sent' = <<>>
      /\ \A i \in 1..Len(inbox) : inbox'[i].code = inbox[i].code /\ inbox'[i].part = inbox[i].part
  <2>1. Len(Old(sent)) = 0 /\ Old(sent) \in Seq(Commands)
    <3>1. sent = <<>> /\ sent \in Seq(Commands)
      BY <1>3 DEF None, Base, TypeOK, NetworkOK
    <3>2. Len(<<>>) = 0
      OBVIOUS
    <3> QED BY <3>1, <3>2, OldCommands
  <2>2. sent' = <<>>
    <3>1. sent' \in Seq(Commands) /\ Len(sent') = 0
      BY <1>2, <2>1
    <3> QED BY <3>1
  <2>3. inbox \in Seq(Pieces)
    BY DEF Base, TypeOK, NetworkOK
  <2> QED BY <1>2, <2>2, <2>3, OldPieces
<1>5. None'
  BY <1>2, <1>3, <1>4 DEF None, Idle, Goodbyes
<1>6. state' # "running" \/ This'.do = "send"
  BY FtpBegins
<1> QED BY <1>5, <1>6, Settled

LEMMA SyncSend ==
  ASSUME Base, AtFtp, FtpInv, SendOn, InStep
  PROVE  InStep'
<1>1. /\ state = "running" /\ This.do = "send" /\ peer = "ftp"
      /\ UNCHANGED <<prog, op, peer, mode, data, done, file, faults>>
  BY Sent DEF AtFtp
<1>2. None
  BY <1>1 DEF InStep, Here, This
<1>3. CASE conn = "broken" /\ state' = "killed" /\ UNCHANGED <<at, result, conn, sent, inbox>>
  <2>1. None'
    BY <1>1, <1>2, <1>3 DEF None, Idle, Goodbyes
  <2> QED BY <1>3, <2>1, Settled
<1>4. CASE Go /\ Aged /\ conn' \in {"open", "broken"}
           /\ \/ conn \in {"ended", "broken"} /\ conn' = "broken" /\ sent' = sent
              \/ /\ conn = "open" /\ conn' = "open"
                 /\ Len(sent') = Len(sent) + 1
                 /\ \A k \in 1..Len(sent) : sent'[k].cmd = sent[k].cmd /\ sent'[k].own = FALSE
                 /\ sent'[Len(sent) + 1] = [cmd |-> This.what, own |-> TRUE]
  <2>1. /\ \A x : Unread(x)' <=> Unread(x)
    BY <1>1, <1>4, AgedFtp
  <2>2. Len(sent) \in Nat /\ Len(inbox) \in Nat /\ inbox' \in Seq(Pieces) /\ sent' \in Seq(Commands)
    BY BaseSend DEF Base, TypeOK, NetworkOK
  <2>3. Goodbyes(1)'
    BY <1>2, <1>4 DEF None, Goodbyes, Aged
  <2>4. Idle' /\ sent = <<>>
    BY <1>1, <1>2 DEF None, Idle
  <2>5. One'
    <3>1. CASE conn' = "open"
      <4>1. ~Unread("421")
        BY <1>4, <3>1 DEF FtpInv, FtpServer
      <4>2. Len(inbox') = 0
        BY <1>2, <1>4, <2>2, <4>1 DEF None, Goodbyes, Unread, Aged
      <4>3. Len(sent') = 1
        <5>1. Len(<<>>) = 0
          OBVIOUS
        <5>2. Len(sent') = Len(sent) + 1
          BY <1>4, <3>1
        <5> QED BY <2>4, <5>1, <5>2
      <4> QED BY <2>2, <2>4, <4>2, <4>3 DEF One
    <3>2. CASE conn' = "broken" /\ inbox' = <<>>
      BY <1>4, <2>4, <3>2 DEF One, Dead
    <3>3. CASE conn' = "broken" /\ inbox' # <<>>
      <4>1. 1 \in 1..Len(inbox')
        BY <2>2, <3>3
      <4>2. FtpBlock(1, 1)' /\ Goodbyes(1 + 1)'
        BY <2>3, <4>1, Blank DEF Block, FtpBlock, Goodbyes
      <4>3. sent' = <<>>
        BY <1>4, <2>4, <3>3
      <4> QED BY <2>4, <4>1, <4>2, <4>3 DEF One
    <3> QED BY <1>4, <3>1, <3>2, <3>3
  <2>6. ~Unread("150")' /\ ~Unread("250")'
    BY <2>3 DEF Goodbyes, Unread
  <2>7. state' = "running" /\ This'.do \in {"skip", "read", "enter"} /\ (This'.do = "read" => This'.ok # "226")
    <3>1. ~Mark /\ ~Here("create")
      BY <1>1 DEF Mark, Here, This
    <3> QED BY <1>1, <1>4, <3>1, SyncTurn
  <2>8. ~Here("send")' /\ ~Moving' /\ ~Final'
    BY <2>7 DEF Here, This, Moving, Final
  <2> QED BY <2>5, <2>6, <2>7, <2>8 DEF InStep
<1> QED BY <1>3, <1>4, Sent

LEMMA SyncRead ==
  ASSUME Base, AtFtp, FtpInv, ReadReply, InStep, InCount'
  PROVE  InStep'
<1>1. /\ state = "running" /\ This.do \in {"read", "skip"} /\ peer = "ftp" /\ peer' = "ftp"
      /\ UNCHANGED <<prog, op, peer, conn, sent, mode, data, done, file>>
  BY Heard DEF AtFtp
<1>2. Fail => state' # "running"
  BY DEF Fail, Returns
<1>3. Go => \/ ~Mark /\ (state' # "running" \/ This'.do \in {"send", "resolve"})
            \/ Mark /\ state' = "running" /\ This'.do \in {"create", "fetch", "upload"}
  <2>1. ~Here("create")
    BY <1>1 DEF Here, This
  <2>2. ASSUME Go, Mark
        PROVE  state' = "running" /\ This'.do \in {"create", "fetch", "upload"}
    <3>1. This.do = "read"
      BY <2>2 DEF Mark, Here, This
    <3> QED BY <1>1, <2>1, <2>2, <3>1, SyncTurn
  <2>3. ASSUME Go, ~Mark
        PROVE  state' # "running" \/ This'.do \in {"send", "resolve"}
    BY <1>1, <2>1, <2>3, SyncTurn
  <2> QED BY <2>2, <2>3
<1>4. None' => (Fail \/ (Go /\ ~Mark) => InStep')
  BY <1>2, <1>3, Settled
<1>5. Mark /\ Go /\ (One' \/ InCourse') => InStep'
  <2>1. ASSUME Mark, Go, One' \/ InCourse' PROVE InStep'
    <3>1. ~Mark' /\ ~Final' /\ ~Here("send")' /\ ~Here("enter")' /\ ~Here("skip")' /\ ~Here("read")'
          /\ state' = "running"
      BY <1>3, <2>1 DEF Mark, Final, Here, This
    <3>2. ~(op' = "delete" /\ at' = 2)
      <4>1. op = "delete" /\ at = 1 => FALSE
        BY <1>1, <2>1, Owner, DeleteSteps DEF Mark, Here, This
      <4> QED BY <1>1, <2>1, <4>1 DEF Go, Base, TypeOK, ProgramOK
    <3> QED BY <2>1, <3>1, <3>2 DEF InStep
  <2> QED BY <2>1
<1>6. CASE AtEnd /\ inbox' = inbox
  <2>1. Dead /\ sent = <<>> /\ Idle
    BY <1>1, <1>6, NothingLeft DEF FtpInv, Idle
  <2>2. Dead' /\ sent' = <<>> /\ Idle' /\ inbox' = <<>>
    BY <1>1, <1>6, <2>1 DEF Dead, Idle
  <2>3. Len(<<>>) = 0
    OBVIOUS
  <2>4. None' /\ One'
    BY <2>2, <2>3 DEF None, One, Goodbyes
  <2>5. inbox = <<>>
    BY <2>1 DEF Dead
  <2>6. Go \/ Fail
    BY Heard DEF NotSet
  <2> QED BY <1>4, <1>5, <2>4, <2>6
<1>7. ASSUME NEW n, Taking(n), Go \/ (This.do = "read" /\ Fail /\ inbox[1].code # This.ok),
             This.do = "read" /\ Go => inbox[1].code = This.ok
      PROVE  InStep'
  <2>1. One => None'
    BY <1>1, <1>7, OneRead
  <2>2. Two => One' \/ InCourse'
    BY <1>1, <1>7, TwoRead
  <2>3. inbox # <<>> /\ 1 \in 1..Len(inbox)
    <3>1. Len(<<>>) = 0
      OBVIOUS
    <3>2. n \in 1..Len(inbox) /\ Len(inbox) \in Nat
      BY <1>7 DEF Taking, Base, TypeOK, NetworkOK
    <3> QED BY <3>1, <3>2
  <2>4. CASE Mark
    <3>1. This.do = "read" /\ This.ok = "150"
      BY <2>4 DEF Mark, Here, This
    <3>2. CASE One /\ ~Unread("150")
      <4>1. Fail
        BY <1>7, <2>3, <3>1, <3>2 DEF Unread
      <4> QED BY <1>4, <2>1, <3>2, <4>1
    <3>3. CASE Two
      <4>1. Go
        BY <1>7, <3>1, <3>3 DEF Two
      <4> QED BY <1>5, <2>2, <2>4, <3>3, <4>1
    <3> QED BY <2>4, <3>2, <3>3 DEF InStep
  <2>5. CASE ~Mark
    <3>1. One
      <4>1. Final => One \/ InCourse
        BY DEF InStep
      <4>2. ~Final => One
        BY <1>1, <2>5 DEF InStep, Here, This
      <4> QED BY <2>3, <4>1, <4>2 DEF InCourse
    <3> QED BY <1>4, <1>7, <2>1, <2>5, <3>1
  <2> QED BY <2>4, <2>5
<1>8. ASSUME NEW n, Taking(n), NotSet PROVE FALSE
  <2>1. inbox # <<>>
    <3>1. Len(<<>>) = 0
      OBVIOUS
    <3>2. n \in 1..Len(inbox) /\ Len(inbox) \in Nat
      BY <1>8 DEF Taking, Base, TypeOK, NetworkOK
    <3> QED BY <3>1, <3>2
  <2>2. ~One /\ ~Two /\ ~InCourse
    BY <1>8, <2>1 DEF NotSet, One, Two, InCourse, Block, FtpBlock, Dead
  <2>3. Mark \/ Final \/ (Here("read") /\ ~Mark /\ ~Final)
    BY <1>1, <1>8 DEF NotSet, Here, This
  <2> QED BY <2>2, <2>3 DEF InStep
<1> QED BY <1>6, <1>7, <1>8, Heard

LEMMA SyncEnter ==
  ASSUME Base, AtFtp, FtpInv, EnterPassive, InStep, InCount'
  PROVE  InStep'
<1>1. /\ state = "running" /\ This.do = "enter" /\ Here("enter") /\ peer = "ftp" /\ peer' = "ftp"
      /\ UNCHANGED <<peer, conn, sent, mode, done, file>> /\ (Go \/ Fail)
  BY DEF AtFtp, EnterPassive, Here, This
<1>2. One
  BY <1>1 DEF InStep
<1>3. state' # "running" \/ This'.do \in {"send", "resolve"}
  <2>1. ~Mark /\ ~Here("create")
    BY <1>1 DEF Mark, Here, This
  <2>2. Fail => state' # "running"
    BY DEF Fail, Returns
  <2> QED BY <1>1, <2>1, <2>2, SyncTurn
<1>4. CASE AtEnd /\ UNCHANGED inbox
  <2>1. Dead /\ sent = <<>> /\ Idle
    BY <1>1, <1>4, NothingLeft DEF FtpInv, Idle
  <2>2. sent' = <<>> /\ Idle' /\ inbox' = <<>>
    BY <1>1, <1>4, <2>1 DEF Dead, Idle
  <2>3. Len(<<>>) = 0
    OBVIOUS
  <2>4. None'
    BY <2>2, <2>3 DEF None, Goodbyes
  <2> QED BY <1>3, <2>4, Settled
<1>5. ASSUME NEW n \in Readable, inbox' = SubSeq(inbox, n + 1, Len(inbox)), faults' = faults \cup Amiss(n)
      PROVE  InStep'
  <2>1. Taking(n)
    BY <1>5, Remains DEF Taking, Base, TypeOK, NetworkOK
  <2>2. None'
    BY <1>1, <1>2, <2>1, OneRead
  <2> QED BY <1>3, <2>2, Settled
<1> QED BY <1>4, <1>5 DEF EnterPassive

LEMMA SyncLocal ==
  ASSUME Base, AtFtp, FtpInv, CreateFile \/ FetchData \/ UploadNothing, InStep, InCount'
  PROVE  InStep'
<1>1. /\ state = "running" /\ This.do \in {"create", "fetch", "upload"} /\ peer = "ftp"
      /\ UNCHANGED <<peer, conn, sent, inbox, mode, done>>
  BY DEF AtFtp, CreateFile, FetchData, UploadNothing, Here, This, server
<1>2. ~("open" \in faults')
  BY <1>1 DEF InCount, Excuses
<1>3. Go
  BY <1>2 DEF CreateFile, FetchData, UploadNothing
<1>4. One \/ InCourse
  BY <1>1 DEF InStep, Moving, Here, This
<1>5. One' \/ InCourse'
  BY <1>1, <1>4 DEF One, InCourse, Idle, Block, FtpBlock, Goodbyes, Dead
<1>6. /\ state' = "running"
      /\ \/ This'.do \in {"create", "fetch", "upload"}
         \/ This'.do = "read" /\ This'.ok = "226"
  <2>1. ~Mark
    BY <1>1 DEF Mark, Here, This
  <2> QED BY <1>1, <1>3, <2>1, SyncTurn
<1>7. /\ ~Here("send")' /\ ~Here("enter")' /\ ~Here("skip")' /\ ~Mark' /\ (Here("read")' => Final')
      /\ state' # "menu"
  BY <1>6 DEF Mark, Final, Here, This
<1>8. ~(op' = "delete" /\ at' = 2)
  <2>1. op = "delete" /\ at = 1 => FALSE
    BY <1>1, Owner, DeleteSteps DEF This
  <2> QED BY <1>3, <2>1 DEF Go, Base, TypeOK, ProgramOK
<1> QED BY <1>5, <1>7, <1>8 DEF InStep

LEMMA Arrived ==
  ASSUME Base, NEW own, NEW code, code # NoCode, Grown(own, code), NEW a, a = Len(inbox)
  PROVE  /\ a \in Nat /\ \A i \in 1..a : inbox'[i] = inbox[i]
         /\ inbox'[a + 1].code = code
         /\ \E n \in a+1..Len(inbox') : n = Len(inbox') /\ FtpBlock(a + 1, n)' /\ Goodbyes(n + 1)'
<1>1. a \in Nat
  BY DEF Base, TypeOK, NetworkOK
<1>2. PICK n : n = Len(inbox')
  OBVIOUS
<1>3. /\ \A i \in 1..a : inbox'[i] = inbox[i]
      /\ \/ n = a + 1 /\ inbox'[a + 1].part = "all" /\ inbox'[a + 1].code = code
         \/ /\ n = a + 2 /\ inbox'[a + 1].part = "head" /\ inbox'[a + 2].part = "rest"
            /\ inbox'[a + 1].code = code
  BY <1>2 DEF Grown, OnePart, TwoParts
<1>4. FtpBlock(a + 1, n)'
  BY <1>1, <1>2, <1>3 DEF Block, FtpBlock
<1>5. Goodbyes(n + 1)'
  BY <1>1, <1>2, <1>3 DEF Goodbyes
<1>6. n \in a+1..Len(inbox')
  BY <1>1, <1>2, <1>3
<1> QED BY <1>1, <1>2, <1>3, <1>4, <1>5, <1>6

LEMMA SyncAnswer ==
  ASSUME Base, AtFtp, FtpInv, Answer, InStep
  PROVE  InStep'
<1>1. PICK c, own : c = sent[1].cmd /\ own = sent[1].own
  OBVIOUS
<1>2. /\ Len(sent) \in Nat \ {0} /\ Len(sent') = Len(sent) - 1
      /\ c \in Understood("ftp") /\ own \in BOOLEAN /\ peer = "ftp"
      /\ conn = "open" /\ mode \notin Transfers /\ UNCHANGED <<client, peer, file, faults>>
  BY <1>1, Served DEF AtFtp
<1>3. /\ done \subseteq done'
      /\ \/ /\ Grown(own, Good["ftp"][c])
            /\ \/ c \in Transfers /\ data = "up" /\ mode' = c /\ data' = "moving"
               \/ c \notin Transfers /\ mode' = mode /\ data' = IF c = "PASV" THEN "asked" ELSE data
            /\ own /\ c \in Transfers \cup {"DELE"} => c \in done'
         \/ Grown(own, "err") /\ data' = data /\ mode' \notin Transfers
  BY <1>1, <1>2, FtpServed
<1>4. PICK code : /\ Grown(own, code) /\ code # "421" /\ code # NoCode
                  /\ \/ code = "150" /\ c \in Transfers /\ data = "up" /\ mode' \in Transfers
                     \/ code # "150" /\ mode' \notin Transfers
                  /\ code = "250" => c \in {"DELE", "CWD"} /\ (own /\ c = "DELE" => c \in done')
  <2>1. CASE Grown(own, "err") /\ mode' \notin Transfers
    BY <2>1, Blank
  <2>2. ASSUME Grown(own, Good["ftp"][c]), own /\ c = "DELE" => c \in done',
               \/ c \in Transfers /\ data = "up" /\ mode' = c
               \/ c \notin Transfers /\ mode' = mode
        PROVE  /\ Grown(own, Good["ftp"][c])
               /\ Good["ftp"][c] # "421" /\ Good["ftp"][c] # NoCode
               /\ \/ Good["ftp"][c] = "150" /\ c \in Transfers /\ data = "up" /\ mode' \in Transfers
                  \/ Good["ftp"][c] # "150" /\ mode' \notin Transfers
               /\ Good["ftp"][c] = "250" => c \in {"DELE", "CWD"} /\ (own /\ c = "DELE" => c \in done')
    BY <1>2, <2>2, FtpCodes
  <2>3. own /\ c = "DELE" => c \in Transfers \cup {"DELE"}
    OBVIOUS
  <2> QED BY <1>3, <2>1, <2>2, <2>3
<1>5. /\ This' = This /\ Order' = Order /\ Mark' = Mark /\ Moving' = Moving /\ Final' = Final
      /\ (\A do : Here(do)' = Here(do)) /\ state' = state /\ at' = at
  BY <1>2, Here0
<1>6. op' = op
  BY <1>2 DEF client
<1>7. sent # <<>>
  <2>1. Len(<<>>) = 0
    OBVIOUS
  <2> QED BY <1>2, <2>1
<1>8. ~None /\ ~Two /\ ~InCourse
  BY <1>7 DEF None, Two, InCourse
<1>9. ASSUME One
      PROVE  /\ sent' = <<>> /\ inbox'[1].code = code /\ \E n : n = 1 /\ n = Len(sent)
             /\ \A i \in 1..Len(inbox') : inbox'[i].code \in {code, NoCode}
             /\ \E n \in 1..Len(inbox') : n = Len(inbox') /\ FtpBlock(1, n)' /\ Goodbyes(n + 1)'
  <2>1. inbox = <<>> /\ Len(sent) = 1
    BY <1>7, <1>9 DEF One, Dead
  <2>2. sent' = <<>>
    <3>1. PICK n : n = Len(sent) /\ n = 1 /\ Len(sent') = n - 1
      BY <1>2, <2>1
    <3>2. sent' \in Seq(Commands) /\ Len(sent') = 0
      BY <3>1, BaseAnswer DEF Base, TypeOK, NetworkOK
    <3> QED BY <3>2
  <2>3. PICK a : a = Len(inbox) /\ a = 0
    BY <2>1
  <2>4. /\ inbox'[1].code = code
        /\ \E n \in 1..Len(inbox') : n = Len(inbox') /\ FtpBlock(1, n)' /\ Goodbyes(n + 1)'
    <3>1. a + 1 = 1
      BY <2>3
    <3>2. /\ inbox'[a + 1].code = code
          /\ \E n \in a+1..Len(inbox') : n = Len(inbox') /\ FtpBlock(a + 1, n)' /\ Goodbyes(n + 1)'
      BY <1>4, <2>3, Arrived
    <3> QED BY <3>1, <3>2
  <2>5. \A i \in 1..Len(inbox') : inbox'[i].code \in {code, NoCode}
    <3>1. \A i \in 1..Len(inbox') : \/ i \in 1..a /\ inbox'[i] = inbox[i]
                                    \/ inbox'[i].code \in {code, NoCode}
      BY <1>4, <2>3, GrownFacts
    <3> QED BY <2>3, <3>1
  <2> QED BY <2>1, <2>2, <2>4, <2>5
<1>10. ASSUME One, code # "150" PROVE One' /\ ~Unread("150")'
  <2>1. PICK n \in 1..Len(inbox') : FtpBlock(1, n)' /\ Goodbyes(n + 1)'
    BY <1>9, <1>10
  <2>2. sent' = <<>> /\ Idle'
    BY <1>4, <1>9, <1>10 DEF Idle
  <2>3. One'
    BY <2>1, <2>2 DEF One
  <2>4. ~Unread("150")'
    BY <1>9, <1>10, Blank DEF Unread
  <2> QED BY <2>3, <2>4
<1>11. ASSUME One, code = "150" PROVE Mark /\ Two'
  <2>1. 1 \in 1..Len(sent) /\ sent[1].cmd \in Transfers /\ data = "up"
    BY <1>1, <1>2, <1>4, <1>11
  <2>2. Mark
    BY <2>1 DEF FtpInv, Ports
  <2>3. PICK n \in 1..Len(inbox') : n = Len(inbox') /\ FtpBlock(1, n)'
    BY <1>9, <1>11
  <2>4. sent' = <<>> /\ ~Idle' /\ inbox'[1].code = "150"
    BY <1>4, <1>9, <1>11 DEF Idle
  <2>5. Two'
    BY <2>3, <2>4 DEF Two
  <2> QED BY <2>2, <2>5
<1>12. ASSUME op = "delete", at = 2, state = "running", Unread("250")' PROVE "DELE" \in done'
  <2>1. This.do = "read" /\ This.ok = "250"
    BY <1>12, Owner, DeleteSteps DEF This
  <2>2. Here("read") /\ ~Mark /\ ~Final
    BY <1>12, <2>1 DEF Here, This, Mark, Final
  <2>3. One
    BY <2>2 DEF InStep
  <2>4. code = "250"
    BY <1>9, <1>12, <2>3, Blank DEF Unread
  <2>5. Script(prog, op)[at - 1] = Script("ftp", "delete")[1]
    <3>1. PICK i : i = at - 1 /\ i = 1
      BY <1>12
    <3> QED BY <1>12, <3>1, Owner
  <2>6. PICK n : n = 1 /\ n = Len(sent)
    BY <1>9, <2>3
  <2>7. sent[n] = [cmd |-> "DELE", own |-> TRUE]
    <3>1. at > 1
      BY <1>12
    <3>2. LastSent
      BY DEF FtpInv
    <3>3. sent[Len(sent)] = [cmd |-> Script("ftp", "delete")[1].what, own |-> TRUE]
      BY <1>7, <1>12, <2>5, <3>1, <3>2, DeleteSteps DEF LastSent
    <3> QED BY <2>6, <3>3, DeleteSteps
  <2>8. c = "DELE" /\ own
    BY <1>1, <2>6, <2>7
  <2> QED BY <1>4, <2>4, <2>8
<1>13. /\ state' # "menu" /\ ~Here("send")'
  BY <1>5, <1>8 DEF InStep
<1>14. Mark' => (One' /\ ~Unread("150")') \/ Two'
  BY <1>5, <1>8, <1>10, <1>11 DEF InStep
<1>15. Moving' \/ Final' => One'
  <2>1. Moving \/ Final => One /\ ~Mark
    BY <1>8 DEF InStep, Moving, Final, Mark, Here
  <2> QED BY <1>5, <1>10, <1>11, <2>1
<1>16. Here("enter")' \/ Here("skip")' \/ (Here("read")' /\ ~Mark' /\ ~Final') => One'
  <2>1. Here("enter") \/ Here("skip") \/ (Here("read") /\ ~Mark /\ ~Final) => One /\ ~Mark
    BY DEF InStep, Mark, Here
  <2> QED BY <1>5, <1>10, <1>11, <2>1
<1> QED BY <1>5, <1>6, <1>12, <1>13, <1>14, <1>15, <1>16 DEF InStep

LEMMA SyncEnd ==
  ASSUME Base, AtFtp, FtpInv, EndTransfer, InStep
  PROVE  InStep'
<1> DEFINE own == mode \in done /\ sent = <<>>
<1>1. PICK code \in {"226", "426"} : Reply(own, code)
  BY Zenon DEF EndTransfer
<1>2. /\ UNCHANGED <<client, peer, conn, sent, file, faults>> /\ Idle' /\ ~Idle /\ peer = "ftp"
  BY DEF EndTransfer, Transfers, Idle, AtFtp
<1>3. Grown(own, code)
  <2>1. code \in Codes /\ own \in BOOLEAN
    BY FtpCodes, <1>1 DEF Codes
  <2> QED BY <1>1, <1>2, <2>1, GrownFtp
<1> HIDE DEF own
<1>4. PICK a : a = Len(inbox)
  OBVIOUS
<1>5. /\ a \in Nat /\ \A i \in 1..a : inbox'[i] = inbox[i]
      /\ \E n \in a+1..Len(inbox') : n = Len(inbox') /\ FtpBlock(a + 1, n)' /\ Goodbyes(n + 1)'
  BY <1>1, <1>3, <1>4, Arrived, Blank
<1>6. /\ This' = This /\ Order' = Order /\ Mark' = Mark /\ Moving' = Moving /\ Final' = Final
      /\ (\A do : Here(do)' = Here(do)) /\ state' = state /\ at' = at
  BY <1>2, Here0
<1>7. ~None /\ ~One
  BY <1>2 DEF None, One
<1>8. ASSUME Two PROVE Two'
  <2>1. PICK b \in 1..a : FtpBlock(1, b) /\ inbox[1].code = "150" /\ b = a /\ sent = <<>>
    BY <1>2, <1>4, <1>8 DEF Two
  <2>2. PICK m \in a+1..Len(inbox') : FtpBlock(a + 1, m)' /\ Goodbyes(m + 1)'
    BY <1>5
  <2>3. a \in 1..Len(inbox') /\ Len(inbox') \in Nat /\ 1 \in 1..a
    BY <1>5, <2>1
  <2>4. FtpBlock(1, a)'
    BY <1>4, <1>5, <2>1, <2>3 DEF Block, FtpBlock
  <2>5. inbox'[1].code = "150" /\ sent' = <<>>
    BY <1>2, <1>5, <2>1, <2>3
  <2> QED BY <1>2, <2>2, <2>3, <2>4, <2>5 DEF Two
<1>9. ASSUME InCourse PROVE One'
  <2>1. a = 0
    <3>1. Len(<<>>) = 0
      OBVIOUS
    <3> QED BY <1>4, <1>9, <3>1 DEF InCourse
  <2>2. a + 1 = 1
    BY <2>1
  <2>3. PICK n \in 1..Len(inbox') : FtpBlock(1, n)' /\ Goodbyes(n + 1)'
    BY <1>5, <2>2
  <2>4. sent' = <<>>
    BY <1>2, <1>9 DEF InCourse
  <2> QED BY <1>2, <2>3, <2>4 DEF One
<1>10. Mark' => Two'
  BY <1>6, <1>7, <1>8 DEF InStep
<1>11. Moving' \/ Final' => One'
  BY <1>6, <1>7, <1>9 DEF InStep
<1>12. /\ ~(state' = "menu" \/ Here("send")')
       /\ ~(Here("enter")' \/ Here("skip")' \/ (Here("read")' /\ ~Mark' /\ ~Final'))
  BY <1>6, <1>7 DEF InStep
<1>13. ~(op' = "delete" /\ at' = 2 /\ state' = "running")
  <2>1. ASSUME op = "delete", at = 2, state = "running" PROVE FALSE
    <3>1. This.do = "read" /\ This.ok = "250"
      BY <2>1, Owner, DeleteSteps DEF This
    <3>2. Here("read") /\ ~Mark /\ ~Final
      BY <2>1, <3>1 DEF Here, This, Mark, Final
    <3> QED BY <1>7, <3>2 DEF InStep
  <2> QED BY <1>2, <2>1 DEF client
<1> QED BY <1>10, <1>11, <1>12, <1>13 DEF InStep

LEMMA SyncClose ==
  ASSUME Base, AtFtp, FtpInv, CloseIdle, InStep
  PROVE  InStep'
<1>1. /\ conn = "open" /\ conn' = "ended" /\ sent = <<>> /\ Idle /\ Idle' /\ sent' = <<>>
      /\ UNCHANGED <<client, done>>
  BY Closed DEF Idle
<1>2. PICK a, b : a = Len(inbox) /\ b = Len(inbox')
  OBVIOUS
<1>3. /\ a \in Nat /\ b \in Nat /\ a <= b
      /\ \A i \in 1..a : inbox'[i] = inbox[i]
      /\ \A i \in a+1..b : inbox'[i].code = "421" /\ inbox'[i].part = "all"
  <2>1. a \in Nat
    BY <1>2 DEF Base, TypeOK, NetworkOK
  <2>2. CASE inbox' = inbox
    BY <1>2, <2>1, <2>2
  <2>3. CASE /\ Len(inbox') = Len(inbox) + 1
             /\ \A i \in 1..Len(inbox) : inbox'[i] = inbox[i]
             /\ OnePart(inbox'[Len(inbox) + 1], FALSE, "421")
    <3>1. b = a + 1 /\ inbox'[a + 1].code = "421" /\ inbox'[a + 1].part = "all"
      BY <1>2, <2>3 DEF OnePart
    <3> QED BY <1>2, <2>1, <2>3, <3>1
  <2> QED BY <2>2, <2>3, Closed
<1>4. /\ This' = This /\ Order' = Order /\ Mark' = Mark /\ Moving' = Moving /\ Final' = Final
      /\ (\A do : Here(do)' = Here(do)) /\ state' = state /\ at' = at
  BY <1>1, Here0
<1>5. ASSUME NEW m \in Nat \ {0}, Goodbyes(m) PROVE Goodbyes(m)'
  BY <1>2, <1>3, <1>5 DEF Goodbyes
<1>6. ASSUME NEW i \in Nat \ {0}, NEW n \in Nat, FtpBlock(i, n) PROVE FtpBlock(i, n)'
  BY <1>2, <1>3, <1>6 DEF Block, FtpBlock
<1>7. ASSUME NEW x, x # "421", Unread(x)' PROVE Unread(x)
  BY <1>2, <1>3, <1>7 DEF Unread
<1>8. None => None'
  BY <1>1, <1>5 DEF None
<1>9. ASSUME One PROVE One'
  <2>1. ~Dead
    BY <1>1 DEF Dead
  <2>2. PICK n \in 1..a : FtpBlock(1, n) /\ Goodbyes(n + 1)
    <3>1. sent = <<>> /\ Len(<<>>) = 0
      BY <1>1
    <3>2. ~(Len(sent) = 1)
      BY <3>1
    <3> QED BY <1>2, <1>9, <2>1, <3>2 DEF One
  <2>3. n \in 1..Len(inbox') /\ n \in Nat /\ n + 1 \in Nat \ {0}
    BY <1>2, <1>3
  <2>4. FtpBlock(1, n)' /\ Goodbyes(n + 1)'
    BY <1>5, <1>6, <2>2, <2>3
  <2> QED BY <1>1, <2>3, <2>4 DEF One
<1>10. ASSUME Two PROVE Two'
  <2>1. PICK n \in 1..a : /\ FtpBlock(1, n) /\ inbox[1].code = "150"
                          /\ \E m \in n+1..a : FtpBlock(n + 1, m) /\ Goodbyes(m + 1)
    BY <1>1, <1>2, <1>10 DEF Two
  <2>2. PICK m \in n+1..a : FtpBlock(n + 1, m) /\ Goodbyes(m + 1)
    BY <2>1
  <2>3. /\ n \in 1..Len(inbox') /\ m \in n+1..Len(inbox') /\ 1 \in 1..a
        /\ n \in Nat /\ m \in Nat /\ m + 1 \in Nat /\ n + 1 \in Nat \ {0}
    BY <1>2, <1>3
  <2>4. FtpBlock(1, n)' /\ FtpBlock(n + 1, m)' /\ Goodbyes(m + 1)'
    BY <1>5, <1>6, <2>1, <2>2, <2>3
  <2>5. inbox'[1].code = "150"
    BY <1>3, <2>1, <2>3
  <2> QED BY <1>1, <2>3, <2>4, <2>5 DEF Two
<1>11. ~InCourse
  BY <1>1 DEF InCourse
<1>12. op' = op /\ (Unread("150")' => Unread("150")) /\ (Unread("250")' => Unread("250")) /\ done' = done
  BY <1>1, <1>7 DEF client
<1> QED BY <1>4, <1>8, <1>9, <1>10, <1>11, <1>12 DEF InStep

LEMMA SyncConnect == ASSUME Base, ConnectTo, AtFtp' PROVE InStep'
<1>1. /\ mode' = "ready" /\ sent' = <<[cmd |-> "connect", own |-> TRUE]>> /\ inbox' = <<>>
      /\ state' = "running" /\ This'.do = "skip" /\ op' # "delete"
  BY Welcomed
<1>2. One'
  <2>1. PICK e : e = [cmd |-> "connect", own |-> TRUE]
    OBVIOUS
  <2>2. Len(<<e>>) = 1
    OBVIOUS
  <2>3. sent' = <<e>>
    BY <1>1, <2>1
  <2>4. Idle'
    BY <1>1 DEF Idle, Transfers
  <2> QED BY <1>1, <2>2, <2>3, <2>4 DEF One
<1>3. ~Mark' /\ ~Moving' /\ ~Final' /\ ~Here("send")' /\ state' # "menu"
  BY <1>1 DEF Mark, Moving, Final, Here, This
<1> QED BY <1>1, <1>2, <1>3 DEF InStep

\* Nothing that happens to a client brings it back in count.
LEMMA CountLost ==
  ASSUME Base, [Next]_vars, ~Choose, InCount', ~ConnectTo
  PROVE  InCount
<1>1. faults \subseteq faults' /\ prog' = prog
  BY Kept
<1>2. peer' = peer
  <2>1. CASE UNCHANGED vars
    BY <2>1, Zenon DEF vars
  <2>2. CASE Server
    BY <2>2, Zenon DEF Server, Answer, EndTransfer, CloseIdle
  <2>3. CASE Client
    BY <2>3 DEF Client, ResolveName, SendOn, ReadReply, ReadLines, EnterPassive, ReceivePage,
                CreateFile, FetchData, UploadNothing
  <2> QED BY <2>1, <2>2, <2>3 DEF Next, Rest
<1> QED BY <1>1, <1>2 DEF InCount, Excuses

\* The client in count, over all steps.
LEMMA SyncedNext ==
  ASSUME Base, Ftp, Synced, [Next]_vars
  PROVE  Synced'
<1> SUFFICES ASSUME AtFtp', InCount' PROVE InStep'
  BY DEF Synced, InStep
<1>1. CASE ConnectTo
  BY <1>1, SyncConnect
<1>2. CASE ~ConnectTo
  <2>1. AtFtp /\ FtpInv /\ (Choose => prog = "ftp")
    BY <1>2, FtpBefore DEF Ftp, FtpInv
  <2>2. InCount
    <3>1. CASE Choose
      BY <2>1, <3>1 DEF Choose, InCount, Excuses, AtFtp
    <3>2. CASE ~Choose
      BY <1>2, <2>1, <3>2, CountLost, Kept DEF AtFtp
    <3> QED BY <3>1, <3>2
  <2>3. InStep
    BY <2>1, <2>2 DEF Synced, InStep
  <2>4. CASE UNCHANGED vars
    <3>1. UNCHANGED client /\ UNCHANGED <<sent, inbox, mode, done, conn>>
      BY <2>4 DEF vars, server
    <3>2. /\ This' = This /\ Order' = Order /\ Mark' = Mark /\ Moving' = Moving /\ Final' = Final
          /\ (\A do : Here(do)' = Here(do)) /\ state' = state /\ at' = at
      BY <3>1, Here0
    <3>3. op' = op
      BY <3>1 DEF client
    <3>4. None' = None /\ One' = One /\ Two' = Two /\ InCourse' = InCourse
          /\ \A x : Unread(x)' = Unread(x)
      BY <3>1 DEF None, One, Two, InCourse, Idle, Block, FtpBlock, Goodbyes, Dead, Unread
    <3> QED BY <2>3, <3>1, <3>2, <3>3, <3>4 DEF InStep
  <2>5. CASE Choose
    BY <2>1, <2>3, <2>5, SyncChoose
  <2>6. CASE Server
    BY <2>1, <2>2, <2>3, <2>6, SyncAnswer, SyncEnd, SyncClose DEF Server
  <2>7. CASE Client
    <3>1. ~ResolveName /\ ~ReadLines /\ ~ReceivePage
      BY <2>1, OnlyFtp
    <3> QED BY <1>2, <2>1, <2>2, <2>3, <2>7, <3>1, SyncSend, SyncRead, SyncEnter, SyncLocal DEF Client
  <2> QED BY <2>4, <2>5, <2>6, <2>7 DEF Next, Rest
<1> QED BY <1>1, <1>2

----------------------------------------------------------------------------
(* What an operation reports done was done. *)

LEMMA LastRead ==
  /\ Script("ftp", "list")[6] = Read("226") /\ Script("ftp", "get")[7] = Read("226")
  /\ Script("ftp", "put")[6] = Read("226")
  BY FtpScripts

LEMMA RealTransfer ==
  ASSUME Base, Ftp, Next, prog = "ftp", state = "running", Go, Last, op \in {"list", "get", "put"}
  PROVE  /\ {CASE op = "get" -> "RETR" [] op = "put" -> "STOR" [] OTHER -> "LIST", "226"} \subseteq done'
         /\ op = "get" => file' = "whole"
<1>1. AtFtp
  BY DEF Base, AtHost, Joined, Host, AtFtp
<1>2. This = Read("226")
  <2>1. at = Steps(prog, op)
    BY DEF Last, Steps
  <2> QED BY <2>1, LongScripts, LastRead DEF This
<1>3. Final
  BY <1>2, Parts DEF Final, Here, This
<1>4. Cmd = CASE op = "get" -> "RETR" [] op = "put" -> "STOR" [] OTHER -> "LIST"
  BY DEF Cmd, Ordered
<1> QED BY <1>1, <1>3, <1>4, FtpFinish DEF Unopened

LEMMA RealDelete ==
  ASSUME Base, Ftp, Synced, Next, prog = "ftp", state = "running", Go, Last, op = "delete",
         "unset" \notin faults', InCount'
  PROVE  "DELE" \in done'
<1>1. peer = "ftp" /\ AtFtp
  BY DEF Base, AtHost, Joined, Host, AtFtp
<1>2. at = 2 /\ This.do = "read" /\ This.ok = "250"
  <2>1. at = Steps(prog, op)
    BY DEF Last, Steps
  <2> QED BY <2>1, DeleteSteps DEF This
<1>3. ReadReply
  BY <1>2, GoesOn DEF Client, ResolveName, ConnectTo, SendOn, ReadLines, EnterPassive, ReceivePage,
                      CreateFile, FetchData, UploadNothing, Here, This
<1>4. ~Fail
  <2>1. at' = at + 1
    BY DEF Go
  <2> QED BY <1>2, <2>1 DEF Fail
<1>5. PICK n : Taking(n) /\ inbox[1].code = "250"
  BY <1>2, <1>3, <1>4, Heard DEF NotSet
<1>6. Unread("250")
  <2>1. Len(inbox) \in Nat /\ n \in 1..Len(inbox)
    BY <1>5 DEF Taking, Base, TypeOK, NetworkOK
  <2> QED BY <1>5, <2>1 DEF Unread
<1>7. InCount
  <2>1. ~Choose /\ ~ConnectTo
    BY <1>2 DEF Choose, ConnectTo, Here, This
  <2> QED BY <1>1, <2>1, CountLost
<1>8. "DELE" \in done
  BY <1>1, <1>2, <1>6, <1>7 DEF Synced, InStep
<1> QED BY <1>3, <1>8, Heard

LEMMA RealNext ==
  ASSUME Base, Ftp, Synced, Mail, Passed, SuccessIsReal, [Next]_vars
  PROVE  SuccessIsReal'
<1> SUFFICES ASSUME result' = "ok"
             PROVE  /\ op' = "get" => Transferred("RETR")' /\ file' = "whole"
                    /\ op' = "list" /\ prog' = "ftp" => Transferred("LIST")'
                    /\ op' = "put" => Transferred("STOR")'
                    /\ op' = "delete" /\ "unset" \notin faults' /\ InCount' => "DELE" \in done'
                    /\ prog' = "mail" => "." \in done'
                    /\ prog' = "fulltest" \/ op' = "ftp" =>
                         "LIST" \in done' /\ Transferred("RETR")' /\ (file' = "whole" \/ "open" \in faults')
  BY DEF SuccessIsReal
<1>1. ~Choose
  BY DEF Choose, Begin
<1>2. /\ prog' = prog /\ op' = op /\ done \subseteq done' /\ faults \subseteq faults'
      /\ file = "whole" => file' = "whole" \/ Here("create")
      /\ result' = result \/ (state = "running" /\ Fail) \/ (state = "running" /\ Go)
  BY <1>1, Kept
<1>3. CASE result = "ok"
  <2>1. state # "running"
    BY <1>3 DEF Base, Results
  <2>2. file = "whole" => file' = "whole"
    BY <1>2, <2>1 DEF Here
  <2>3. ~Client
    BY <2>1 DEF Client, ResolveName, ConnectTo, SendOn, ReadReply, ReadLines, EnterPassive, ReceivePage,
                CreateFile, FetchData, UploadNothing, Here
  <2>4. InCount' => InCount
    <3>1. peer' = peer
      <4>1. CASE UNCHANGED vars
        BY <4>1, Zenon DEF vars
      <4>2. CASE Server
        BY <4>2, Zenon DEF Server, Answer, EndTransfer, CloseIdle
      <4> QED BY <1>1, <2>3, <4>1, <4>2 DEF Next, Rest
    <3> QED BY <1>2, <3>1 DEF InCount, Excuses
  <2> QED BY <1>2, <1>3, <2>2, <2>4 DEF SuccessIsReal, Transferred
<1>4. CASE result # "ok"
  <2>1. state = "running" /\ Go /\ Last
    <3>1. state = "running" /\ Go
      BY <1>2, <1>4 DEF Fail, Returns
    <3> QED BY <1>4, <3>1 DEF Go
  <2>2. Next
    BY <1>4 DEF vars, client
  <2>3. Passed'
    BY PassedNext
  <2>4. at' = Steps(prog, op) + 1 /\ at = Steps(prog, op)
    BY <2>1 DEF Go, Last, Steps
  <2>5. ASSUME prog = "mail" PROVE "." \in done'
    <3>1. op = "start" /\ at = 16
      BY <2>1, <2>4, <2>5, MailSteps, LongScripts
    <3> QED BY <1>2, <2>5, <3>1 DEF Mail
  <2>6. ASSUME prog = "fulltest" \/ op = "ftp"
        PROVE  "LIST" \in done' /\ {"RETR", "226"} \subseteq done' /\ (file' = "whole" \/ "open" \in faults')
    <3>1. \/ prog = "fulltest" /\ at' = 51
          \/ prog = "toolkit" /\ op = "ftp" /\ at' = 21
      <4>1. CASE prog = "fulltest"
        BY <2>1, <2>4, <4>1, OneOperation, LongScripts
      <4>2. CASE op = "ftp"
        BY <2>4, <4>2, Owner, LongScripts
      <4> QED BY <2>6, <4>1, <4>2
    <3> QED BY <1>2, <2>3, <3>1 DEF Passed, Unopened
  <2>7. op = "list" /\ prog = "ftp" => {"LIST", "226"} \subseteq done'
    BY <2>1, <2>2, RealTransfer
  <2>8. op = "get" => {"RETR", "226"} \subseteq done' /\ file' = "whole"
    BY <2>1, <2>2, RealTransfer, Owner
  <2>9. op = "put" => {"STOR", "226"} \subseteq done'
    BY <2>1, <2>2, RealTransfer, Owner
  <2>10. op = "delete" /\ "unset" \notin faults' /\ InCount' => "DELE" \in done'
    BY <2>1, <2>2, RealDelete, Owner
  <2> QED BY <1>2, <2>5, <2>6, <2>7, <2>8, <2>9, <2>10 DEF Transferred
<1> QED BY <1>3, <1>4

LEMMA RealInit == Init => Ftp /\ Passed /\ Synced /\ Mail /\ SuccessIsReal
<1> SUFFICES ASSUME Init PROVE Ftp /\ Passed /\ Synced /\ Mail /\ SuccessIsReal
  OBVIOUS
<1>1. peer = "none" /\ at = 1 /\ op = "start" /\ result = "none" /\ sent = <<>> /\ inbox = <<>>
  BY DEF Init
<1>2. BeforeData
  BY <1>1 DEF BeforeData, Unread
<1> QED BY <1>1, <1>2 DEF Ftp, AtFtp, Passed, Synced, Mail, SuccessIsReal

\* The inductive invariant: RealInv holds for every number of replies that may be
\* unread when the user of a menu goes on.
THEOREM RealInvariant == Spec => []RealInv
<1>1. Init => RealInv
  BY BaseInit, RealInit DEF RealInv
<1>2. RealInv /\ [Next]_vars => RealInv'
  <2> SUFFICES ASSUME RealInv, [Next]_vars
               PROVE  Base' /\ Ftp' /\ Passed' /\ Synced' /\ Mail' /\ SuccessIsReal'
    BY DEF RealInv
  <2>1. Base /\ Ftp /\ Passed /\ Synced /\ Mail /\ SuccessIsReal
    BY DEF RealInv
  <2>2. Base' /\ Ftp' /\ Passed' /\ Synced' /\ SuccessIsReal'
    BY <2>1, BaseNext, FtpNext, PassedNext, SyncedNext, RealNext
  <2>3. Mail'
    <3>1. CASE prog = "mail"
      BY <2>1, <3>1, MailNext
    <3>2. CASE prog # "mail"
      <4>1. prog' = prog
        BY <2>1, <3>2, Kept DEF Choose
      <4> QED BY <3>2, <4>1 DEF Mail
    <3> QED BY <3>1, <3>2
  <2> QED BY <2>2, <2>3
<1> QED BY <1>1, <1>2, PTL DEF Spec

\* SuccessIsReal: what an operation reports done was done by the server in this very
\* operation, although replies may be unread, cut or read together (ftp_client.c:19).
THEOREM SuccessIsRealHolds == Spec => []SuccessIsReal
<1>1. RealInv => SuccessIsReal
  BY DEF RealInv
<1> QED BY RealInvariant, <1>1, PTL
----------------------------------------------------------------------------
(* Whose answers an FTP client in count waits for: those of its own        *)
(* operation, and the word of farewell of the server.                      *)

Mine ==
  /\ \A k \in 1..Len(sent) : sent[k].own
  /\ \A i \in 1..Len(inbox) : inbox[i].own \/ inbox[i].code = "421"
  /\ ~Idle => mode \in done
Expecting == Here("read") \/ Here("skip") \/ Here("enter") \/ Moving
OwnFtp == AtFtp /\ InCount /\ Expecting => Mine

LEMMA OwnCommand == \A c : LET e == [cmd |-> c, own |-> TRUE] IN e.cmd = c /\ e.own
  OBVIOUS

LEMMA MineSend ==
  ASSUME Base, AtFtp, FtpInv, SendOn, InStep, state' = "running"
  PROVE  Mine'
<1>1. /\ state = "running" /\ This.do = "send" /\ UNCHANGED <<mode, done>>
      /\ \/ /\ Aged /\ Len(sent') = Len(sent) + 1 /\ sent'[Len(sent) + 1].own
         \/ Aged /\ sent' = sent
  BY Sent, OwnCommand
<1>2. None
  BY <1>1 DEF InStep, Here, This
<1>3. \A i \in 1..Len(inbox') : inbox'[i].code = "421"
  BY <1>1, <1>2 DEF None, Goodbyes, Aged
<1>4. \A k \in 1..Len(sent') : sent'[k].own
  <2>1. Len(<<>>) = 0
    OBVIOUS
  <2>2. CASE sent' = sent
    <3>1. sent' = <<>>
      BY <1>2, <2>2 DEF None
    <3> QED BY <3>1
  <2>3. CASE Len(sent') = Len(sent) + 1 /\ sent'[Len(sent) + 1].own
    <3>1. PICK n : n = Len(sent) /\ Len(sent') = n + 1 /\ sent'[n + 1].own
      BY <2>3
    <3>2. n = 0
      BY <1>2, <2>1, <3>1 DEF None
    <3>3. PICK j : j = n + 1 /\ j = 1 /\ Len(sent') = j /\ sent'[j].own
      BY <3>1, <3>2
    <3> QED BY <3>3
  <2> QED BY <1>1, <2>2, <2>3
<1>5. Idle'
  BY <1>1, <1>2 DEF None, Idle
<1> QED BY <1>3, <1>4, <1>5 DEF Mine

LEMMA MineRead ==
  ASSUME Base, AtFtp, ReadReply \/ EnterPassive \/ CreateFile \/ FetchData \/ UploadNothing,
         InCount, OwnFtp
  PROVE  Mine'
<1>1. /\ UNCHANGED <<sent, mode, done>>
      /\ inbox' = inbox \/ \E n : Taking(n)
      /\ Expecting
  <2>1. CASE ReadReply
    BY <2>1, Heard DEF Expecting, Here, This
  <2>2. CASE EnterPassive
    <3>1. inbox' = inbox \/ \E n \in Readable : inbox' = SubSeq(inbox, n + 1, Len(inbox))
                                               /\ faults' = faults \cup Amiss(n)
      BY <2>2 DEF EnterPassive
    <3>2. inbox' = inbox \/ \E n : Taking(n)
      BY <3>1, Remains DEF Taking, Base, TypeOK, NetworkOK
    <3> QED BY <2>2, <3>2 DEF EnterPassive, Expecting
  <2>3. CASE CreateFile \/ FetchData \/ UploadNothing
    BY <2>3 DEF CreateFile, FetchData, UploadNothing, server, Expecting, Moving
  <2> QED BY <2>1, <2>2, <2>3
<1>2. Mine
  BY <1>1 DEF OwnFtp, Mine
<1>3. ASSUME NEW n, Taking(n), NEW i \in 1..Len(inbox')
      PROVE  \E j \in 1..Len(inbox) : inbox'[i] = inbox[j]
  <2>1. Len(inbox) \in Nat
    BY DEF Base, TypeOK, NetworkOK
  <2>2. i + n \in 1..Len(inbox) /\ inbox'[i] = inbox[i + n]
    BY <1>3, <2>1 DEF Taking
  <2> QED BY <2>2
<1>4. \A i \in 1..Len(inbox') : inbox'[i].own \/ inbox'[i].code = "421"
  BY <1>1, <1>2, <1>3 DEF Mine
<1> QED BY <1>1, <1>2, <1>4 DEF Mine, Idle

LEMMA MineAnswer ==
  ASSUME Base, AtFtp, Answer, Mine
  PROVE  Mine'
<1>1. PICK c, own : c = sent[1].cmd /\ own = sent[1].own
  OBVIOUS
<1>2. /\ Len(sent) \in Nat \ {0} /\ Len(sent') = Len(sent) - 1
      /\ \A k \in 1..Len(sent) - 1 : sent'[k] = sent[k + 1]
      /\ c \in Understood("ftp") /\ peer = "ftp" /\ mode \notin Transfers
  BY <1>1, Served DEF AtFtp
<1>3. own
  BY <1>1, <1>2 DEF Mine
<1>4. /\ done \subseteq done'
      /\ \/ /\ Grown(own, Good["ftp"][c])
            /\ \/ c \in Transfers /\ mode' = c
               \/ c \notin Transfers /\ mode' = mode
            /\ own /\ c \in Transfers \cup {"DELE"} => c \in done'
         \/ Grown(own, "err") /\ mode' \notin Transfers
  BY <1>1, <1>2, FtpServed
<1>5. ~Idle' => mode' \in done'
  BY <1>2, <1>3, <1>4 DEF Idle
<1>6. \A k \in 1..Len(sent') : sent'[k].own
  <2>1. ASSUME NEW k \in 1..Len(sent') PROVE sent'[k].own
    <3>1. k + 1 \in 1..Len(sent) /\ sent'[k] = sent[k + 1]
      BY <1>2
    <3> QED BY <3>1 DEF Mine
  <2> QED BY <2>1
<1>7. \A i \in 1..Len(inbox') : inbox'[i].own \/ inbox'[i].code = "421"
  <2>1. PICK code : Grown(own, code) /\ code # "421"
    BY <1>2, <1>4, FtpCodes
  <2>2. \A i \in 1..Len(inbox') : \/ i \in 1..Len(inbox) /\ inbox'[i] = inbox[i]
                                  \/ inbox'[i].own = own
    BY <2>1, GrownFacts
  <2> QED BY <1>3, <2>2 DEF Mine
<1> QED BY <1>5, <1>6, <1>7 DEF Mine

LEMMA MineEnd ==
  ASSUME Base, AtFtp, EndTransfer, Mine, InStep, Expecting
  PROVE  Mine'
<1>1. ~Idle /\ mode' = "ready" /\ UNCHANGED sent /\ peer = "ftp"
  BY DEF EndTransfer, Idle, Transfers, AtFtp
<1>2. sent = <<>> /\ mode \in done
  BY <1>1 DEF InStep, Expecting, One, Two, InCourse, Mine
<1>3. PICK code \in {"226", "426"} : Reply(TRUE, code)
  <2>1. PICK code \in {"226", "426"} : Reply(mode \in done /\ sent = <<>>, code)
    BY Zenon DEF EndTransfer
  <2>2. (mode \in done /\ sent = <<>>) = TRUE
    BY <1>2
  <2> QED BY <2>1, <2>2
<1>4. Grown(TRUE, code) /\ code # "421"
  <2>1. code \in Codes /\ TRUE \in BOOLEAN
    BY <1>3, FtpCodes DEF Codes
  <2> QED BY <1>1, <1>3, <2>1, GrownFtp
<1>5. \A i \in 1..Len(inbox') : \/ i \in 1..Len(inbox) /\ inbox'[i] = inbox[i]
                                \/ inbox'[i].own = TRUE
  BY <1>4, GrownFacts
<1>6. Idle'
  BY <1>1 DEF Idle, Transfers
<1> QED BY <1>1, <1>5, <1>6 DEF Mine

LEMMA MineClose ==
  ASSUME Base, CloseIdle, Mine
  PROVE  Mine'
<1>1. /\ mode \notin Transfers /\ UNCHANGED <<sent, mode>>
      /\ \/ inbox' = inbox
         \/ /\ Len(inbox') = Len(inbox) + 1
            /\ \A i \in 1..Len(inbox) : inbox'[i] = inbox[i]
            /\ inbox'[Len(inbox) + 1].code = "421"
  BY Closed DEF OnePart
<1>2. Len(inbox) \in Nat
  BY DEF Base, TypeOK, NetworkOK
<1>3. \A i \in 1..Len(inbox') : inbox'[i].own \/ inbox'[i].code = "421"
  BY <1>1, <1>2 DEF Mine
<1> QED BY <1>1, <1>3 DEF Mine, Idle

\* The answers of an FTP client in count, over all steps.
LEMMA OwnFtpNext ==
  ASSUME Base, Ftp, Synced, OwnFtp, [Next]_vars
  PROVE  OwnFtp'
<1> SUFFICES ASSUME AtFtp', InCount', Expecting' PROVE Mine'
  BY DEF OwnFtp, Mine
<1>1. CASE ConnectTo
  <2>1. /\ mode' = "ready" /\ sent' = <<[cmd |-> "connect", own |-> TRUE]>> /\ inbox' = <<>>
    BY <1>1, Welcomed
  <2>2. PICK e : e = [cmd |-> "connect", own |-> TRUE] /\ e.own
    BY OwnCommand
  <2>3. sent' = <<e>>
    BY <2>1, <2>2
  <2>4. Idle'
    BY <2>1 DEF Idle, Transfers
  <2> QED BY <2>1, <2>2, <2>3, <2>4 DEF Mine
<1>2. CASE ~ConnectTo
  <2>1. AtFtp /\ FtpInv /\ (Choose => prog = "ftp")
    BY <1>2, FtpBefore DEF Ftp, FtpInv
  <2>2. ~Choose
    <3>1. ASSUME Choose PROVE state' # "running" \/ This'.do = "send"
      BY <2>1, <3>1, FtpBegins
    <3> QED BY <3>1 DEF Expecting, Moving, Here, This
  <2>3. InCount
    BY <1>2, <2>1, <2>2, CountLost
  <2>4. InStep
    BY <2>1, <2>3 DEF Synced, InStep
  <2>5. CASE UNCHANGED vars \/ Server
    <3>1. UNCHANGED client
      BY <2>5, Zenon DEF vars, Server, Answer, EndTransfer, CloseIdle
    <3>2. Expecting
      BY <3>1, Here0 DEF Expecting
    <3>3. Mine
      BY <2>1, <2>3, <3>2 DEF OwnFtp, Mine
    <3>4. CASE UNCHANGED vars
      <4>1. UNCHANGED <<sent, inbox, mode, done>>
        BY <3>4 DEF vars, server
      <4> QED BY <3>3, <4>1 DEF Mine, Idle
    <3> QED BY <2>1, <2>4, <2>5, <3>2, <3>3, <3>4, MineAnswer, MineEnd, MineClose DEF Server
  <2>6. CASE Client
    <3>1. state' = "running"
      BY DEF Expecting, Moving, Here
    <3>2. ~ResolveName /\ ~ReadLines /\ ~ReceivePage
      BY <2>1, OnlyFtp
    <3> QED BY <1>2, <2>1, <2>3, <2>4, <2>6, <3>1, <3>2, MineSend, MineRead DEF Client
  <2> QED BY <2>2, <2>5, <2>6 DEF Next, Rest
<1> QED BY <1>1, <1>2
----------------------------------------------------------------------------
(* The clients that read by lines: smtp_client.c, pop3_client.c and the    *)
(* tests of pop3_module.c. Between two commands nothing is unread but the  *)
(* word of farewell; only the lines of a mail are sent without an answer.  *)

ByLine == \/ prog = "mail" /\ peer = "smtp"
          \/ /\ peer = "pop3"
             /\ \/ prog = "pop3"
                \/ prog = "toolkit" /\ op = "pop3" /\ at >= 3
                \/ prog = "fulltest" /\ at >= 42

\* A listing is read behind the answer that is waited for.
NextLines == /\ at < Steps(prog, op) /\ Script(prog, op)[at + 1].do = "lines"
             /\ This.do = "read" => This.ok = "+OK"
Listed(m) == \E d \in m..Len(inbox) :
  /\ \A k \in m..d : inbox[k].eol /\ (inbox[k].code = "." <=> k = d)
  /\ Goodbyes(d + 1)

Clear == Goodbyes(1) /\ \A k \in 1..Len(sent) : sent[k].cmd = "text" /\ mode = "mail"
Asked ==
  /\ sent # <<>> /\ inbox = <<>> /\ sent[Len(sent)].own
  /\ \A k \in 1..Len(sent) - 1 : sent[k].cmd = "text" /\ mode = "mail"
  /\ sent[Len(sent)].cmd \in {"LIST", "RETR"} => NextLines
Replied(n) ==
  /\ Block(1, n) /\ inbox[1].own /\ inbox[n].eol
  /\ Goodbyes(n + 1) \/ (n = 1 /\ inbox[1].code = "+OK" /\ NextLines /\ Listed(2))
Awaited == Asked \/ (sent = <<>> /\ (Goodbyes(1) \/ \E n \in 1..Len(inbox) : Replied(n)))

LineServer ==
  /\ Idle
  /\ conn # "open" => sent = <<>>
  /\ Unread("421") => conn # "open"
  /\ \A k \in 1..Len(sent) : sent[k].cmd = "QUIT" => k = Len(sent)
LineClient ==
  /\ (state = "menu" /\ prog = "pop3") \/ Here("send") => Clear
  /\ Here("send") /\ This.what = "text" => mode = "mail"
  /\ Here("read") \/ Here("skip") => Awaited
  /\ Here("lines") => sent = <<>> /\ (Goodbyes(1) \/ Listed(1))
LineInv == LineServer /\ LineClient
OwnLine == ByLine /\ InCount => LineInv

\* The steps of such a client, and what comes next.
LineAt(p, o, i) ==
  \/ p = "mail" /\ i >= 2
  \/ p = "pop3" /\ (o # "start" \/ i >= 2)
  \/ p = "toolkit" /\ o = "pop3" /\ i >= 3
  \/ p = "fulltest" /\ i >= 42
LineStepOf(s, t, u, i, n, p) ==
  \/ s.do = "send" /\ i = n /\ p # "pop3"
  \/ /\ s.do = "send" /\ i < n /\ t.do \in {"read", "skip"}
     /\ s.what \in {"LIST", "RETR"} => i + 1 < n /\ u.do = "lines" /\ (t.do = "read" => t.ok = "+OK")
  \/ s.do = "send" /\ s.what = "text" /\ i < n /\ t.do = "send"
  \/ /\ s.do \in {"read", "skip"}
     /\ \/ i = n
        \/ i < n /\ t.do = "send" /\ t.what # "text"
        \/ i < n /\ t.do = "send" /\ p = "mail" /\ i = 10 /\ s.do = "read" /\ s.ok = "354" /\ ~s.unset
        \/ i < n /\ t.do = "lines" /\ p # "mail"
  \/ s.do = "lines" /\ p # "mail" /\ (i = n \/ (i < n /\ t.do = "send" /\ t.what # "text"))
LineStep(p, o, i) ==
  LineStepOf(Script(p, o)[i], Script(p, o)[i + 1], Script(p, o)[i + 2], i, Steps(p, o), p)

LEMMA LineScripts ==
  /\ \A k \in 2..16 : LineStep("mail", "start", k)
  /\ \A k \in 2..6 : LineStep("pop3", "start", k)
  /\ \A k \in 1..2 : LineStep("pop3", "stat", k) /\ LineStep("pop3", "quit", k)
  /\ \A k \in 1..3 : LineStep("pop3", "list", k) /\ LineStep("pop3", "retr", k)
  /\ \A k \in 3..11 : LineStep("toolkit", "pop3", k)
  /\ \A k \in 42..50 : LineStep("fulltest", "start", k)
<1>1. /\ Steps("mail", "start") = 16 /\ Steps("fulltest", "start") = 50 /\ Steps("toolkit", "pop3") = 11
      /\ Steps("pop3", "start") = 6 /\ Steps("pop3", "stat") = 2 /\ Steps("pop3", "list") = 3
      /\ Steps("pop3", "retr") = 3 /\ Steps("pop3", "quit") = 2
  BY LongScripts
<1>2. \A k \in 2..16 : LineStep("mail", "start", k)
  BY <1>1, MailScript, Parts DEF LineStep, LineStepOf
<1>3. \A k \in 2..6 : LineStep("pop3", "start", k)
  BY <1>1, MoreScripts, Parts DEF LineStep, LineStepOf
<1>4. \A k \in 1..2 : LineStep("pop3", "stat", k)
  BY <1>1, MoreScripts, Parts DEF LineStep, LineStepOf
<1>5. \A k \in 1..2 : LineStep("pop3", "quit", k)
  BY <1>1, MoreScripts, Parts DEF LineStep, LineStepOf
<1>6. \A k \in 1..3 : LineStep("pop3", "list", k)
  BY <1>1, MoreScripts, Parts DEF LineStep, LineStepOf
<1>7. \A k \in 1..3 : LineStep("pop3", "retr", k)
  BY <1>1, MoreScripts, Parts DEF LineStep, LineStepOf
<1>8. \A k \in 3..11 : LineStep("toolkit", "pop3", k)
  BY <1>1, MoreScripts, Parts DEF LineStep, LineStepOf
<1>9. \A k \in 42..50 : LineStep("fulltest", "start", k)
  BY <1>1, MoreScripts, Parts DEF LineStep, LineStepOf
<1> QED BY <1>2, <1>3, <1>4, <1>5, <1>6, <1>7, <1>8, <1>9

LEMMA LineKinds ==
  ASSUME NEW p \in Programs, NEW o \in Operations(p), NEW i \in 1..Len(Script(p, o)), LineAt(p, o, i)
  PROVE  LineStep(p, o, i)
<1>1. Fine(p, o) /\ i \in 1..Steps(p, o)
  BY Lengths DEF Steps
<1>2. Steps("mail", "quit") = 0 /\ Steps("fulltest", "quit") = 0
  <2>1. Script("mail", "quit") = <<>> /\ Script("fulltest", "quit") = <<>>
    BY DEF Menu, NoMenu, Script
  <2> QED BY <2>1 DEF Steps
<1>3. CASE p = "mail"
  <2>1. o \in {"start", "quit"}
    BY <1>3, Menus, Zenon DEF Operations
  <2>2. o = "start" /\ i \in 2..16
    BY <1>1, <1>2, <1>3, <2>1, LongScripts DEF LineAt
  <2> QED BY <1>3, <2>2, LineScripts
<1>4. CASE p = "pop3"
  <2>1. o \in {"start", "stat", "list", "retr", "quit"}
    BY <1>4, Menus, Zenon DEF Operations
  <2>2. \/ o = "start" /\ i \in 2..6
        \/ o \in {"stat", "quit"} /\ i \in 1..2
        \/ o \in {"list", "retr"} /\ i \in 1..3
    BY <1>1, <1>4, <2>1, LongScripts DEF LineAt
  <2> QED BY <1>4, <2>2, LineScripts
<1>5. CASE p = "toolkit" /\ o = "pop3" /\ i >= 3
  <2>1. i \in 3..11
    BY <1>1, <1>5, LongScripts
  <2> QED BY <1>5, <2>1, LineScripts
<1>6. CASE p = "fulltest" /\ i >= 42
  <2>1. o \in {"start", "quit"}
    BY <1>6, Menus, Zenon DEF Operations
  <2>2. o = "start" /\ i \in 42..50
    BY <1>1, <1>2, <1>6, <2>1, LongScripts
  <2> QED BY <1>6, <2>2, LineScripts
<1> QED BY <1>3, <1>4, <1>5, <1>6 DEF LineAt

LEMMA LinePlaced ==
  ASSUME Base, ByLine, state = "running"
  PROVE  /\ at \in Nat \ {0} /\ at <= Steps(prog, op) /\ Steps(prog, op) \in Nat
         /\ LineStep(prog, op, at)
<1>1. Fine(prog, op) /\ at \in 1..Len(Script(prog, op))
  BY Lengths DEF Base, TypeOK, ProgramOK, Fine
<1>2. LineAt(prog, op, at)
  <2>1. prog = "mail" => at >= 2
    BY <1>1, MailSteps DEF ByLine, Base, AtHost, Joined
  <2>2. prog = "pop3" => op # "start" \/ at >= 2
    BY <1>1 DEF ByLine, Base, AtHost, Joined
  <2> QED BY <2>1, <2>2 DEF ByLine, LineAt
<1> QED BY <1>1, <1>2, LineKinds DEF Fine, Steps, Base, TypeOK, ProgramOK

\* Where a step leads.
LEMMA LineTurn ==
  ASSUME Base, ByLine, state = "running", Go
  PROVE  \/ This.do = "send" /\ state' # "running" /\ prog # "pop3"
         \/ /\ This.do = "send" /\ state' = "running" /\ This'.do \in {"read", "skip"}
            /\ This.what \in {"LIST", "RETR"} => NextLines'
         \/ This.do = "send" /\ This.what = "text" /\ state' = "running" /\ This'.do = "send"
         \/ /\ This.do \in {"read", "skip"}
            /\ \/ state' # "running" /\ ~NextLines
               \/ state' = "running" /\ This'.do = "send" /\ This'.what # "text" /\ ~NextLines
               \/ /\ state' = "running" /\ This'.do = "send" /\ ~NextLines
                  /\ prog = "mail" /\ at = 10 /\ This.do = "read" /\ This.ok = "354" /\ ~This.unset
               \/ state' = "running" /\ This'.do = "lines"
         \/ /\ This.do = "lines"
            /\ state' # "running" \/ (state' = "running" /\ This'.do = "send" /\ This'.what # "text")
<1>1. /\ at \in Nat \ {0} /\ at <= Steps(prog, op) /\ Steps(prog, op) \in Nat /\ LineStep(prog, op, at)
  BY LinePlaced
<1>2. /\ at = Steps(prog, op) => state' # "running"
      /\ at < Steps(prog, op) => state' = "running" /\ This' = Script(prog, op)[at + 1]
      /\ prog' = prog /\ op' = op /\ at' = at + 1
  BY Turned DEF Go
<1>3. PICK s, t, u, n : /\ s = This /\ t = Script(prog, op)[at + 1] /\ u = Script(prog, op)[at + 2]
                        /\ n = Steps(prog, op)
  OBVIOUS
<1>4. LineStepOf(s, t, u, at, n, prog)
  <2>1. s = Script(prog, op)[at]
    BY <1>3 DEF This
  <2> QED BY <1>1, <1>3, <2>1 DEF LineStep
<1>5. /\ at < n => state' = "running" /\ This' = t
      /\ at = n => state' # "running"
      /\ at \in Nat /\ n \in Nat
  BY <1>1, <1>2, <1>3
<1>6. NextLines <=> at < n /\ t.do = "lines" /\ (s.do = "read" => s.ok = "+OK")
  BY <1>3 DEF NextLines
<1>7. at + 1 < n /\ u.do = "lines" /\ (t.do = "read" => t.ok = "+OK") => NextLines'
  <2>1. at' + 1 = at + 2 /\ Steps(prog, op)' = n
    BY <1>1, <1>2, <1>3
  <2>2. Script(prog, op)[at + 1]' = u
    BY <1>2, <1>3, <2>1
  <2>3. at + 1 < n => This' = t
    BY <1>5
  <2> QED BY <1>2, <2>1, <2>2, <2>3 DEF NextLines
<1>8. CASE s.do = "send"
  BY <1>3, <1>4, <1>5, <1>7, <1>8 DEF LineStepOf
<1>9. CASE s.do \in {"read", "skip"}
  BY <1>3, <1>4, <1>5, <1>6, <1>9 DEF LineStepOf
<1>10. CASE s.do = "lines"
  BY <1>3, <1>4, <1>5, <1>10 DEF LineStepOf
<1>11. s.do \in {"send", "read", "skip", "lines"}
  BY <1>4 DEF LineStepOf
<1> QED BY <1>8, <1>9, <1>10, <1>11

\* Only these actions move such a client.
LEMMA OnlyLine ==
  ASSUME Base, ByLine, Client
  PROVE  SendOn \/ ReadReply \/ ReadLines
<1>1. state = "running" => This.do \in {"send", "read", "skip", "lines"}
  <2>1. state = "running" => LineStep(prog, op, at)
    BY LinePlaced
  <2> QED BY <2>1 DEF LineStep, LineStepOf, This
<1> QED BY <1>1 DEF Client, ResolveName, ConnectTo, EnterPassive, ReceivePage, CreateFile, FetchData,
                    UploadNothing, Here, This

\* What is read by an answer and by a line of a listing.
LEMMA Uncut ==
  ASSUME Base, ByLine, peer' = peer, NEW n, Taking(n), InCount'
  PROVE  /\ n \in 1..Len(inbox) /\ Len(inbox) \in Nat /\ inbox[n].part # "head"
         /\ Len(inbox') = Len(inbox) - n /\ \A i \in 1..Len(inbox) - n : inbox'[i] = inbox[i + n]
<1>1. /\ n \in 1..Len(inbox) /\ Len(inbox) \in Nat /\ Amiss(n) \subseteq faults'
      /\ Len(inbox') = Len(inbox) - n /\ \A i \in 1..Len(inbox) - n : inbox'[i] = inbox[i + n]
  BY DEF Taking, Base, TypeOK, NetworkOK
<1>2. peer # "ftp"
  BY DEF ByLine
<1>3. "cut" \notin Amiss(n)
  BY <1>1, <1>2 DEF InCount, Excuses
<1> QED BY <1>1, <1>3 DEF Amiss

LEMMA ByCrlf ==
  ASSUME ByLine
  PROVE  /\ peer = "smtp" => \A n : n \in Readable <=> n \in 1..Len(inbox) /\ inbox[n].eol
         /\ peer = "pop3" => \A n : n \in Readable <=> n \in 1..Len(inbox) /\ LineRead(n)
         /\ peer \in {"smtp", "pop3"}
  BY DEF ByLine, Readable, Pipe, CrlfRead

\* No listing is sent by SMTP.
LEMMA ListsPop3 ==
  ASSUME Base, ByLine, state = "running", NextLines \/ This.do = "lines"
  PROVE  peer = "pop3"
<1>1. /\ at \in Nat \ {0} /\ at <= Steps(prog, op) /\ Steps(prog, op) \in Nat
      /\ LineStep(prog, op, at)
  BY LinePlaced
<1>2. PICK s, t, u, n : /\ s = This /\ t = Script(prog, op)[at + 1] /\ u = Script(prog, op)[at + 2]
                        /\ n = Steps(prog, op)
  OBVIOUS
<1>3. LineStepOf(s, t, u, at, n, prog) /\ n \in Nat /\ at \in Nat
  BY <1>1, <1>2 DEF LineStep, This
<1>4. s.do = "lines" \/ (at < n /\ t.do = "lines")
  BY <1>2 DEF NextLines
<1>5. prog # "mail"
  BY <1>3, <1>4 DEF LineStepOf
<1> QED BY <1>5 DEF ByLine

LEMMA AnswerTaken ==
  ASSUME Base, ByLine, state = "running", peer' = peer, sent' = sent,
         NEW n \in Readable, Taking(n), InCount', Awaited
  PROVE  sent' = <<>> /\ (Goodbyes(1)' \/ (inbox[1].code = "+OK" /\ NextLines /\ Listed(1)'))
<1>1. /\ n \in 1..Len(inbox) /\ Len(inbox) \in Nat /\ inbox[n].part # "head"
      /\ Len(inbox') = Len(inbox) - n /\ \A i \in 1..Len(inbox) - n : inbox'[i] = inbox[i + n]
  BY Uncut
<1>2. sent = <<>> /\ (Goodbyes(1) \/ \E m \in 1..Len(inbox) : Replied(m))
  <2>1. Len(<<>>) = 0
    OBVIOUS
  <2>2. inbox # <<>>
    BY <1>1, <2>1
  <2> QED BY <2>2 DEF Awaited, Asked
<1>3. ASSUME NEW m \in Nat, m <= n, Goodbyes(m + 1) PROVE Goodbyes(1)'
  BY <1>1, <1>3 DEF Goodbyes
<1>4. CASE Goodbyes(1)
  <2>1. Goodbyes(1)'
    BY <1>1, <1>4 DEF Goodbyes
  <2> QED BY <1>2, <2>1
<1>5. ASSUME NEW m \in 1..Len(inbox), Replied(m)
      PROVE  Goodbyes(1)' \/ (inbox[1].code = "+OK" /\ NextLines /\ Listed(1)')
  <2>1. m <= n
    BY <1>1, <1>5 DEF Replied, Block
  <2>2. CASE Goodbyes(m + 1)
    BY <1>3, <2>1, <2>2
  <2>3. CASE m = 1 /\ inbox[1].code = "+OK" /\ NextLines /\ Listed(2)
    <3>1. inbox[1].eol /\ LineRead(n)
      <4>1. peer = "pop3"
        BY <2>3, ListsPop3
      <4> QED BY <1>5, <2>3, <4>1, ByCrlf DEF Replied
    <3>2. n = 1
      BY <1>1, <3>1 DEF LineRead
    <3>3. PICK d \in 2..Len(inbox) :
            (\A k \in 2..d : inbox[k].eol /\ (inbox[k].code = "." <=> k = d)) /\ Goodbyes(d + 1)
      BY <2>3 DEF Listed
    <3>4. Goodbyes(d)'
      BY <1>1, <3>2, <3>3 DEF Goodbyes
    <3>5. d - 1 \in 1..Len(inbox') /\ d - 1 + 1 = d
      BY <1>1, <3>2
    <3>6. \A k \in 1..d - 1 : inbox'[k].eol /\ (inbox'[k].code = "." <=> k = d - 1)
      <4>1. ASSUME NEW k \in 1..d - 1
            PROVE  k + 1 \in 2..d /\ inbox'[k] = inbox[k + 1] /\ (k + 1 = d <=> k = d - 1)
        BY <1>1, <3>2
      <4> QED BY <3>3, <4>1
    <3>7. Listed(1)'
      BY <3>4, <3>5, <3>6 DEF Listed
    <3> QED BY <2>3, <3>7
  <2> QED BY <1>5, <2>2, <2>3 DEF Replied
<1> QED BY <1>2, <1>4, <1>5

LEMMA LineTaken ==
  ASSUME Base, ByLine, state = "running", This.do = "lines", peer' = peer,
         NEW n \in Readable, Taking(n), InCount', Goodbyes(1) \/ Listed(1)
  PROVE  /\ inbox[n].part # "head"
         /\ Goodbyes(1)' \/ (Listed(1)' /\ inbox[n].code # ".")
<1>1. /\ n \in 1..Len(inbox) /\ Len(inbox) \in Nat /\ inbox[n].part # "head"
      /\ Len(inbox') = Len(inbox) - n /\ \A i \in 1..Len(inbox) - n : inbox'[i] = inbox[i + n]
  BY Uncut
<1>2. CASE Goodbyes(1)
  BY <1>1, <1>2 DEF Goodbyes
<1>3. CASE Listed(1)
  <2>1. PICK d \in 1..Len(inbox) :
          (\A k \in 1..d : inbox[k].eol /\ (inbox[k].code = "." <=> k = d)) /\ Goodbyes(d + 1)
    BY <1>3 DEF Listed
  <2>2. n = 1
    <3>1. LineRead(n)
      BY ByCrlf, ListsPop3
    <3>2. inbox[1].eol
      BY <1>1, <2>1
    <3> QED BY <1>1, <3>1, <3>2 DEF LineRead
  <2>3. CASE d = 1
    BY <1>1, <2>1, <2>2, <2>3 DEF Goodbyes
  <2>4. CASE d > 1
    <3>1. Goodbyes(d)'
      BY <1>1, <2>1, <2>2, <2>4 DEF Goodbyes
    <3>2. d - 1 \in 1..Len(inbox') /\ d - 1 + 1 = d
      BY <1>1, <2>2, <2>4
    <3>3. \A k \in 1..d - 1 : inbox'[k].eol /\ (inbox'[k].code = "." <=> k = d - 1)
      <4>1. ASSUME NEW k \in 1..d - 1
            PROVE  k + 1 \in 1..d /\ inbox'[k] = inbox[k + 1] /\ (k + 1 = d <=> k = d - 1)
        BY <1>1, <2>2
      <4> QED BY <2>1, <4>1
    <3>4. Listed(1)'
      BY <3>1, <3>2, <3>3 DEF Listed
    <3>5. inbox[n].code # "."
      <4>1. 1 \in 1..d /\ 1 # d
        BY <2>4
      <4> QED BY <2>1, <2>2, <4>1
    <3> QED BY <1>1, <3>4, <3>5
  <2> QED BY <2>3, <2>4
<1> QED BY <1>1, <1>2, <1>3

\* At the end nothing is left but the word of farewell.
LEMMA LinesEnd ==
  ASSUME Base, ByLine, AtEnd, LineServer
  PROVE  sent = <<>> /\ ~Listed(1) /\ (Awaited => Goodbyes(1))
<1>1. sent = <<>> /\ Readable = {} /\ Len(inbox) \in Nat
  BY DEF AtEnd, LineServer, Base, TypeOK, NetworkOK
<1>2. ASSUME Len(inbox) >= 1, inbox[1].eol PROVE FALSE
  <2>1. 1 \in 1..Len(inbox) /\ LineRead(1)
    BY <1>1, <1>2 DEF LineRead
  <2>2. 1 \in Readable
    BY <1>2, <2>1, ByCrlf
  <2> QED BY <1>1, <2>2
<1>3. ~Listed(1)
  BY <1>1, <1>2 DEF Listed
<1>4. ASSUME NEW m \in 1..Len(inbox), Replied(m) PROVE FALSE
  <2>1. m \in {1, 2} /\ inbox[m].eol /\ ~inbox[1].eol
    BY <1>1, <1>2, <1>4 DEF Replied, Block
  <2>2. LineRead(m)
    BY <2>1 DEF LineRead
  <2>3. m \in Readable
    BY <1>4, <2>1, <2>2, ByCrlf
  <2> QED BY <1>1, <2>3
<1> QED BY <1>1, <1>3, <1>4 DEF Awaited, Asked

\* What the next step asks for.
LEMMA LineSettled ==
  ASSUME Clear', state' # "running" \/ (This'.do = "send" /\ (This'.what = "text" => mode' = "mail"))
  PROVE  LineClient'
<1>1. /\ ~Here("read")' /\ ~Here("skip")' /\ ~Here("lines")'
      /\ Here("send")' /\ This'.what = "text" => mode' = "mail"
  BY DEF Here, This
<1> QED BY <1>1 DEF LineClient

LEMMA LineAwaits ==
  ASSUME Awaited', state' = "running", This'.do \in {"read", "skip"}
  PROVE  LineClient'
<1>1. ~Here("send")' /\ ~Here("lines")'
  BY DEF Here, This
<1> QED BY <1>1 DEF LineClient

LEMMA LineLists ==
  ASSUME sent' = <<>>, Goodbyes(1)' \/ Listed(1)', state' = "running", This'.do = "lines"
  PROVE  LineClient'
<1>1. ~Here("send")' /\ ~Here("read")' /\ ~Here("skip")'
  BY DEF Here, This
<1> QED BY <1>1 DEF LineClient

LEMMA LineOver ==
  ASSUME state' # "running", state' # "menu" \/ prog' # "pop3"
  PROVE  LineClient'
<1>1. ~Here("send")' /\ ~Here("read")' /\ ~Here("skip")' /\ ~Here("lines")'
  BY DEF Here
<1> QED BY <1>1 DEF LineClient

LEMMA ServerAfter ==
  ASSUME Base, LineServer, NEW n, Taking(n) \/ inbox' = inbox, UNCHANGED <<conn, sent, mode>>
  PROVE  LineServer'
<1>1. Unread("421")' => Unread("421")
  <2>1. CASE inbox' = inbox
    BY <2>1 DEF Unread
  <2>2. CASE Taking(n)
    <3>1. Len(inbox) \in Nat
      BY DEF Base, TypeOK, NetworkOK
    <3>2. \A i \in 1..Len(inbox') : i + n \in 1..Len(inbox) /\ inbox'[i] = inbox[i + n]
      BY <2>2, <3>1 DEF Taking
    <3> QED BY <3>2 DEF Unread
  <2> QED BY <2>1, <2>2
<1> QED BY <1>1 DEF LineServer, Idle

LEMMA LineSend == ASSUME Base, ByLine, SendOn, LineInv PROVE LineInv'
<1>1. /\ state = "running" /\ This.do = "send" /\ UNCHANGED <<prog, op, peer, mode>>
      /\ \/ /\ conn = "open" /\ conn' = "open" /\ Go /\ Aged
            /\ Len(sent') = Len(sent) + 1
            /\ \A k \in 1..Len(sent) : sent'[k].cmd = sent[k].cmd
            /\ sent'[Len(sent) + 1] = [cmd |-> This.what, own |-> TRUE]
         \/ conn \in {"ended", "broken"} /\ conn' = "broken" /\ Go /\ Aged /\ sent' = sent
         \/ conn = "broken" /\ state' = "killed" /\ UNCHANGED <<conn, sent, inbox>>
  BY Sent
<1>2. /\ Clear /\ (This.what = "text" => mode = "mail") /\ LineServer
      /\ Len(sent) \in Nat /\ Len(inbox) \in Nat /\ inbox' \in Seq(Pieces) /\ sent' \in Seq(Commands)
  BY <1>1, BaseSend DEF LineInv, LineClient, Here, This, Base, TypeOK, NetworkOK
<1>3. Idle'
  BY <1>1, <1>2 DEF LineServer, Idle
<1>4. CASE conn = "broken" /\ state' = "killed" /\ UNCHANGED <<conn, sent, inbox>>
  <2>1. LineServer'
    BY <1>2, <1>3, <1>4 DEF LineServer, Unread
  <2>2. LineClient'
    BY <1>4, LineOver
  <2> QED BY <2>1, <2>2 DEF LineInv
<1>5. Aged => \A x : Unread(x)' <=> Unread(x)
  BY <1>2 DEF Aged, Unread
<1>6. CASE conn \in {"ended", "broken"} /\ conn' = "broken" /\ Go /\ Aged /\ sent' = sent
  <2>1. sent' = <<>>
    BY <1>2, <1>6 DEF LineServer
  <2>2. Goodbyes(1)'
    BY <1>2, <1>6 DEF Clear, Goodbyes, Aged
  <2>3. Awaited' /\ Clear'
    <3>1. Len(<<>>) = 0
      OBVIOUS
    <3> QED BY <2>1, <2>2, <3>1 DEF Awaited, Clear
  <2>4. LineServer'
    <3>1. Len(<<>>) = 0
      OBVIOUS
    <3> QED BY <1>3, <1>6, <2>1, <3>1 DEF LineServer
  <2>5. LineClient'
    BY <1>1, <1>2, <1>6, <2>3, LineTurn, LineSettled, LineAwaits, LineOver
  <2> QED BY <2>4, <2>5 DEF LineInv
<1>7. CASE /\ conn = "open" /\ conn' = "open" /\ Go /\ Aged
           /\ Len(sent') = Len(sent) + 1
           /\ \A k \in 1..Len(sent) : sent'[k].cmd = sent[k].cmd
           /\ sent'[Len(sent) + 1] = [cmd |-> This.what, own |-> TRUE]
  <2>1. PICK e, n : e = [cmd |-> This.what, own |-> TRUE] /\ e.cmd = This.what /\ e.own /\ n = Len(sent)
    BY OwnCommand
  <2>2. /\ n \in Nat /\ Len(sent') = n + 1 /\ sent'[n + 1] = e
        /\ \A k \in 1..n : sent'[k].cmd = "text" /\ mode' = "mail"
    BY <1>1, <1>2, <1>7, <2>1 DEF Clear
  <2>3. inbox' = <<>>
    <3>1. ~Unread("421")
      BY <1>2, <1>7 DEF LineServer
    <3>2. Len(inbox') = 0
      BY <1>2, <1>7, <3>1 DEF Clear, Goodbyes, Unread, Aged
    <3> QED BY <1>2, <3>2
  <2>4. LineServer'
    <3>1. ~Unread("421")'
      BY <2>3 DEF Unread
    <3>2. \A k \in 1..Len(sent') : sent'[k].cmd = "QUIT" => k = Len(sent')
      BY <2>2
    <3> QED BY <1>3, <1>7, <3>1, <3>2 DEF LineServer
  <2>5. (This.what \in {"LIST", "RETR"} => NextLines') => Awaited'
    <3>1. sent' # <<>>
      <4>1. Len(<<>>) = 0
        OBVIOUS
      <4> QED BY <2>2, <4>1
    <3>2. sent'[Len(sent')] = e
      BY <2>2
    <3>3. \A k \in 1..Len(sent') - 1 : sent'[k].cmd = "text" /\ mode' = "mail"
      BY <2>2
    <3> QED BY <2>1, <2>3, <3>1, <3>2, <3>3 DEF Awaited, Asked
  <2>6. This.what = "text" => Clear' /\ mode' = "mail"
    <3>1. ASSUME This.what = "text", NEW k \in 1..Len(sent')
          PROVE  sent'[k].cmd = "text" /\ mode' = "mail"
      <4>1. k \in 1..n \/ k = n + 1
        BY <2>2
      <4>2. mode' = "mail"
        BY <1>1, <1>2, <3>1
      <4> QED BY <2>1, <2>2, <3>1, <4>1, <4>2
    <3> QED BY <1>1, <1>2, <2>3, <3>1 DEF Clear, Goodbyes
  <2>7. LineClient'
    BY <1>1, <1>7, <2>5, <2>6, LineTurn, LineSettled, LineAwaits, LineOver
  <2> QED BY <2>4, <2>7 DEF LineInv
<1> QED BY <1>1, <1>4, <1>6, <1>7

\* A reply is read, or the end of the connection.
LEMMA LineHear ==
  ASSUME Base, Mail, ByLine, ReadReply, LineInv, InCount'
  PROVE  LineInv'
<1>1. /\ state = "running" /\ This.do \in {"read", "skip"} /\ UNCHANGED <<prog, op, peer, conn, sent, mode>>
      /\ \/ \E n \in Readable :
              /\ Taking(n)
              /\ Go \/ (This.do = "read" /\ Fail /\ inbox[1].code # This.ok)
              /\ This.do = "read" /\ Go => inbox[1].code = This.ok
         \/ /\ AtEnd /\ inbox' = inbox
            /\ Go \/ (This.do = "read" /\ Fail)
            /\ This.do = "read" /\ Go => This.unset
  <2>1. Fail => ~Go
    BY DEF Fail, Go, Base, TypeOK, ProgramOK
  <2>2. "skip" # "read"
    OBVIOUS
  <2>3. peer # "ftp"
    BY DEF ByLine
  <2> QED BY <2>1, <2>2, <2>3, Heard DEF NotSet
<1>2. Awaited /\ LineServer
  BY <1>1 DEF LineInv, LineClient, Here, This
<1>3. LineServer'
  BY <1>1, <1>2, ServerAfter
<1>4. ~(state' = "running") \/ ~Fail
  BY DEF Fail, Returns
<1>5. /\ sent' = <<>>
      /\ \/ Goodbyes(1)'
         \/ Go /\ NextLines /\ Listed(1)'
      /\ This.do = "read" /\ ~This.unset /\ Go => inbox # <<>> /\ inbox[1].code = This.ok
      /\ Go \/ Fail
  <2>1. CASE AtEnd /\ inbox' = inbox
    <3>1. sent = <<>> /\ Goodbyes(1)
      BY <1>2, <2>1, LinesEnd
    <3>2. Goodbyes(1)'
      BY <2>1, <3>1 DEF Goodbyes
    <3>3. /\ Go \/ (This.do = "read" /\ Fail)
          /\ This.do = "read" /\ Go => This.unset
      <4>1. ASSUME NEW n \in Readable PROVE FALSE
        BY <2>1, <4>1 DEF AtEnd
      <4> QED BY <1>1, <4>1
    <3> QED BY <1>1, <3>1, <3>2, <3>3
  <2>2. ASSUME NEW n \in Readable, Taking(n),
               Go \/ (This.do = "read" /\ Fail /\ inbox[1].code # This.ok),
               This.do = "read" /\ Go => inbox[1].code = This.ok
        PROVE  /\ sent' = <<>>
               /\ \/ Goodbyes(1)'
                  \/ Go /\ NextLines /\ Listed(1)'
               /\ This.do = "read" /\ ~This.unset /\ Go => inbox # <<>> /\ inbox[1].code = This.ok
               /\ Go \/ Fail
    <3>1. sent' = <<>> /\ (Goodbyes(1)' \/ (inbox[1].code = "+OK" /\ NextLines /\ Listed(1)'))
      BY <1>1, <1>2, <2>2, AnswerTaken
    <3>2. ~Go => Goodbyes(1)'
      BY <2>2, <3>1 DEF NextLines
    <3>3. inbox # <<>>
      <4>1. Len(<<>>) = 0
        OBVIOUS
      <4> QED BY <2>2, <4>1 DEF Taking
    <3> QED BY <2>2, <3>1, <3>2, <3>3
  <2> QED BY <1>1, <2>1, <2>2
<1>6. Goodbyes(1)' => Clear'
  <2>1. Len(<<>>) = 0
    OBVIOUS
  <2> QED BY <1>5, <2>1 DEF Clear
<1>7. LineClient'
  <2>1. CASE ~Go
    <3>1. state' # "running"
      BY <1>4, <1>5, <2>1
    <3> QED BY <1>5, <1>6, <2>1, <3>1, LineSettled
  <2>2. CASE Go
    <3>1. \/ state' # "running" /\ ~NextLines
          \/ state' = "running" /\ This'.do = "send" /\ This'.what # "text" /\ ~NextLines
          \/ /\ state' = "running" /\ This'.do = "send" /\ ~NextLines
             /\ prog = "mail" /\ at = 10 /\ This.do = "read" /\ This.ok = "354" /\ ~This.unset
          \/ state' = "running" /\ This'.do = "lines"
      BY <1>1, <2>2, LineTurn
    <3>2. ASSUME prog = "mail", at = 10, This.do = "read", This.ok = "354", ~This.unset
          PROVE  mode' = "mail"
      <4>1. AfterData
        BY <3>2 DEF Mail
      <4>2. 1 \in 1..Len(inbox) /\ inbox[1].code = "354"
        BY <1>5, <2>2, <3>2 DEF Base, TypeOK, NetworkOK
      <4> QED BY <1>1, <4>1, <4>2 DEF AfterData
    <3>3. CASE ~NextLines
      BY <1>5, <1>6, <3>1, <3>2, <3>3, LineSettled, LineLists
    <3>4. CASE state' = "running" /\ This'.do = "lines"
      BY <1>5, <3>4, LineLists
    <3> QED BY <3>1, <3>3, <3>4
  <2> QED BY <2>1, <2>2
<1> QED BY <1>3, <1>7 DEF LineInv

LEMMA LineList ==
  ASSUME Base, ByLine, ReadLines, LineInv, InCount'
  PROVE  LineInv'
<1>1. /\ state = "running" /\ This.do = "lines" /\ UNCHANGED <<peer, conn, sent, mode>>
      /\ \/ AtEnd /\ Go /\ inbox' = inbox
         \/ \E n \in Readable :
              /\ Taking(n)
              /\ Go \/ (Stay /\ inbox[n].code # "." /\ inbox[n].part # "head")
              /\ Go => inbox[n].code = "." \/ inbox[n].part = "head"
  <2>1. ASSUME NEW n \in Readable, inbox' = SubSeq(inbox, n + 1, Len(inbox)), faults' = faults \cup Amiss(n)
        PROVE  Taking(n)
    BY <2>1, Remains DEF Taking, Base, TypeOK, NetworkOK
  <2>2. Stay => ~Go
    BY DEF Stay, Go, Base, TypeOK, ProgramOK
  <2>3. ASSUME NEW n \in Readable, IF inbox[n].code = "." \/ inbox[n].part = "head" THEN Go ELSE Stay
        PROVE  /\ Go \/ (Stay /\ inbox[n].code # "." /\ inbox[n].part # "head")
               /\ Go => inbox[n].code = "." \/ inbox[n].part = "head"
    BY <2>2, <2>3
  <2>4. CASE AtEnd /\ Go /\ UNCHANGED <<inbox, faults>>
    BY <2>4 DEF ReadLines, Here, This
  <2>5. ASSUME NEW n \in Readable, IF inbox[n].code = "." \/ inbox[n].part = "head" THEN Go ELSE Stay,
               inbox' = SubSeq(inbox, n + 1, Len(inbox)), faults' = faults \cup Amiss(n)
        PROVE  /\ Taking(n)
               /\ Go \/ (Stay /\ inbox[n].code # "." /\ inbox[n].part # "head")
               /\ Go => inbox[n].code = "." \/ inbox[n].part = "head"
    BY <2>1, <2>3, <2>5
  <2> QED BY <2>4, <2>5 DEF ReadLines, Here, This
<1>2. sent = <<>> /\ (Goodbyes(1) \/ Listed(1)) /\ LineServer
  BY <1>1 DEF LineInv, LineClient, Here, This
<1>3. LineServer'
  BY <1>1, <1>2, ServerAfter
<1>4. \/ Go /\ Goodbyes(1)'
      \/ Stay /\ (Goodbyes(1)' \/ Listed(1)')
  <2>1. CASE AtEnd /\ Go /\ inbox' = inbox
    <3>1. Goodbyes(1)
      BY <1>2, <2>1, LinesEnd
    <3> QED BY <2>1, <3>1 DEF Goodbyes
  <2>2. ASSUME NEW n \in Readable, Taking(n),
               Go \/ (Stay /\ inbox[n].code # "." /\ inbox[n].part # "head"),
               Go => inbox[n].code = "." \/ inbox[n].part = "head"
        PROVE  \/ Go /\ Goodbyes(1)'
               \/ Stay /\ (Goodbyes(1)' \/ Listed(1)')
    <3>1. inbox[n].part # "head" /\ (Goodbyes(1)' \/ (Listed(1)' /\ inbox[n].code # "."))
      BY <1>1, <1>2, <2>2, LineTaken
    <3> QED BY <2>2, <3>1
  <2> QED BY <1>1, <2>1, <2>2
<1>5. sent' = <<>> /\ (Goodbyes(1)' => Clear')
  <2>1. Len(<<>>) = 0
    OBVIOUS
  <2> QED BY <1>1, <1>2, <2>1 DEF Clear
<1>6. LineClient'
  <2>1. CASE Go /\ Goodbyes(1)'
    <3>1. state' # "running" \/ (This'.do = "send" /\ This'.what # "text")
      BY <1>1, <2>1, LineTurn
    <3> QED BY <1>5, <2>1, <3>1, LineSettled
  <2>2. CASE Stay /\ (Goodbyes(1)' \/ Listed(1)')
    <3>1. state' = "running" /\ This'.do = "lines"
      BY <1>1, <2>2 DEF Stay, This
    <3> QED BY <1>5, <2>2, <3>1, LineLists
  <2> QED BY <1>4, <2>1, <2>2
<1> QED BY <1>3, <1>6 DEF LineInv

\* The servers. A listing comes in lines that end, the last is a dot.
LEMMA ListingLines ==
  ASSUME NEW own \in BOOLEAN, NEW s \in Listing(own)
  PROVE  /\ s \in Seq(Pieces) /\ Len(s) \in Nat \ {0}
         /\ \A k \in 1..Len(s) : s[k].eol /\ s[k].code # "421" /\ (s[k].code = "." <=> k = Len(s))
<1> DEFINE e == Piece(own, "line", "all", TRUE)
           f == Piece(own, ".", "all", TRUE)
           g == Piece(own, "line", "head", TRUE)
           h == Piece(own, "line", "rest", TRUE)
<1>1. /\ e.code # "." /\ e.eol /\ f.code = "." /\ f.eol
      /\ g.code # "." /\ g.eol /\ h.code # "." /\ h.eol
      /\ e.code # "421" /\ f.code # "421" /\ g.code # "421" /\ h.code # "421"
  BY DEF Piece
<1>2. s = <<e, f>> \/ s = <<g, h, f>>
  BY DEF Listing
<1> HIDE DEF e, f, g, h
<1>3. CASE s = <<e, f>>
  <2>1. Len(s) = 2 /\ s[1] = e /\ s[2] = f
    BY <1>3
  <2>2. \A k \in 1..Len(s) : k = 1 \/ k = 2
    BY <2>1
  <2> QED BY <1>1, <2>1, <2>2, ListingOf
<1>4. CASE s = <<g, h, f>>
  <2>1. Len(s) = 3 /\ s[1] = g /\ s[2] = h /\ s[3] = f
    BY <1>4
  <2>2. \A k \in 1..Len(s) : k = 1 \/ k = 2 \/ k = 3
    BY <2>1
  <2> QED BY <1>1, <2>1, <2>2, ListingOf
<1> QED BY <1>2, <1>3, <1>4

LEMMA LineCodes ==
  /\ \A c \in Understood("smtp") : Good["smtp"][c] \in Codes /\ Good["smtp"][c] # "421"
  /\ \A c \in Understood("pop3") : Good["pop3"][c] \in Codes /\ Good["pop3"][c] # "421"
  /\ "text" \notin Understood("pop3") /\ "LIST" \notin Understood("smtp") /\ "RETR" \notin Understood("smtp")
<1>1. \A c \in Understood("smtp") : Good["smtp"][c] \in Codes /\ Good["smtp"][c] # "421"
  BY DEF Understood, Good, Codes
<1>2. \A c \in Understood("pop3") : Good["pop3"][c] \in Codes /\ Good["pop3"][c] # "421"
  BY DEF Understood, Good, Codes
<1>3. "text" \notin Understood("pop3") /\ "LIST" \notin Understood("smtp") /\ "RETR" \notin Understood("smtp")
  BY DEF Understood, Good
<1> QED BY <1>1, <1>2, <1>3

\* What the server of such a client does with the first command.
Silenced(c) == peer = "smtp" /\ mode = "mail" /\ c # "."
LEMMA LineServed ==
  ASSUME Base, Answer, ByLine
  PROVE  LET c == sent[1].cmd
             own == sent[1].own IN
         /\ peer \in {"smtp", "pop3"} /\ ~Unheard /\ mode' \notin Transfers
         /\ conn' # "open" => c = "QUIT"
         /\ Silenced(c) => UNCHANGED <<inbox, mode>>
         /\ ~Silenced(c) =>
              \/ \E code \in Codes : code # "421" /\ Reply(own, code)
              \/ /\ c \in {"LIST", "RETR"}
                 /\ \E s \in Listing(own) : inbox' = inbox \o <<Piece(own, "+OK", "all", TRUE)>> \o s
<1>1. PICK c, own : c = sent[1].cmd /\ own = sent[1].own
  OBVIOUS
<1>2. Head(sent) = sent[1]
  BY Oldest DEF Answer, Base, TypeOK, NetworkOK
<1>3. /\ peer \in {"smtp", "pop3"} /\ ~Unheard
  BY DEF ByLine, Unheard
<1>4. c \in Understood(peer) /\ conn = "open" /\ mode \notin Transfers /\ own \in BOOLEAN
  BY <1>1, Served
<1>5. Good[peer][c] \in Codes /\ Good[peer][c] # "421" /\ "err" \in Codes /\ "err" # "421"
  BY <1>3, <1>4, LineCodes DEF Codes
<1>6. PICK silent, listed, needs \in BOOLEAN :
        /\ silent <=> (peer = "http" /\ c # "end") \/ (peer = "smtp" /\ mode = "mail" /\ c # ".")
        /\ listed <=> peer = "pop3" /\ c \in {"LIST", "RETR"}
        /\ \/ silent /\ UNCHANGED <<inbox, mode, data, done, conn>>
           \/ /\ ~silent /\ needs
              /\ IF listed
                 THEN \E s \in Listing(own) : inbox' = inbox \o <<Piece(own, "+OK", "all", TRUE)>> \o s
                 ELSE Reply(own, Good[peer][c])
              /\ mode' = CASE c = "RCPT" -> "rcpt" [] c = "DATA" -> "mail" [] c = "." -> "ready"
                           [] peer = "ftp" /\ c \in {"LIST", "RETR", "STOR"} -> c
                           [] OTHER -> mode
              /\ conn' = IF c = "QUIT" THEN "ended" ELSE conn
           \/ /\ ~silent /\ Reply(own, "err")
              /\ mode' = IF mode = "mail" THEN "ready" ELSE mode
              /\ UNCHANGED <<data, done, conn>>
  BY <1>1, <1>2 DEF Answer
<1>7. silent <=> Silenced(c)
  BY <1>3, <1>6 DEF Silenced
<1>8. CASE silent
  BY <1>1, <1>3, <1>4, <1>6, <1>7, <1>8
<1>9. CASE ~silent /\ Reply(own, "err") /\ mode' = (IF mode = "mail" THEN "ready" ELSE mode) /\ conn' = conn
  <2>1. mode' \notin Transfers
    BY <1>4, <1>9 DEF Transfers
  <2> QED BY <1>1, <1>3, <1>4, <1>5, <1>7, <1>9, <2>1
<1>10. CASE /\ ~silent
            /\ IF listed
               THEN \E s \in Listing(own) : inbox' = inbox \o <<Piece(own, "+OK", "all", TRUE)>> \o s
               ELSE Reply(own, Good[peer][c])
            /\ mode' = CASE c = "RCPT" -> "rcpt" [] c = "DATA" -> "mail" [] c = "." -> "ready"
                         [] peer = "ftp" /\ c \in {"LIST", "RETR", "STOR"} -> c
                         [] OTHER -> mode
            /\ conn' = IF c = "QUIT" THEN "ended" ELSE conn
  <2>1. mode' \notin Transfers
    BY <1>3, <1>4, <1>10 DEF Transfers
  <2>2. \/ \E code \in Codes : code # "421" /\ Reply(own, code)
        \/ /\ c \in {"LIST", "RETR"}
           /\ \E s \in Listing(own) : inbox' = inbox \o <<Piece(own, "+OK", "all", TRUE)>> \o s
    BY <1>5, <1>6, <1>10
  <2>3. conn' # "open" => c = "QUIT"
    BY <1>4, <1>10
  <2> QED BY <1>1, <1>3, <1>7, <1>10, <2>1, <2>2, <2>3
<1> QED BY <1>6, <1>8, <1>9, <1>10

\* An answer to the last command, into an empty inbox.
LEMMA LineReply ==
  ASSUME Base, inbox = <<>>, ~Unheard, NEW code \in Codes, code # "421", Reply(TRUE, code)
  PROVE  ~Unread("421")' /\ \E n \in 1..Len(inbox') : Replied(n)'
<1>1. PICK m : m = Len(inbox) /\ m = 0
  OBVIOUS
<1>2. /\ \/ Len(inbox') = m + 1 /\ OnePart(inbox'[m + 1], TRUE, code)
         \/ Len(inbox') = m + 2 /\ TwoParts(inbox'[m + 1], inbox'[m + 2], TRUE, code)
  <2>1. TRUE \in BOOLEAN /\ inbox \in Seq(Pieces)
    BY DEF Base, TypeOK, NetworkOK
  <2> QED BY <1>1, <2>1, Answered
<1>3. CASE Len(inbox') = 1 /\ OnePart(inbox'[1], TRUE, code)
  BY <1>3 DEF OnePart, Replied, Block, Goodbyes, Unread
<1>4. CASE Len(inbox') = 2 /\ TwoParts(inbox'[1], inbox'[2], TRUE, code)
  <2>1. /\ inbox'[1].own /\ inbox'[1].part = "head" /\ inbox'[2].part = "rest" /\ inbox'[2].eol
        /\ inbox'[1].code # "421" /\ inbox'[2].code # "421"
    BY <1>4, Blank DEF TwoParts
  <2>2. 2 \in 1..Len(inbox') /\ Replied(2)'
    BY <1>4, <2>1 DEF Replied, Block, Goodbyes
  <2>3. ~Unread("421")'
    BY <1>4, <2>1 DEF Unread
  <2> QED BY <2>2, <2>3
<1>5. m + 1 = 1 /\ m + 2 = 2
  BY <1>1
<1> QED BY <1>2, <1>3, <1>4, <1>5

LEMMA Prefixed ==
  ASSUME NEW P, NEW e \in P, NEW s \in Seq(P)
  PROVE  /\ Len(<<e>> \o s) = Len(s) + 1 /\ (<<e>> \o s)[1] = e
         /\ \A k \in 2..Len(s) + 1 : (<<e>> \o s)[k] = s[k - 1]
  OBVIOUS

LEMMA LineListing ==
  ASSUME Base, inbox = <<>>, NextLines', NEW s \in Listing(TRUE),
         inbox' = inbox \o <<Piece(TRUE, "+OK", "all", TRUE)>> \o s
  PROVE  ~Unread("421")' /\ \E n \in 1..Len(inbox') : Replied(n)'
<1>1. PICK e : e = Piece(TRUE, "+OK", "all", TRUE)
  OBVIOUS
<1>2. e \in Pieces /\ e.own /\ e.code = "+OK" /\ e.part = "all" /\ e.eol
  BY <1>1 DEF Piece, Pieces, Codes
<1>3. /\ s \in Seq(Pieces) /\ Len(s) \in Nat \ {0}
      /\ \A k \in 1..Len(s) : s[k].eol /\ (s[k].code = "." <=> k = Len(s)) /\ s[k].code # "421"
  <2>1. TRUE \in BOOLEAN
    OBVIOUS
  <2> QED BY <2>1, ListingLines
<1>4. inbox' = <<e>> \o s
  <2>1. <<e>> \in Seq(Pieces)
    BY <1>2
  <2>2. <<>> \o <<e>> = <<e>>
    BY <2>1
  <2> QED BY <1>1, <2>2
<1>5. PICK m : m = Len(s) /\ m \in Nat \ {0}
  BY <1>3
<1>6. /\ Len(inbox') = m + 1 /\ inbox'[1] = e /\ \A k \in 2..m + 1 : inbox'[k] = s[k - 1]
  <2>1. /\ Len(<<e>> \o s) = Len(s) + 1 /\ (<<e>> \o s)[1] = e
        /\ \A k \in 2..Len(s) + 1 : (<<e>> \o s)[k] = s[k - 1]
    <3>1. e \in Pieces /\ s \in Seq(Pieces)
      BY <1>2, <1>3
    <3>2. \A x \in Pieces, y \in Seq(Pieces) :
            /\ Len(<<x>> \o y) = Len(y) + 1 /\ (<<x>> \o y)[1] = x
            /\ \A k \in 2..Len(y) + 1 : (<<x>> \o y)[k] = y[k - 1]
      BY Prefixed
    <3> QED BY <3>1, <3>2, Zenon
  <2> QED BY <1>4, <1>5, <2>1, Zenon
<1>7. Listed(2)'
  <2>1. m + 1 \in 2..Len(inbox')
    BY <1>5, <1>6
  <2>2. \A k \in 2..m + 1 : inbox'[k].eol /\ (inbox'[k].code = "." <=> k = m + 1)
    <3>1. ASSUME NEW k \in 2..m + 1
          PROVE  k - 1 \in 1..m /\ inbox'[k] = s[k - 1] /\ (k - 1 = m <=> k = m + 1)
      BY <1>5, <1>6
    <3> QED BY <1>3, <1>5, <3>1
  <2>3. Goodbyes(m + 1 + 1)'
    BY <1>5, <1>6 DEF Goodbyes
  <2> QED BY <2>1, <2>2, <2>3 DEF Listed
<1>8. Block(1, 1)' /\ 1 \in 1..Len(inbox')
  <2>1. inbox'[1].part = "all"
    BY <1>2, <1>6, Zenon
  <2>2. 1 <= Len(inbox') /\ 1 \in 1..Len(inbox')
    BY <1>5, <1>6
  <2>3. 1 <= 1 /\ 1 = 1
    OBVIOUS
  <2> QED BY <2>1, <2>2, <2>3, Zenon DEF Block
<1>9. ~Unread("421")'
  <2>1. ASSUME NEW i \in 1..Len(inbox') PROVE inbox'[i].code # "421"
    <3>1. i = 1 \/ (i \in 2..m + 1 /\ i - 1 \in 1..m)
      BY <1>5, <1>6
    <3> QED BY <1>2, <1>3, <1>5, <1>6, <3>1
  <2> QED BY <2>1 DEF Unread
<1>10. Replied(1)'
  BY <1>2, <1>6, <1>7, <1>8 DEF Replied
<1> QED BY <1>8, <1>9, <1>10

LEMMA ListedCodes ==
  ASSUME Base, NEW own \in BOOLEAN, NEW s \in Listing(own), Unread("421")',
         inbox' = inbox \o <<Piece(own, "+OK", "all", TRUE)>> \o s
  PROVE  Unread("421")
<1>1. PICK e : e = Piece(own, "+OK", "all", TRUE)
  OBVIOUS
<1>2. e \in Pieces /\ e.code # "421"
  BY <1>1 DEF Piece, Pieces, Codes
<1>3. PICK t : t = inbox \o <<e>>
  OBVIOUS
<1>4. s \in Seq(Pieces) /\ \A k \in 1..Len(s) : s[k].code # "421"
  BY ListingLines
<1>5. inbox \in Seq(Pieces) /\ <<e>> \in Seq(Pieces) /\ Len(<<e>>) = 1 /\ <<e>>[1] = e
  BY <1>2, Single DEF Base, TypeOK, NetworkOK
<1>6. /\ t \in Seq(Pieces) /\ Len(t) = Len(inbox) + 1
      /\ \A i \in 1..Len(inbox) : t[i] = inbox[i]
      /\ t[Len(inbox) + 1] = e
  <2>1. t = Append(inbox, e)
    BY <1>2, <1>3, <1>5
  <2> QED BY <1>2, <1>5, <2>1, Newest
<1>7. inbox' = t \o s
  BY <1>1, <1>3
<1>8. /\ Len(inbox') = Len(t) + Len(s) /\ \A i \in 1..Len(t) : inbox'[i] = t[i]
      /\ \A i \in Len(t)+1..Len(t) + Len(s) : inbox'[i] = s[i - Len(t)]
  <2>1. \A x \in Seq(Pieces), y \in Seq(Pieces) :
          /\ Len(x \o y) = Len(x) + Len(y)
          /\ \A i \in 1..Len(x) : (x \o y)[i] = x[i]
          /\ \A i \in Len(x)+1..Len(x) + Len(y) : (x \o y)[i] = y[i - Len(x)]
    BY Joint
  <2>2. t \in Seq(Pieces) /\ s \in Seq(Pieces)
    BY <1>4, <1>6
  <2>3. /\ Len(t \o s) = Len(t) + Len(s)
        /\ \A i \in 1..Len(t) : (t \o s)[i] = t[i]
        /\ \A i \in Len(t)+1..Len(t) + Len(s) : (t \o s)[i] = s[i - Len(t)]
    BY <2>1, <2>2, Zenon
  <2> QED BY <1>7, <2>3, Zenon
<1>9. PICK i \in 1..Len(inbox') : inbox'[i].code = "421"
  BY DEF Unread
<1>10. Len(inbox) \in Nat /\ Len(t) \in Nat /\ Len(s) \in Nat
  BY <1>4, <1>5, <1>6
<1>11. CASE i \in 1..Len(inbox)
  BY <1>6, <1>8, <1>9, <1>10, <1>11 DEF Unread
<1>12. CASE i = Len(inbox) + 1
  <2>1. i \in 1..Len(t)
    BY <1>6, <1>10, <1>12
  <2>2. inbox'[i] = e
    BY <1>6, <1>8, <1>12, <2>1, Zenon
  <2> QED BY <1>2, <1>9, <2>2, Zenon
<1>13. CASE i \in Len(t)+1..Len(t) + Len(s)
  <2>1. i - Len(t) \in 1..Len(s)
    BY <1>10, <1>13
  <2> QED BY <1>4, <1>8, <1>9, <1>13, <2>1
<1> QED BY <1>6, <1>8, <1>9, <1>10, <1>11, <1>12, <1>13

LEMMA LineAnswer == ASSUME Base, ByLine, Answer, LineInv PROVE LineInv'
<1>1. PICK c, own, m : c = sent[1].cmd /\ own = sent[1].own /\ m = Len(sent)
  OBVIOUS
<1>2. /\ m \in Nat \ {0} /\ Len(sent') = m - 1 /\ c \in Understood(peer) /\ own \in BOOLEAN
      /\ \A k \in 1..m - 1 : sent'[k] = sent[k + 1]
      /\ conn = "open" /\ mode \notin Transfers /\ UNCHANGED client
  BY <1>1, Served
<1>3. /\ peer \in {"smtp", "pop3"} /\ ~Unheard /\ mode' \notin Transfers
      /\ conn' # "open" => c = "QUIT"
      /\ Silenced(c) => UNCHANGED <<inbox, mode>>
      /\ ~Silenced(c) =>
           \/ \E code \in Codes : code # "421" /\ Reply(own, code)
           \/ /\ c \in {"LIST", "RETR"}
              /\ \E s \in Listing(own) : inbox' = inbox \o <<Piece(own, "+OK", "all", TRUE)>> \o s
  BY <1>1, LineServed
<1>4. (\A do : Here(do)' = Here(do)) /\ This' = This /\ state' = state
  BY <1>2, Here0
<1>5. NextLines' = NextLines /\ prog' = prog
  BY <1>2, <1>4 DEF NextLines, client
<1>6. LineServer /\ LineClient /\ sent' \in Seq(Commands) /\ Len(<<>>) = 0
  BY BaseAnswer DEF LineInv, Base, TypeOK, NetworkOK
<1>7. m = 1 => sent' = <<>>
  BY <1>2, <1>6
<1>8. LineServer'
  <2>1. ~Unread("421")'
    <3>1. ~Unread("421")
      BY <1>2, <1>6 DEF LineServer
    <3>2. CASE Silenced(c)
      BY <1>3, <3>1, <3>2 DEF Unread
    <3>3. ASSUME NEW code \in Codes, code # "421", Reply(own, code) PROVE ~Unread("421")'
      BY <1>2, <3>1, <3>3, NewCodes, Blank
    <3>4. ASSUME NEW s \in Listing(own), inbox' = inbox \o <<Piece(own, "+OK", "all", TRUE)>> \o s
          PROVE  ~Unread("421")'
      BY <1>2, <3>1, <3>4, ListedCodes
    <3> QED BY <1>3, <3>2, <3>3, <3>4
  <2>2. conn' # "open" => sent' = <<>>
    <3>1. ASSUME c = "QUIT" PROVE m = 1
      <4>1. 1 \in 1..Len(sent) /\ sent[1].cmd = "QUIT"
        BY <1>1, <1>2, <3>1
      <4>2. 1 = Len(sent)
        BY <1>6, <4>1, Zenon DEF LineServer
      <4> QED BY <1>1, <4>2
    <3> QED BY <1>3, <1>7, <3>1
  <2>3. ASSUME NEW k \in 1..Len(sent'), sent'[k].cmd = "QUIT" PROVE k = Len(sent')
    <3>1. k + 1 \in 1..Len(sent) /\ sent[k + 1].cmd = "QUIT"
      BY <1>1, <1>2, <2>3
    <3>2. k + 1 = Len(sent)
      BY <1>6, <3>1 DEF LineServer
    <3> QED BY <1>1, <1>2, <3>2
  <2> QED BY <1>3, <2>1, <2>2, <2>3 DEF LineServer, Idle
<1>9. c = "text" /\ mode = "mail" => Silenced(c)
  BY <1>2, <1>3, LineCodes DEF Silenced
<1>10. CASE (state = "menu" /\ prog = "pop3") \/ Here("send")
  <2>1. Clear
    BY <1>6, <1>10 DEF LineClient
  <2>2. c = "text" /\ mode = "mail"
    BY <1>1, <1>2, <2>1 DEF Clear
  <2>3. UNCHANGED <<inbox, mode>>
    BY <1>3, <1>9, <2>2
  <2>4. \A k \in 1..Len(sent') : sent'[k].cmd = "text" /\ mode' = "mail"
    <3>1. ASSUME NEW k \in 1..Len(sent') PROVE k + 1 \in 1..Len(sent) /\ sent'[k] = sent[k + 1]
      BY <1>1, <1>2
    <3> QED BY <2>1, <2>2, <2>3, <3>1 DEF Clear
  <2>5. Clear' /\ mode' = "mail"
    BY <2>1, <2>2, <2>3, <2>4 DEF Clear, Goodbyes
  <2>6. state' # "running" \/ This'.do = "send"
    BY <1>4, <1>10 DEF Here, This
  <2> QED BY <1>8, <2>5, <2>6, LineSettled DEF LineInv
<1>11. CASE Here("read") \/ Here("skip")
  <2>1. Asked
    <3>1. sent # <<>>
      BY <1>1, <1>2, <1>6
    <3> QED BY <1>6, <1>11, <3>1 DEF LineClient, Awaited
  <2>2. CASE m > 1
    <3>1. c = "text" /\ mode = "mail"
      BY <1>1, <1>2, <2>1, <2>2 DEF Asked
    <3>2. UNCHANGED <<inbox, mode>>
      BY <1>3, <1>9, <3>1
    <3>3. \A k \in 1..Len(sent') - 1 : sent'[k].cmd = "text" /\ mode' = "mail"
      <4>1. ASSUME NEW k \in 1..Len(sent') - 1
            PROVE  k + 1 \in 1..Len(sent) - 1 /\ sent'[k] = sent[k + 1]
        BY <1>1, <1>2
      <4> QED BY <2>1, <3>1, <3>2, <4>1 DEF Asked
    <3>4. sent' # <<>> /\ sent'[Len(sent')] = sent[Len(sent)]
      <4>1. Len(sent') # 0 /\ m - 1 \in 1..m - 1 /\ m - 1 + 1 = m
        BY <1>2, <2>2
      <4> QED BY <1>1, <1>2, <1>6, <4>1
    <3>5. Asked'
      BY <1>5, <2>1, <3>2, <3>3, <3>4 DEF Asked
    <3> QED BY <1>4, <1>8, <1>11, <3>5, LineAwaits DEF LineInv, Awaited, Here, This
  <2>3. CASE m = 1
    <3>1. own /\ sent' = <<>> /\ inbox = <<>> /\ (c \in {"LIST", "RETR"} => NextLines')
      BY <1>1, <1>5, <1>7, <2>1, <2>3 DEF Asked
    <3>2. own = TRUE
      BY <1>2, <3>1
    <3>3. Awaited'
      <4>1. CASE Silenced(c)
        <5>1. inbox' = <<>>
          BY <1>3, <3>1, <4>1
        <5>2. Goodbyes(1)'
          BY <1>6, <5>1 DEF Goodbyes
        <5> QED BY <3>1, <5>2 DEF Awaited
      <4>2. ASSUME NEW code \in Codes, code # "421", Reply(own, code) PROVE Awaited'
        <5>1. \E n \in 1..Len(inbox') : Replied(n)'
          BY <1>3, <3>1, <3>2, <4>2, LineReply
        <5> QED BY <3>1, <5>1 DEF Awaited
      <4>3. ASSUME c \in {"LIST", "RETR"}, NEW s \in Listing(own),
                   inbox' = inbox \o <<Piece(own, "+OK", "all", TRUE)>> \o s
            PROVE  Awaited'
        <5>1. \E n \in 1..Len(inbox') : Replied(n)'
          BY <3>1, <3>2, <4>3, LineListing
        <5> QED BY <3>1, <5>1 DEF Awaited
      <4> QED BY <1>3, <4>1, <4>2, <4>3
    <3> QED BY <1>4, <1>8, <1>11, <3>3, LineAwaits DEF LineInv, Here, This
  <2> QED BY <1>2, <2>2, <2>3
<1>12. ~Here("lines")
  <2>1. sent # <<>>
    BY <1>1, <1>2, <1>6
  <2> QED BY <1>6, <2>1 DEF LineClient
<1>13. CASE /\ ~(state = "menu" /\ prog = "pop3") /\ ~Here("send") /\ ~Here("read") /\ ~Here("skip")
  <2>1. LineClient'
    BY <1>4, <1>5, <1>12, <1>13 DEF LineClient
  <2> QED BY <1>8, <2>1 DEF LineInv
<1> QED BY <1>10, <1>11, <1>13

\* The server closes: a word of farewell behind what is unread.
LEMMA LineClose == ASSUME Base, ByLine, CloseIdle, LineInv PROVE LineInv'
<1>1. /\ conn = "open" /\ conn' = "ended" /\ sent = <<>> /\ mode \notin Transfers
      /\ UNCHANGED <<client, sent, mode>>
  BY Closed
<1>2. PICK a, b : a = Len(inbox) /\ b = Len(inbox')
  OBVIOUS
<1>3. /\ a \in Nat /\ b \in Nat /\ a <= b
      /\ \A i \in 1..a : inbox'[i] = inbox[i]
      /\ \A i \in a+1..b : inbox'[i].code = "421" /\ inbox'[i].part = "all"
  <2>1. a \in Nat
    BY <1>2 DEF Base, TypeOK, NetworkOK
  <2>2. CASE inbox' = inbox
    BY <1>2, <2>1, <2>2
  <2>3. CASE /\ Len(inbox') = Len(inbox) + 1
             /\ \A i \in 1..Len(inbox) : inbox'[i] = inbox[i]
             /\ OnePart(inbox'[Len(inbox) + 1], FALSE, "421")
    <3>1. b = a + 1 /\ inbox'[a + 1].code = "421" /\ inbox'[a + 1].part = "all"
      BY <1>2, <2>3 DEF OnePart
    <3> QED BY <1>2, <2>1, <2>3, <3>1
  <2> QED BY <2>2, <2>3, Closed
<1>4. (\A do : Here(do)' = Here(do)) /\ This' = This /\ state' = state /\ prog' = prog
  BY <1>1, Here0 DEF client
<1>5. NextLines' = NextLines
  BY <1>1, <1>4 DEF NextLines, client
<1>6. ASSUME NEW m \in Nat \ {0}, Goodbyes(m) PROVE Goodbyes(m)'
  BY <1>2, <1>3, <1>6 DEF Goodbyes
<1>7. ASSUME NEW m \in Nat \ {0}, Listed(m) PROVE Listed(m)'
  <2>1. PICK d \in m..a :
          (\A k \in m..d : inbox[k].eol /\ (inbox[k].code = "." <=> k = d)) /\ Goodbyes(d + 1)
    BY <1>2, <1>7 DEF Listed
  <2>2. \A k \in m..d : k \in 1..a
    BY <1>3
  <2>3. \A k \in m..d : inbox'[k].eol /\ (inbox'[k].code = "." <=> k = d)
    BY <1>3, <2>1, <2>2
  <2>4. d \in m..Len(inbox') /\ d + 1 \in Nat \ {0}
    BY <1>2, <1>3
  <2> QED BY <1>6, <2>1, <2>3, <2>4 DEF Listed
<1>8. ASSUME NEW n \in 1..a, Replied(n) PROVE n \in 1..Len(inbox') /\ Replied(n)'
  <2>1. n \in 1..Len(inbox') /\ 1 \in 1..a /\ n + 1 \in Nat \ {0} /\ n <= Len(inbox')
    BY <1>2, <1>3
  <2>2. inbox'[1] = inbox[1] /\ inbox'[n] = inbox[n]
    BY <1>3, <2>1
  <2>3. Block(1, n)'
    BY <1>8, <2>1, <2>2 DEF Replied, Block
  <2> QED BY <1>5, <1>6, <1>7, <1>8, <2>1, <2>2, <2>3 DEF Replied
<1>9. LineServer /\ LineClient /\ Len(<<>>) = 0
  BY DEF LineInv
<1>10. LineServer'
  BY <1>1, <1>9 DEF LineServer, Idle
<1>11. Clear => Clear'
  BY <1>1, <1>6 DEF Clear
<1>12. Awaited => Awaited'
  BY <1>1, <1>2, <1>6, <1>8 DEF Awaited, Asked
<1>13. Goodbyes(1) \/ Listed(1) => Goodbyes(1)' \/ Listed(1)'
  BY <1>6, <1>7
<1>14. LineClient'
  BY <1>1, <1>4, <1>9, <1>11, <1>12, <1>13 DEF LineClient
<1> QED BY <1>10, <1>14 DEF LineInv

LEMMA LineWelcome ==
  /\ Script("mail", "start")[2].do = "read" /\ Script("pop3", "start")[2].do = "read"
  /\ Script("toolkit", "pop3")[3].do = "skip" /\ Script("fulltest", "start")[42].do = "skip"
  BY MailScript, MoreScripts, Parts

LEMMA LineArrivals ==
  Script("toolkit", "pop3")[2].do = "connect" /\ Script("fulltest", "start")[41].do = "connect"
  BY MoreScripts, Parts

\* Such a client connects once, too.
LEMMA LineConnect == ASSUME Base, ConnectTo, ByLine' PROVE LineInv'
<1>1. state = "running" /\ This.do = "connect" /\ prog' = prog /\ op' = op
  BY DEF ConnectTo, Here, This, Go, Fail
<1>2. ~ByLine
  <2>1. ASSUME ByLine PROVE FALSE
    <3>1. LineStep(prog, op, at)
      BY <1>1, <2>1, LinePlaced
    <3>2. This.do # "connect"
      BY <3>1 DEF LineStep, LineStepOf, This
    <3> QED BY <1>1, <3>2
  <2> QED BY <2>1
<1>3. /\ Go /\ conn' = "open" /\ mode' = "ready"
      /\ sent' = <<[cmd |-> "connect", own |-> TRUE]>> /\ inbox' = <<>>
  <2>1. ~(Fail /\ UNCHANGED <<peer, conn, sent, inbox, mode, data>>)
    BY <1>2 DEF Fail, ByLine
  <2> QED BY <2>1 DEF ConnectTo
<1>4. at' = at + 1 /\ at \in Nat \ {0}
  BY <1>3 DEF Go, Base, TypeOK, ProgramOK
<1>5. \/ prog = "mail" /\ op = "start" /\ at = 1
      \/ prog = "pop3" /\ op = "start" /\ at = 1
      \/ prog = "toolkit" /\ op = "pop3" /\ at = 2
      \/ prog = "fulltest" /\ op = "start" /\ at = 41
  <2>1. CASE prog = "mail"
    BY <1>1, <2>1, MailSteps
  <2>2. CASE prog = "pop3"
    <3>1. ~Joined("pop3", op, at)
      BY <1>2, <2>2 DEF Base, AtHost, Host, ByLine
    <3> QED BY <1>4, <2>2, <3>1 DEF Joined
  <2>3. CASE prog = "toolkit" /\ op = "pop3" /\ at' >= 3
    BY <1>2, <1>4, <2>3 DEF ByLine, Base, AtHost, Joined, Host
  <2>4. CASE prog = "fulltest" /\ at' >= 42
    <3>1. at = 41
      BY <1>2, <1>4, <2>4 DEF ByLine, Base, AtHost, Joined, Host
    <3> QED BY <1>1, <2>4, <3>1, OneOperation
  <2> QED BY <1>1, <2>1, <2>2, <2>3, <2>4 DEF ByLine
<1>6. at < Steps(prog, op)
  BY <1>5, LongScripts
<1>7. state' = "running" /\ This' = Script(prog, op)[at + 1]
  BY <1>1, <1>3, <1>6, Turned
<1>8. This'.do \in {"read", "skip"}
  BY <1>5, <1>7, LineWelcome
<1>9. PICK e : e = [cmd |-> "connect", own |-> TRUE] /\ e.cmd = "connect" /\ e.own
  BY OwnCommand
<1>10. sent' # <<>> /\ Len(sent') = 1 /\ sent'[1] = e
  <2>1. sent' = <<e>>
    BY <1>3, <1>9
  <2> QED BY <2>1
<1>11. Awaited'
  BY <1>3, <1>9, <1>10 DEF Awaited, Asked
<1>12. LineServer'
  <2>1. ~Unread("421")'
    BY <1>3 DEF Unread
  <2>2. \A k \in 1..Len(sent') : sent'[k].cmd = "QUIT" => k = Len(sent')
    BY <1>10
  <2>3. Idle'
    BY <1>3 DEF Idle, Transfers
  <2> QED BY <1>3, <2>1, <2>2, <2>3 DEF LineServer
<1> QED BY <1>7, <1>8, <1>11, <1>12, LineAwaits DEF LineInv

LEMMA LineBefore ==
  ASSUME Base, [Next]_vars, ~ConnectTo, ByLine'
  PROVE  ByLine /\ (Choose => prog = "pop3")
<1>1. CASE UNCHANGED vars
  BY <1>1, Zenon DEF vars, client, server, ByLine, Choose
<1>2. CASE Choose
  <2>1. HasMenu /\ at' = 1 /\ prog' = prog /\ peer' = peer
    BY <1>2 DEF Choose, Begin, Base, Results
  <2>2. prog # "mail"
    BY <2>1, Menus DEF HasMenu
  <2>3. prog = "pop3"
    BY <2>1, <2>2 DEF ByLine
  <2> QED BY <2>1, <2>3 DEF ByLine
<1>3. CASE Server
  BY <1>3, Zenon DEF Server, Answer, EndTransfer, CloseIdle, client, ByLine, Choose
<1>4. CASE Client
  <2>1. /\ state = "running" /\ peer' = peer /\ prog' = prog /\ op' = op /\ (at' = at \/ at' = at + 1)
        /\ This.do # "connect" \/ at' = at
    <3>1. ResolveName \/ SendOn \/ ReadReply \/ ReadLines \/ EnterPassive \/ ReceivePage
          \/ CreateFile \/ FetchData \/ UploadNothing
      BY <1>4 DEF Client
    <3>2. state = "running" /\ peer' = peer /\ This.do # "connect"
      BY <3>1 DEF ResolveName, SendOn, ReadReply, ReadLines, EnterPassive, ReceivePage, CreateFile,
                  FetchData, UploadNothing, Here, This
    <3>3. prog' = prog /\ op' = op /\ (at' = at \/ at' = at + 1)
      BY <3>1 DEF ResolveName, SendOn, ReadReply, ReadLines, EnterPassive, ReceivePage, CreateFile,
                  FetchData, UploadNothing, Go, Fail, Stay, GoOr
    <3> QED BY <3>2, <3>3
  <2>2. ~Choose /\ at \in Nat
    BY <2>1 DEF Choose, Base, TypeOK, ProgramOK
  <2>3. CASE at' = at
    BY <2>1, <2>2, <2>3 DEF ByLine
  <2>4. CASE at' = at + 1 /\ This.do # "connect"
    <3>1. ~(prog = "toolkit" /\ op = "pop3" /\ at = 2) /\ ~(prog = "fulltest" /\ at = 41)
      BY <2>1, <2>4, OneOperation, LineArrivals DEF This
    <3> QED BY <2>1, <2>2, <2>4, <3>1 DEF ByLine
  <2> QED BY <2>1, <2>3, <2>4
<1> QED BY <1>1, <1>2, <1>3, <1>4 DEF Next, Rest

LEMMA LineOffers ==
  \A o \in {"stat", "list", "retr", "quit"} :
    Script("pop3", o)[1].do = "send" /\ Script("pop3", o)[1].what # "text"
  BY MoreScripts, Parts

\* The user of pop3_client.c goes on.
LEMMA LineChoose ==
  ASSUME Base, Choose, prog = "pop3", peer = "pop3", LineInv
  PROVE  LineInv'
<1>1. PICK o \in DOMAIN Menu[prog] :
        Begin(o) /\ state' = IF o = "quit" /\ Menu[prog][o] = <<>> THEN "over" ELSE "running"
  BY DEF Choose
<1>2. /\ state = "menu" /\ sent' = Old(sent) /\ inbox' = Old(inbox) /\ UNCHANGED <<prog, mode, conn>>
      /\ op' = o /\ at' = 1
  BY <1>1 DEF Choose, Begin
<1>3. This' = Script("pop3", o)[1] /\ o \in {"stat", "list", "retr", "quit"}
  BY <1>1, <1>2, Menus DEF This
<1>4. This'.do = "send" /\ This'.what # "text"
  BY <1>3, LineOffers
<1>5. Clear /\ LineServer /\ sent \in Seq(Commands) /\ inbox \in Seq(Pieces) /\ Len(<<>>) = 0
  BY <1>2 DEF LineInv, LineClient, Base, TypeOK, NetworkOK
<1>6. Len(sent) = 0
  <2>1. ASSUME NEW k \in 1..Len(sent) PROVE FALSE
    <3>1. sent[k].cmd = "text" /\ sent[k].cmd \in Understood("pop3")
      BY <1>5, <2>1 DEF Clear, Base, Connected
    <3> QED BY <3>1, LineCodes
  <2>2. Len(sent) \in Nat
    BY <1>5
  <2>3. ASSUME Len(sent) # 0 PROVE FALSE
    <3>1. 1 \in 1..Len(sent)
      BY <2>2, <2>3
    <3> QED BY <2>1, <3>1
  <2> QED BY <2>3
<1>7. sent' = <<>>
  <2>1. sent' \in Seq(Commands) /\ Len(sent') = 0
    BY <1>2, <1>5, <1>6, OldCommands
  <2> QED BY <2>1
<1>8. /\ Len(inbox') = Len(inbox)
      /\ \A i \in 1..Len(inbox) : inbox'[i].code = inbox[i].code /\ inbox'[i].part = inbox[i].part
  BY <1>2, <1>5, OldPieces
<1>9. Clear'
  BY <1>5, <1>7, <1>8 DEF Clear, Goodbyes
<1>10. LineServer'
  BY <1>2, <1>5, <1>7, <1>8 DEF LineServer, Idle, Unread
<1> QED BY <1>4, <1>9, <1>10, LineSettled DEF LineInv

\* The clients that read by lines, over all steps.
LEMMA OwnLineNext ==
  ASSUME Base, Mail, OwnLine, [Next]_vars
  PROVE  OwnLine'
<1> SUFFICES ASSUME ByLine', InCount' PROVE LineInv'
  BY DEF OwnLine, LineInv
<1>1. CASE ConnectTo
  BY <1>1, LineConnect
<1>2. CASE ~ConnectTo
  <2>1. ByLine /\ (Choose => prog = "pop3")
    BY <1>2, LineBefore
  <2>2. InCount
    <3>1. CASE Choose
      BY <2>1, <3>1 DEF Choose, InCount, Excuses, ByLine
    <3>2. CASE ~Choose
      BY <1>2, <3>2, CountLost
    <3> QED BY <3>1, <3>2
  <2>3. LineInv
    BY <2>1, <2>2 DEF OwnLine, LineInv
  <2>4. CASE UNCHANGED vars
    <3>1. UNCHANGED client /\ UNCHANGED <<sent, inbox, mode, conn>>
      BY <2>4 DEF vars, server
    <3>2. (\A do : Here(do)' = Here(do)) /\ This' = This /\ state' = state /\ prog' = prog
      BY <3>1, Here0 DEF client
    <3>3. NextLines' = NextLines
      BY <3>1, <3>2 DEF NextLines, client
    <3>4. LineServer' = LineServer /\ Clear' = Clear /\ Goodbyes(1)' = Goodbyes(1) /\ Listed(1)' = Listed(1)
      BY <3>1 DEF LineServer, Clear, Idle, Unread, Goodbyes, Listed
    <3>5. Awaited' = Awaited
      BY <3>1, <3>3 DEF Awaited, Asked, Replied, Block, Goodbyes, Listed
    <3> QED BY <2>3, <3>1, <3>2, <3>4, <3>5 DEF LineInv, LineClient
  <2>5. CASE Choose
    BY <2>1, <2>3, <2>5, LineChoose DEF ByLine
  <2>6. CASE Server
    <3>1. ~EndTransfer
      BY <2>3 DEF EndTransfer, LineInv, LineServer, Idle, Transfers
    <3> QED BY <2>1, <2>3, <2>6, <3>1, LineAnswer, LineClose DEF Server
  <2>7. CASE Client
    <3>1. SendOn \/ ReadReply \/ ReadLines
      BY <2>1, <2>7, OnlyLine
    <3> QED BY <2>1, <2>3, <3>1, LineSend, LineHear, LineList
  <2> QED BY <2>4, <2>5, <2>6, <2>7 DEF Next, Rest
<1> QED BY <1>1, <1>2
----------------------------------------------------------------------------
(* Whoever waits for an answer is one of these.                            *)

Waits(do) == do \in {"read", "skip", "enter"}
Reader(p, o, i) ==
  Waits(Script(p, o)[i].do) => FtpAt(p, o, i) \/ LineAt(p, o, i) \/ p = "dotmail"

LEMMA NoReaders ==
  /\ ~Waits(Script("ftp", "start")[1].do) /\ ~Waits(Script("mail", "start")[1].do)
  /\ ~Waits(Script("pop3", "start")[1].do)
  /\ \A k \in 1..3 : ~Waits(Script("toolkit", "dns")[k].do)
  /\ \A k \in 1..6 : ~Waits(Script("toolkit", "http")[k].do)
  /\ \A k \in 1..10 : ~Waits(Script("toolkit", "smtp")[k].do)
  /\ \A k \in 1..2 : ~Waits(Script("toolkit", "ftp")[k].do) /\ ~Waits(Script("toolkit", "pop3")[k].do)
  /\ \A k \in 1..11 : ~Waits(Script("fulltest", "start")[k].do)
  /\ \A k \in 30..41 : ~Waits(Script("fulltest", "start")[k].do)
<1>1. ~Waits(Script("ftp", "start")[1].do) /\ ~Waits(Script("mail", "start")[1].do)
  BY FtpScripts, MailScript, Parts DEF Waits
<1>2. ~Waits(Script("pop3", "start")[1].do)
  BY MoreScripts, Parts DEF Waits
<1>3. \A k \in 1..3 : ~Waits(Script("toolkit", "dns")[k].do)
  BY MoreScripts, Parts DEF Waits
<1>4. \A k \in 1..6 : ~Waits(Script("toolkit", "http")[k].do)
  BY MoreScripts, Parts DEF Waits
<1>5. \A k \in 1..10 : ~Waits(Script("toolkit", "smtp")[k].do)
  BY MoreScripts, Parts DEF Waits
<1>6. \A k \in 1..2 : ~Waits(Script("toolkit", "ftp")[k].do)
  BY ToolScripts, Parts DEF Waits
<1>7. \A k \in 1..2 : ~Waits(Script("toolkit", "pop3")[k].do)
  BY MoreScripts, Parts DEF Waits
<1>8. \A k \in 1..10 : ~Waits(Script("fulltest", "start")[k].do)
  BY MoreScripts, Parts DEF Waits
<1>9. ~Waits(Script("fulltest", "start")[11].do) /\ ~Waits(Script("fulltest", "start")[30].do)
  BY ToolScripts, Parts DEF Waits
<1>10. \A k \in 31..41 : ~Waits(Script("fulltest", "start")[k].do)
  BY MoreScripts, Parts DEF Waits
<1> QED BY <1>1, <1>2, <1>3, <1>4, <1>5, <1>6, <1>7, <1>8, <1>9, <1>10

LEMMA Readers ==
  ASSUME NEW p \in Programs, NEW o \in Operations(p), NEW i \in 1..Len(Script(p, o))
  PROVE  Reader(p, o, i)
<1>1. Fine(p, o) /\ i \in 1..Steps(p, o)
  BY Lengths DEF Steps
<1>2. i \in Nat /\ i >= 1 /\ i <= Steps(p, o)
  BY <1>1 DEF Fine, Steps
<1>3. CASE p \in {"ftp", "mail", "pop3"}
  <2>2. p = "mail" => o = "start" \/ (o = "quit" /\ Script("mail", "quit") = <<>>)
    BY Menus DEF Operations, Script, Menu, NoMenu
  <2>3. ~(p = "mail" /\ o = "quit")
    BY <1>1, <2>2 DEF Steps
  <2>4. i = 1 \/ i >= 2
    BY <1>2
  <2> QED BY <1>3, <2>2, <2>3, <2>4, NoReaders DEF Reader, FtpAt, LineAt
<1>4. CASE p = "toolkit"
  <2>3. o \in {"start", "dns", "http", "ftp", "smtp", "pop3", "quit"}
    BY <1>4, Menus, Zenon DEF Operations
  <2>4. Script("toolkit", "start") = <<>> /\ Script("toolkit", "quit") = <<>>
    BY DEF Script, Start, Menu, ToolMenu
  <2>5. o # "start" /\ o # "quit"
    BY <1>1, <1>4, <2>4 DEF Steps
  <2>6. i \in 1..2 \/ i >= 3
    BY <1>2
  <2>7. CASE o \in {"dns", "http", "smtp"}
    BY <1>1, <1>4, <2>7, LongScripts, NoReaders DEF Reader
  <2>8. CASE o \in {"ftp", "pop3"}
    BY <1>4, <2>6, <2>8, NoReaders DEF Reader, FtpAt, LineAt
  <2> QED BY <2>3, <2>5, <2>7, <2>8
<1>5. CASE p = "fulltest"
  <2>3. o \in {"start", "quit"}
    BY <1>5, Menus, Zenon DEF Operations
  <2>4. Script("fulltest", "quit") = <<>>
    BY DEF Script, Menu, NoMenu
  <2>5. o = "start"
    BY <1>1, <1>5, <2>3, <2>4 DEF Steps
  <2>6. i \in 1..11 \/ i \in 12..29 \/ i \in 30..41 \/ i >= 42
    BY <1>2
  <2> QED BY <1>5, <2>5, <2>6, NoReaders DEF Reader, FtpAt, LineAt
<1>6. CASE p = "dotmail"
  BY <1>6 DEF Reader
<1> QED BY <1>3, <1>4, <1>5, <1>6, Menus, Zenon

LEMMA Waiting ==
  ASSUME Base, Here("read") \/ Here("enter") \/ Here("skip")
  PROVE  AtFtp \/ ByLine \/ prog = "dotmail"
<1>1. state = "running" /\ Waits(Script(prog, op)[at].do)
  BY DEF Here, Waits
<1>2. prog \in Programs /\ op \in Operations(prog) /\ Fine(prog, op) /\ at \in 1..Len(Script(prog, op))
  BY <1>1, Lengths DEF Base, TypeOK, ProgramOK, Fine
<1>3. FtpAt(prog, op, at) \/ LineAt(prog, op, at) \/ prog = "dotmail"
  BY <1>1, <1>2, Readers DEF Reader
<1>4. at \in Nat
  BY DEF Base, TypeOK, ProgramOK
<1>5. FtpAt(prog, op, at) => peer = "ftp"
  BY <1>4 DEF FtpAt, Base, AtHost, Joined, Host
<1>6. LineAt(prog, op, at) => peer = IF prog = "mail" THEN "smtp" ELSE "pop3"
  <2>1. prog = "mail" => op = "start"
    BY <1>1, MailSteps
  <2> QED BY <1>4, <2>1 DEF LineAt, Base, AtHost, Joined, Host
<1> QED BY <1>3, <1>5, <1>6 DEF AtFtp, ByLine, FtpAt, LineAt
----------------------------------------------------------------------------
OwnInv == RealInv /\ OwnFtp /\ OwnLine

LEMMA OwnInit == Init => OwnFtp /\ OwnLine
<1> SUFFICES ASSUME Init PROVE OwnFtp /\ OwnLine
  OBVIOUS
<1>1. peer = "none"
  BY DEF Init
<1> QED BY <1>1 DEF OwnFtp, OwnLine, AtFtp, ByLine

\* The inductive invariant behind OwnReply: what is unread of a client in count is the
\* answer that it waits for.
THEOREM OwnInvariant == Spec => []OwnInv
<1>1. Init => OwnFtp /\ OwnLine
  BY OwnInit
<1>2. RealInv /\ OwnFtp /\ OwnLine /\ [Next]_vars => (OwnFtp /\ OwnLine)'
  BY OwnFtpNext, OwnLineNext DEF RealInv
<1>3. RealInv /\ OwnFtp /\ OwnLine <=> OwnInv
  BY DEF OwnInv
<1> QED BY RealInvariant, <1>1, <1>2, <1>3, PTL DEF Spec

\* OwnReply: an operation is answered by its own replies, or by the word of farewell,
\* as long as the client has read every reply whole and alone (ftp_client.c:19).
THEOREM OwnReplyHolds == Spec => OwnReply
<1>1. ASSUME OwnInv, InCount, Here("read") \/ Here("enter") \/ Here("skip"), Len(inbox') < Len(inbox)
      PROVE  inbox[1].own \/ inbox[1].code = "421"
  <2>1. Base /\ OwnFtp /\ OwnLine /\ prog # "dotmail"
    BY <1>1 DEF OwnInv, RealInv, InCount
  <2>2. AtFtp \/ ByLine
    BY <1>1, <2>1, Waiting
  <2>3. 1 \in 1..Len(inbox)
    <3>1. Len(inbox) \in Nat /\ Len(inbox') \in Nat
      BY <2>1 DEF Base, TypeOK, NetworkOK
    <3> QED BY <1>1, <3>1
  <2>4. CASE AtFtp
    <3>1. Mine
      BY <1>1, <2>1, <2>4 DEF OwnFtp, Expecting, Mine
    <3> QED BY <2>3, <3>1 DEF Mine
  <2>5. CASE ByLine
    <3>1. LineClient
      BY <1>1, <2>1, <2>5 DEF OwnLine, LineInv, LineClient
    <3>2. Awaited \/ Here("enter")
      BY <1>1, <3>1 DEF LineClient
    <3>3. ~Here("enter")
      <4>1. state = "running" => LineStep(prog, op, at)
        BY <2>1, <2>5, LinePlaced
      <4> QED BY <4>1 DEF LineStep, LineStepOf, Here
    <3>4. inbox # <<>>
      <4>1. Len(<<>>) = 0
        OBVIOUS
      <4> QED BY <2>3, <4>1
    <3> QED BY <2>3, <3>2, <3>3, <3>4 DEF Awaited, Asked, Replied, Goodbyes
  <2> QED BY <2>2, <2>4, <2>5
<1> QED BY OwnInvariant, <1>1, PTL DEF OwnReply
=============================================================================
