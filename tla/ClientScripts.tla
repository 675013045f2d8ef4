--------------------------- MODULE ClientScripts ---------------------------
(* What the clients of outside servers do: FTP/ftp_client.c,               *)
(* SMTP/smtp_client.c, POP3/pop3_client.c, network-toolkit-lab/src.        *)
(* An operation is a sequence of steps; the first one that fails ends it   *)
(* with an error, as the early returns of the functions do.                *)
EXTENDS Sequences

Step(do, what, ok, unset) == [do |-> do, what |-> what, ok |-> ok, unset |-> unset]

Send(cmd)      == Step("send", cmd, "", FALSE)
Read(code)     == Step("read", "", code, FALSE)
\* The code is read into a variable nothing was assigned to: without a reply it is anything.
ReadNew(code)  == Step("read", "", code, TRUE)
Skip           == Step("skip", "", "", FALSE)           \* a reply is read, not judged
Lines          == Step("lines", "", "", FALSE)          \* lines up to a dot
Connect(host)  == Step("connect", host, "", FALSE)
Resolve(host)  == Step("resolve", host, "", FALSE)
Enter          == Step("enter", "", "227", FALSE)       \* the reply to PASV, and connect()
Fetch          == Step("fetch", "", "", FALSE)          \* the data connection, to its end
Create(policy) == Step("create", policy, "", FALSE)     \* open() of a local file
Upload         == Step("upload", "", "", FALSE)
Receive        == Step("http", "", "", FALSE)     \* one recv() of a page

Ask(cmd, code)    == <<Send(cmd), Read(code)>>
AskNew(cmd, code) == <<Send(cmd), ReadNew(code)>>
----------------------------------------------------------------------------
(* FTP/ftp_client.c *)

FtpConnect == <<Connect("ftp"), Skip>>
FtpLogin   == AskNew("USER", "331") \o Ask("PASS", "230")
FtpPasv    == <<Send("PASV"), Enter>>

\* Wrong: the end of a transfer is not waited for.
NotAwaited == <<>>
\* Wrong: any end of a transfer is a good one.
NotChecked == <<Skip>>
Completed  == <<Read("226")>>

FtpList   == FtpPasv \o AskNew("LIST", "150") \o <<Fetch>> \o Completed
FtpGet    == FtpPasv \o AskNew("RETR", "150") \o <<Create("checked"), Fetch>> \o Completed
FtpPut    == FtpPasv \o AskNew("STOR", "150") \o <<Upload>> \o Completed
FtpDelete == AskNew("DELE", "250")
FtpCwd    == <<Send("CWD"), Skip>>
FtpMenu   == [list |-> FtpList, get |-> FtpGet, put |-> FtpPut, delete |-> FtpDelete,
              cd |-> FtpCwd, quit |-> <<>>]
----------------------------------------------------------------------------
(* SMTP/smtp_client.c: the lines of the mail are sent as they are. *)

SmtpConnect == <<Connect("smtp"), Read("220")>>
SmtpHeader  == <<Send("text")>>
SmtpBody(lines) == [i \in DOMAIN lines |-> Send(lines[i])] \o Ask(".", "250")
SmtpMain(lines) ==
  SmtpConnect \o Ask("HELO", "250") \o Ask("MAIL", "250") \o Ask("RCPT", "250")
    \o Ask("DATA", "354") \o SmtpHeader \o SmtpBody(lines) \o Ask("QUIT", "221")
----------------------------------------------------------------------------
(* POP3/pop3_client.c *)

Pop3Connect == <<Connect("pop3"), Read("+OK")>>
Pop3Login   == <<Send("USER"), Skip>> \o AskNew("PASS", "+OK")
Pop3Menu    == [stat |-> AskNew("STAT", "+OK"),
                list |-> AskNew("LIST", "+OK") \o <<Lines>>,
                retr |-> AskNew("RETR", "+OK") \o <<Lines>>,
                quit |-> <<Send("QUIT"), Skip>>]
----------------------------------------------------------------------------
(* network-toolkit-lab/src: a menu, or all tests in a row *)

ToolDns   == <<Resolve("http"), Resolve("ftp"), Resolve("smtp")>>
ToolHttp  == <<Resolve("http"), Connect("http"), Send("GET"), Send("Host"), Send("end"), Receive>>
ToolLogin == <<Skip>> \o AskNew("USER", "331") \o Ask("PASS", "230")
ToolPasv  == <<Send("PASV"), Enter>>
ToolList  == ToolPasv \o AskNew("LIST", "150") \o <<Fetch>> \o Completed
ToolGet   == ToolPasv \o AskNew("RETR", "150") \o <<Create("unchecked"), Fetch>> \o Completed
ToolFtp   == <<Resolve("ftp"), Connect("ftp")>> \o ToolLogin \o ToolList \o ToolGet
\* Everything is sent; nothing is read.
ToolReport == <<Connect("smtp"), Send("HELO"), Send("MAIL"), Send("RCPT"), Send("DATA"),
                Send("text"), Send("text"), Send("."), Send("QUIT")>>
ToolSmtp   == <<Resolve("smtp")>> \o ToolReport
ToolEmail  == <<Connect("pop3"), Skip, Send("USER"), Skip, Send("PASS"), Skip,
                Send("RETR"), Skip, Lines, Send("QUIT")>>
ToolPop3   == <<Resolve("pop3")>> \o ToolEmail
ToolMenu   == [dns |-> ToolDns, http |-> ToolHttp, ftp |-> ToolFtp, smtp |-> ToolSmtp,
               pop3 |-> ToolPop3, quit |-> <<>>]
TestAll    == ToolDns \o ToolHttp \o ToolFtp \o ToolSmtp \o ToolPop3
----------------------------------------------------------------------------
(* What main() does before its menu, and the menu. A mail of one line, and *)
(* one in which a line is a single dot, stand for all mails.               *)

NoMenu == [quit |-> <<>>]
Start == [ftp |-> FtpConnect \o FtpLogin, mail |-> SmtpMain(<<"text">>),
          dotmail |-> SmtpMain(<<".", "text">>), pop3 |-> Pop3Connect \o Pop3Login,
          toolkit |-> <<>>, fulltest |-> TestAll]
Menu  == [ftp |-> FtpMenu, mail |-> NoMenu, dotmail |-> NoMenu, pop3 |-> Pop3Menu,
          toolkit |-> ToolMenu, fulltest |-> NoMenu]
Programs == DOMAIN Start

Script(p, o) == IF o = "start" THEN Start[p] ELSE Menu[p][o]
=============================================================================
