# A TLA+ verification of IT4060

The repository is the coursework of a network-programming class: C programs, one or two
files each, that share no code. What they have in common is what makes them hard to test:
several peers in an order nobody chose, streams that keep no message boundaries, datagrams
that vanish or come twice, tables whose entries are freed and used again, and peers that
are stopped in the middle of something. The modules here describe those programs, TLC
checks them on small instances, and TLAPS proves the main invariants for all.

Paths are relative to `src/`. Line numbers in a module are those of its main source file
unless another is named.

## 1. Inventory

Each component is a server with its clients, or a client of an outside server. Components
do not call one another; within one they interact through sockets only.

| Component | State | Operations | Model |
|---|---|---|---|
| Tic-tac-toe, `Chuong 7/{server,client}.c`, `tictactoe.h` | server: board, turn, two connections; client: its copy of the board and its number | accept two players, notify READY / TURN / STATE / RESULT, read a MOVE in two parts, `check()`; client: react to each message, choose a cell | `TicTacToeBoard`, `TicTacToe`, `TicTacToeGame` |
| `poll()` event server, `Chuong 5/sample/ex_poll_server.c` | `fds`, `addrs`, `nfds`, `g_stop` | poll, accept until there is none, refuse, receive until there is nothing, `remove_fd()`, `on_sigint()`, clean up | `PollServer` |
| UDP greeting, `Chuong 6/{serv,cli}.c` | table of addresses and times, `maxi`; client: what is left of its time limit | receive, greet, say goodbye, refuse, expire; client: hello, wait, reply, wait, give up | `UdpGreeting`, `UdpSessions` |
| Chat, `Chuong 5/thuchanh/{serv,cli}.c` | `fds`, `names`, `sz` | poll, accept one, refuse, take the name, broadcast, remove, fail; client: name, lines | `Chat` |
| `select()` echo, `Chapter 5/{tcpserv01,tcpcli01}.c` | `client[]`, `maxi`, `allset`; client: `stdineof` | select, accept, answer, close; client: `str_cli()` with half-close | `Echo` |
| Quiz, `Chuong 4/thuchanh/bai2_{serv,cli}.c` | none in the parent; a child per client | accept, fork, close; ten questions, answers and verdicts | `ForkServer`, `ForkHandlers` |
| Registration, `Ontap/Bai1/{server,client}.c` | none in the parent; a child per client | accept, fork, close, collect children; one line, one answer | `ForkServer`, `ForkHandlers` |
| HTTP server, `HTTP/{server,http}.c` | a child per request; `post_data.txt`, `put_data.txt` | accept, fork, close, collect children; request line, headers, body, answer | `ForkServer`, `ForkHandlers` |
| FTP client, `FTP/ftp_client.c` | control and data connection | login, PASV, LIST, RETR, STOR, DELE, CWD | `ClientScripts`, `Clients` |
| SMTP client, `SMTP/smtp_client.c` | one connection | HELO, MAIL, RCPT, DATA, the mail, QUIT | `ClientScripts`, `Clients` |
| POP3 client, `POP3/pop3_client.c` | one connection | USER, PASS, STAT, LIST, RETR, QUIT | `ClientScripts`, `Clients` |
| `network-toolkit-lab/src` | one connection after another, `ip_str` | a menu, or all in a row: DNS, HTTP, FTP, SMTP, POP3 | `ClientScripts`, `Clients` |
| DNS client, `DNS/{dns,main}.c` | a query and its answer | encode a name, ask, wait, skip names, read records | `DnsClient` |
| `select()` servers, `Chuong 5/sample/{single-process-select-server,select-server,select-client}.c` | `client_sockets[]`; one connection and stdin | accept into a free entry or none, answer, free | not modelled |
| `poll()` exercise, `Chapter 6/poll_ex.c` | `client[]`, `maxi` | accept, read, free | not modelled |
| Small exercises (`Chapter 3`, `4`, `7`, `Chuong 2`, `3`, `lythuyet`, ...) | none | single calls of the socket API | not modelled |

### What is hard, and what makes each component correct

*Tic-tac-toe.* The server trusts every MOVE; a client checks a move against a copy of the
board that trails the server's. That no mark is overwritten and that the boards agree rests
on the order of messages. Either client can be stopped between any two of its sends, and
the server notices only when it next reads from it or sends to it. Correct means: one
player moves at a time, boards agree up to what is on its way, verdicts fit each other, and
a player who is left is not left waiting.

*poll() event server.* Connections come, send, close and reset in any order while the loop
moves entries about in its own table; a signal may come between the test of `g_stop` and
the call that sleeps. Correct means: table and connections match, data is printed once and
under the right address, nothing is closed under a live peer, everyone is served unless a loop inside a
turn is kept from ending.

*UDP greeting.* The server decides by the sender of a datagram alone, the network
loses, delays, reorders and copies, two time limits run against each other, and two
searches of one table have different ends. Correct means: no client has two entries or one
that cannot be found, the table behaves as a bounded set of sessions, entries are freed and
waiting ends, and without faults the conversation is the documented one.

*Chat.* Entries and names are moved together when a client leaves; sockets block, so one
read may hold up all; a send to someone who has gone ends the server. Correct means: table,
names and connections match, everyone hears everything once, and only a client that has not given
its name can hold up reading.

*Echo.* The client's end of input, its unread answers and the server's end race. Correct
means: a client that ends normally has every answer, and it says that the server died only
when it did.

*Forking servers.* The parent, its signal handler and the children run at once; children
end together; `fork()` may fail; children share files; a child waits for a client that
has gone or sends in pieces. Correct means: every child is collected, every client gets its
answer or sees the end of its connection, and what is stored is what one client sent.

*Clients of outside servers.* The server may refuse, close, or answer in pieces or all at
once, and each client has its own idea of where an answer ends. Correct means: an
answer is taken for the command it belongs to, success is reported only of what was done,
and no operation waits for ever.

*DNS client.* Positions are found by walking over what was received. Correct means: the
name asked for fits its buffer, and what is printed are the addresses in the answer.

*Not modelled.* `single-process-select-server.c`: a connection accepted when the table
is full (line 99) is neither kept nor closed, so its client waits for ever. `poll_ex.c`: the
index is hidden by a declaration in the loop (line 56) and read uninitialised: that program's
table holds whatever it holds.

`PROJECT.json` lists the hazards, each at its line, with the properties aimed at it or the
reason why there is none.

## 2. Modules

All modules model a TCP connection by what its two ends can tell: bytes arrive once and in
order, in portions of any size; an orderly end arrives after the data; a reset is seen after
the data that has arrived; a send to a peer that has gone fails or raises SIGPIPE.
A process that reads or sends is one step per call, or per run of calls with nothing
observable between them. Definitions with a comment that starts "Wrong:" are
plausible mistakes in it, kept to show that a property notices.

**`TicTacToeBoard`**: the board, its lines, and `check()` as written, with the quirk of its
one test for rows and columns. **`TicTacToe`**: server and both clients as processes with a place (`spc`, `cpc`); one action per notification, per part of a MOVE, per client
reaction; `Crash` at any point. A MOVE is two elements of the queue, as it is two sends; a
`recv()` that gets 0 for the payload plays an arbitrary cell, since the struct is
uninitialised (server.c:80). **`TicTacToeGame`**: the game the server promises; `PlaysGame`
is the refinement. **`MCTicTacToe`**: the endgames for the runs with crashes.

**`PollServer`**: the event loop entry by entry. `remove_fd` is the function of the source;
`Accept` leaves `revents` as it finds it, as line 176 does. A connection that was turned away may be tried again
any number of times; one that was accepted is used once. A peer may send for ever: of what it has sent and what was
printed under its address only the difference (`owed`) is kept. `inherited` is a history variable.

**`UdpGreeting`**: server, clients, network and clock. Datagrams to the server are counted
by sender since it looks at nothing else. `Tick` is a second, and may come at any time; `idle`
says that one has passed since the server's last turn, because `select()` has to return 0 before
clients are timed out (line 138). From the addresses in `Regulars` a new client may come whenever
the last one has exited (`Again`), for ever. **`UdpSessions`**: the set of sessions the table stands for;
`KeepsSessions` is the refinement, with `sessions` mapped to the clients in the table.

**`Chat`**: what a client sends is counted, its name first; `heard[d][c]` is how much of `c`
was passed on to `d`. A broadcast is one step per `send()`: `to` is the entry it has reached, `line`
what is being passed on, and a failing send (`SendFails`) ends the server where it is. `unread = 0` with a `revents` left over is a `read()` that blocks: no
action of the server is enabled, until that client sends or goes. `fds` is not initialised by the program, so
`Init` allows any `revents` in it.

**`Echo`**: the server's loop over `client[]`, and each client's `str_cli()`. `link[c]` is
what reaches the server after the data: `eof`, `reset`, or `broken` (a reset after an end,
which `recv()` reports as an end and `send()` by SIGPIPE).

**`ForkServer`**: the parent of three servers: accept, fork, close, and the handler that
`waitpid()`s until there is no one left; any number of SIGCHLDs are one pending signal. The
quiz server has no handler. `limit` is what the system allows of children. **`ForkHandlers`**
adds the children and the clients and composes them with the parent: a client sees the end
of its connection only when parent and child have both closed it (`Closed`). Streams are
sequences of pieces, read in any number; the comma that makes a line of the registration valid may
come in either part. `spin` is the header loop of http.c:107 after the
client has gone. `note` records what happened to a client on the way, for the properties.

**`ClientScripts`**: what six programs do, as sequences of steps (send, read and judge, read
and ignore, connect, fetch, ...). **`Clients`** runs one script after the other, as the menus
do, against a server of the right protocol. A reply is marked `own` while the client has not
sent another command since. The three ways to read are `RawRead` (one `recv()`), `CrlfRead`
(until what came ends a line) and `LineRead` (one line). `sent` and `inbox` are the two
directions of the control connection; `done` is what the server did in this operation.

**`DnsClient`**: one question and one answer, position by position; the names, the
cut, and the old bytes behind a cut message (`junk`) are data of the model.

**`MC*`** modules hold bounds. **`*Proofs`** modules hold theorems.

## 3. Runs

| Run | Question | Bounds | Result |
|---|---|---|---|
| `tictactoe_game` | boards, verdicts, the game, the end | the real 3x3 board, every game | holds |
| `tictactoe_crash` | the same under crashes | both may crash; games up to the third mark, and from the fourth to the end from two endgames | holds |
| `tictactoe_winner` | does `check()` name the owner of a line | every game | violated: finding 1 |
| `poll_server` | table, data, closing, service | 3 peers, 2 entries, one may reset; one chunk unread each (`MaxUnread`), any number sent | holds |
| `udp_network` | table, sessions, conversation | 3 clients, 2 entries, one duplicate, one address used again once nothing from it is under way (`MaxPending`) | holds |
| `udp_time` | does everything end | 2 clients, longer time limits, one address used again for ever | holds |
| `chat` | table, broadcast whole or cut short, reading | 4 clients, 3 entries; two send twice and may leave, two type nothing and stay (`Listeners`) | holds |
| `chat_names` | does each speak under its own name | 2 clients | violated: finding 2 |
| `echo` | table, complete answers, end | 2 clients, two lines each | holds |
| `forks` | children collected, clients answered, files whole | 2 clients of each server, room for one child or two, 2 questions, one client may stop, either may fall silent | holds |
| `clients` | own replies, true reports, ends | 6 programs, every menu choice in any order, 2 pieces unread when the next begins | holds |
| `dns` | names fit, addresses printed | up to 3 labels, a buffer of 9, up to 2 records, up to 20 bytes cut | holds |

*Why these bounds.* The faults these programs can have are about entries: one freed, one
moved into its place or left behind it, one accepted into what was freed. That takes a table of two
and a third client who comes later or finds it full; with three of each only longer
chains of the same moves are added. A broadcast that fails after it has reached someone takes a room
of three, so `chat` has one more of both. Two units of data are the least that can be read
together or one by one. One time unit separates "in time" from "late"; `udp_time` uses two
for the server so that a client's patience can end first. The crash run skips boards of
exactly three marks only by cutting the game there and starting again at four (the constraint
`NotTheThirdMark`): before it all openings are covered, after it two endgames that reach a win
of either player and a tie. `Echo` takes `FD_SETSIZE` as more than the number of its clients plus
four: beyond that the C program has undefined behaviour before it reaches its own test.

In `forks` two children are the least that can end together, share a file, or be
one more than the system allows; a body has two parts so that it can be cut, and two questions
are the least after which a verdict and a question can be taken for one. In `clients` a program that
has lost count stays behind by one answer; `MaxBehind` leaves room for one more to come
meanwhile. An operation is chosen from the menu again and again, so every operation
follows every other. In `dns` the buffer is within the range of the names, records
of each kind come before and after each other, and 20 bytes are more than the last record.

*Fairness.* Servers and clients are processes the system schedules: weak fairness of the steps
they take by themselves. A user is assumed to type in two programs: a player of `TicTacToe` types
a legal cell, and who has begun an operation of `Clients` types what it asks for. In `PollServer`,
`Chat`, `UdpGreeting`, `Echo` and the forking servers nobody is assumed to come, type, send or leave;
what an `Echo` client whose input has ended, or a waiting UDP client, does by itself is all that is
asked of clients there. Time passes (`Tick`). The network owes nothing: no fairness on delivery. In
`forks` one condition for the steps of the server, its children and the clients that read
(`Runnable`) is enough, because the conversations of the model are finite; what a user types, and
when it arrives, is not part of it. In `clients` the outside server answers what it is sent, ends
what it transfers, and closes an idle connection after a time of its own, as the protocols'
servers do; nobody has to make a choice from a menu.

*Deadlock* is checked everywhere: a `Rest` (or `Terminated`) action is enabled exactly where
the program has ended or waits for someone else.

### What the holding properties say

- `OneMover`, `NoOverwrite`, `ViewsFollowBoard`: the order of messages is enough, and the only way a mark is
  overwritten is a player stopped between a header and its payload.
- `PlaysGame`, `VerdictsOpposite`, `BothHearVerdict`, `NoSilentEnd`, `SurvivorReleased`:
  two live players play one game to one pair of fitting verdicts; a silent end has a
  stopped opponent; a survivor sees the end of its connection.
- `TableMatches`, `PrintedAsSent`, `ClosedWhenDone` (`PollServer`): compaction in the
  middle of the loop neither loses, doubles nor mixes connections.
- `Served` (`PollServer`): a turn of the loop contains two loops without a limit, and they are the
  only ways to starve the others. A peer that sends as fast as it is read keeps `recv()` from ever
  failing with EAGAIN (line 205, `Floods`); peers that come back as fast as they are turned away do
  the same to `accept()` (line 149, `Crowds`). In every other behaviour whoever waits is
  accepted or refused and whatever was sent is read, whatever the others do. Without either of the
  two alternatives the property fails.
- `TableSound`, `KeepsSessions`, `PromptGoodbye`, `WaitsEnd`: the different ends of the two
  searches are harmless because an entry is always taken from below, the lowest first.
- `TableDrains`: an entry whose client is gone is freed, even if every datagram of its own is lost,
  unless those of others come so steadily that `select()` never again waits a whole second
  (`Crowded`). Without that alternative the property fails: traffic can keep an entry for ever.
- `HeardByAll` (`Chat`): everybody else in the room hears each line once; when the server
  ends by a failing send (line 94) the entries before that one have heard the last line and the
  others have not.
- `Read` (`Chat`): a read that blocks does so only on a client that has just come and has yet to
  give its name (`WaitsFor`). It holds up everybody until that user types or leaves, which nothing
  obliges the user to do; nothing else holds anybody up for ever. The bound on sends hides no
  other case, because the loop reads each entry at most once in a turn, however much was sent.
- `CompleteEcho`, `DiesOfKilled`, `InputEndsClient` (`Echo`): half-close
  loses no answer while the server lives. It can die, by `recv()` returning -1 and by
  SIGPIPE, but only of clients stopped before they had read everything; a client
  that had ended its input by then takes this for a normal end.

- `Reaped`, `Answered`, `Told` (forking servers): the handler's loop is what makes one
  signal for several children enough. A client without an answer was refused a child by a
  `fork()` that failed, asked with a method the server does not know, or was reset because the
  server closes with something unread. A client that falls silent keeps its own child waiting
  (`Owes`) and nobody else's. What remains excused is named: two of the quiz's
  messages read as one leave both sides waiting (bai2_cli.c:16), a POST without a length reads
  as many bytes as the memory says (http.c:105), and requests that write one file at a time
  mix their bodies (http.c:124). A line of the registration that comes in parts may be answered with
  an error (Ontap/Bai1/server.c:25).
- `OwnReply` (`Clients`): which clients can lose count, and of what. FTP: by one `recv()` that takes half a
  reply or two (ftp_client.c:19), or by giving up with a reply to come (line 172).
  SMTP and POP3: only by an answer longer than the buffer, and SMTP by a
  mail with a line that is a single dot, which is sent as it is (smtp_client.c:230).
- `SuccessIsReal`: an FTP client that has lost count fails its transfers and never
  reports one that did not happen, because the codes 227, 150 and 226 must come in turn. Deleting
  has one code only, and may take another's 250 for its own, or, when there was no reply or only the
  rest of one that was cut, what was in the memory (line 237).
  A mail with a line that is a dot is reported sent although only what precedes that line was.
- `Ends`: all readers see the end of the connection, also those who ignore everything else.
- `Sound` (`DnsClient`): a name never runs over its buffer, and a cut message costs at most one
  address made up from old bytes.

## 4. Findings

1. `Chuong 7/server.c:113`: `check()` returns the mark of row `i` also when it was column
   `i` that matched. The loser can be told that it won, against the comment at line 109.
2. `Chuong 5/thuchanh/serv.c:53`: a new client inherits the name of one that has left.

Other behaviours that the models have and a reader should know of. No run repeats them; where a
property is named, adding it to the run's `.cfg` (with peers that may reset) shows it.

- `ex_poll_server.c:176`: a new connection inherits the `revents` of the entry's former owner
  and may be hung up at once (`KeepsClients`); line 135: Ctrl+C between the test of `g_stop`
  and `poll()` goes unnoticed (`StopsOnInterrupt`).
- `Chuong 6/serv.c:143`: an answer after the time limit is greeted as a new hello
  (`RespondersHearGoodbye`).
- `ftp_client.c:215`: `recv()` on the descriptor of a file fails, so every upload
  stores an empty file and counts as done (`UploadNothing`).
- `http.c:107`: a child whose client has gone in the middle of its headers runs for ever (`spin`).
- `smtp_module.c:18-40`: the toolkit reads no answer; "All test passed!" (main.c:230) says
  nothing of the mail.
- `http_module.c:51`: a page without the end of its header in the first `recv()` is a null pointer.
- `dns.c:137`: the code of an answer is looked at before its number: "no such name" is
  believed from an answer to another question. `main.c:65` takes -1 for an answer. Line 61
  sends a label of more than 63 letters as it is.
- `bai2_serv.c:55`: children are never collected, and `fork()`'s failure never noticed.

## 5. Proofs

TLAPS checks the following for every value of the constants that satisfies the assumptions
named in the modules: that sizes are numbers and subsets are subsets; for `TicTacToe` an odd
size of the board; for `UdpGreeting` that no client is the mark of a free entry; for `Echo` that no client is one of the two marks `client[]` and the
loop need besides (`Nobody`, `Listen`); for `ForkServer` that the clients are finitely many and
none is the mark of a parent that holds no connection; for `DnsClient` that a message has the form of
RFC 1035 (labels of 1 to 63 bytes, words of two), with any number of questions and records and data of any length, and
that the buffer has room for one byte. One theorem has a hypothesis of its own:
`PlaysGameHolds` assumes `MayCrash = {}`, as the run does, because a player stopped between a header
and its payload plays an arbitrary cell.

- `TicTacToeProofs`: `SafetyInvariant`, from which `TypeCorrect`, `OneMoverHolds` and
  `NoOverwriteHolds`. `OneMover` is not inductive by itself. `SafetyInv` adds to the types where
  each player's move stands (`MoveStages`: quiet, notified, typing, half sent, wholly sent),
  that nothing follows a TURN in a queue (`TurnIsLast`), that a live client has been or will be
  told of every mark before its turn (`Informed`), and hence that a cell in flight is still empty (`ChoiceIsFree`). That
  `check()` never returns what is not a player needs the least matching index, which
  `LeastElement` gives (as it gives the lowest free entry of `UdpGreeting`).
  `VerdictInvariant` (`VerdictsOppositeHolds`, `NoSilentEndHolds`) rests on it: the server decides
  once (`StatusIsFinal`), a client knows its number before it is told anything else (`Numbered`), every
  RESULT on its way or printed is what was decided (`ResultsTrue`), and a server that has ended without one has lost a player
  (`EndHasReason`). `ViewInvariant` (`ViewsFollowBoardHolds`) says that the last
  update of a cell on its way is the true one, and that there is one for every cell in which a
  client's board is behind (`MoveIsMarked`, `ViewsUpdated`). For `PlaysGameHolds`,
  `GameInv` adds that nobody is stopped, that moves alternate and that the game goes on
  until `check()` decides it; that `check()` sees exactly the lines that are full is a lemma about the
  board (`CheckDecides`, `LineIsSeen`). Each step of the server then is a move of `TicTacToeGame`
  or none.
- `PollServerProofs`: `PollInvariant`, with `TypeCorrect`, `TableMatchesHolds`,
  `PrintedAsSentHolds`, `ClosedWhenDoneHolds`. What is added is `HangUpsAreReal`: a hang-up found in
  an entry is its own connection's, or was inherited.
- `UdpGreetingProofs`: `TypeCorrect`, `TableSoundHolds`, and the refinement
  `SessionsImplemented`: each step of the server maps to a step of `UdpSessions` or to none.
  `TableSound` is what makes a farewell remove a client and not one of its two entries; that
  the set stays within its bound follows from its being the image of the entries in use, of
  which there is one fewer than entries when a client is greeted. `TurnsInvariant`
  (`PromptGoodbyeHolds`) follows one client that is neither timed out nor duplicated and the first at its address (`Turn`): between
  it and the server there is at most one datagram, and it is in the table exactly while a question
  or an answer is under way (`Between`).
- `EchoProofs`: `EchoInvariant`, with `TypeCorrect`, `TableSoundHolds`, `CompleteEchoHolds` and
  `DiesOfKilledHolds`. `CompleteEcho` needs an account of every line typed: it is printed,
  on its way back or unread, unless its client was stopped (`Accounted`); and what the server finds
  behind a client's data must be what that client has done (`LinksTrue`), or one that lives could be
  closed on or break the server.
- `ChatProofs`: `ChatInvariant`, with `TypeCorrect`, `TableMatchesHolds` and `HeardByAllHolds`.
  `TableMatches` is inductive once the entries in use are known to name clients; `HeardByAll`
  needs that nobody has heard anything before it was accepted (`NothingHeardBefore`), which is what
  makes the count exact although entries move between two lines, and that the loop stays at the speaker
  while a line is being passed on (`PassingOn`). `WrongNamesAreInherited` bounds finding 2: a client that speaks under another's name
  came into an entry that kept the name of one that had left, and there is no other way.
- `ForkHandlersProofs`: `ToldInvariant`, with `TypeCorrect` and `ToldHolds`. `TypeOK` contains that no more
  children are uncollected than the system allows, by the cardinality of their set. `Told` is three
  facts about the end of a conversation; what they need is its course: a connection is in the backlog,
  with the parent or with its one child (`OneChild`), only the child of the right program is in a
  given place (`InProgram`), the child has read a prefix of one request and the rest is
  on its way unless its client has left (`HasRead`), what it has stored is what it has read, alone or
  with a note that it was not alone (`InBody`, `OwnFile`), and an answer is sent before the child
  is at its exit (`AnswerKnown`). A step of one client changes nothing of another but
  its notes and a file they share (`OthersUntouched`), so each action is argued for its own client only.

- `ClientsProofs`: `RealInvariant` and `OwnInvariant`, with `TypeCorrect`, `SuccessIsRealHolds` and
  `OwnReplyHolds`. That a program talks to
  the right server follows from the step it is at (`AtHost`), and what a step is from lemmas about
  the scripts, which are data (`FtpKinds`, `MailSteps`). For FTP (`Ftp`): a command or
  an answer of this operation is the last one under way (`OwnIsLast`), the data connection is up only if the last
  answer to PASV was read as such, and then no older mark of a transfer can be read behind it
  (`Ports`), so that who reads 150 has had its own order taken, and reads 226 only if
  that transfer has ended well (`TransferIsReal`). None of this needs the client to be in count.
  Deleting does: `Synced` says how many answers are unread at each kind of step of a client that
  is in count. A mail ends with a 250 that can only be the answer to its dot, because no other answer
  can be unread behind the 354 (`Mail`). `Passed` keeps what the tests of the toolkit have passed already.
  `OwnReply` needs to know whose every unread piece is. An FTP client in count is owed at most one answer (`Synced`),
  so that all that is under way where it reads is of its own operation (`OwnFtp`). The mail and POP3 clients are
  one class (`ByLine`), although one reads to any end of a line and the other to the first: between two commands
  nothing is unread but a word of farewell (`Clear`), and where a client reads there is its own command on its way, its
  own answer, whole or in two pieces with a listing behind it if the next step reads that one, or the end (`Awaited`); a line
  of the mail is sent without an answer, so the server must be in the mail whenever one is on its way, which
  `Mail` gives. Nothing else waits for an answer (`Waiting`).

- `DnsClientProofs`: `WalkInvariant` and `SoundHolds`. What has come is a prefix of what was sent
  (`Arrived`). Among the questions the walk is where one begins (`InQuestions`). Among the answers it is
  where one begins, all before it being whole and shown (`OnAnswer`), or it has passed the end of
  what came (`BehindEnd`), where the next name is found missing at once: so at most one record is read in
  part from old bytes, and none of a message that is whole. The steps rest on `SkipName` (the walk over a name ends
  behind it or says that it is not all there), `RecordRead`, and on where the pieces of a message stand
  (`QuestionAt`, `AnswerAt`, `WholeCount`). The encoder, the walk and `FlattenSeq` are recursive functions; what is
  said of them for all inputs is proved from a least counterexample (`LeastElement`), after `Iteration` has shown
  that the function exists. `EncodedFits` says that a label is taken only if the zero behind it still fits.

Each invariant was checked by TLC before it was proved, as `SafetyInv` still is in every run of the game.

*Only model-checked.* Liveness and all that needs fairness: `BothHearVerdict`, `SurvivorReleased`,
`Served`, `TableDrains`, `WaitsEnd`, `Read`, `InputEndsClient`, `Reaped`, `Answered`, `Ends`.
Every invariant and every action property that a run checks has a theorem.

## 6. What is left out

Socket set-up and its errors; printing; the text of messages, except where a
property is about it; buffer sizes and what happens when text does not fit, except for the
replies in `Clients` and the name in `DnsClient`; `xor_cipher()`
and the length `strlen()` gives its result; limits on descriptors; send buffers that fill up
(a `send()` to a slow reader blocks). The content of files in `Clients`; paths, types and HEAD
(GET without its body) in `ForkHandlers`. A DNS message is never cut within its first twelve bytes.

*Not modelled.* `SMTP/smtp.c` is an earlier copy of `smtp_client.c`, and the toolkit's
`dns_module.c` of `DNS/dns.c` but for its last function. The `select()` servers and the `poll()` exercise have the loop and the table of `Echo`
and `PollServer` again, with the two defects named in section 1; they are the next to model if
the plan allows. Container files and the small
exercises have no behaviour of their own.

## 7. Plan

1. Done: all components but those of section 6; proofs for `TicTacToe`, `PollServer`, `UdpGreeting`,
   `Echo`, `Chat`, the forking servers, `Clients` and `DnsClient`.
2. Beyond this prover: liveness.
