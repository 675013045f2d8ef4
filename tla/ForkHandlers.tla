---------------------------- MODULE ForkHandlers ----------------------------
(* What the children of ForkServer do, and their clients: one request of   *)
(* HTTP/http.c, the quiz of Chuong 4/thuchanh/bai2_{serv,cli}.c, and the   *)
(* line of Ontap/Bai1/{server,client}.c.                                   *)
EXTENDS ForkServer, Sequences, SequencesExt

CONSTANTS Questions,    \* bound: 10 in the source
          Leavers       \* the clients that may be stopped
ASSUME HandlerAssumption == Questions \in Nat \ {0} /\ Leavers \subseteq Clients

VARIABLES cli, todo, got,   \* a client, what it has yet to send, what it was told
          up, down,         \* the two streams of its connection
          at, kind, num,    \* its child, the method it read, and a count
          off,              \* how much its child has written
          file,             \* post_data.txt and put_data.txt, by who wrote each part
          note              \* what happened to it on the way

talk == <<cli, todo, got, up, down>>
work == <<at, kind, num, off, file>>
vars == <<procs, talk, work, note>>

Unset == 999
Places == {"start", "headers", "spin", "open", "body", "answer", "send", "ask", "wait", "exit"}
Notes == {"merged", "shared", "nolen", "reset", "refused", "unknown"}
TypeOK ==
  /\ ProcTypeOK
  /\ cli \in [Clients -> {"new", "await", "intro", "next", "answer", "verdict", "done", "left"}]
  /\ got \in [Clients -> {"nothing", "ok", "err", "short"}]
  /\ at \in [Clients -> Places]
  /\ kind \in [Clients -> {"none", "GET", "DELETE", "POST", "PUT", "other"}]
  /\ num \in [Clients -> Nat]
  /\ prog = "quiz" => \A c \in Clients : num[c] \in 0..Questions \cup {Unset}
  /\ off \in [Clients -> 0..2]
  /\ \A k \in {"POST", "PUT"} : Range(file[k]) \subseteq Clients \cup {"hole"}
  /\ note \in [Clients -> SUBSET Notes]

All(v) == [c \in Clients |-> v]
Init ==
  /\ ProcInit
  /\ cli = All("new") /\ todo = All(<<>>) /\ got = All("nothing")
  /\ up = All(<<>>) /\ down = All(<<>>)
  /\ at = All("start") /\ kind = All("none") /\ num = All(Unset) /\ off = All(0)
  /\ file = [k \in {"POST", "PUT"} |-> <<>>] /\ note = All({})

Set(f, c, v) == [f EXCEPT ![c] = v]
Add(c, n) == note' = [note EXCEPT ![c] = @ \cup n]
Runs(c, place) == kid[c] = "run" /\ at[c] = place
Ended(c) == cli[c] \in {"left", "done"} /\ up[c] = <<>>
----------------------------------------------------------------------------
(* The clients. *)

\* A body is of two parts; without a length the server makes one up.
Requests == {<<"GET", "end">>, <<"DELETE", "end">>, <<"other", "end">>,
             <<"PUT", "Len", "end", "b", "b">>, <<"POST", "Len", "end", "b", "b">>, <<"POST", "end", "b">>}
\* A line with its comma in the one part or the other, and a line without.
Lines == {<<"name,", "word">>, <<"name", ",word">>, <<"name", "word">>}

Connect(c) ==
  /\ cli[c] = "new" /\ Enqueue(c)
  /\ cli' = Set(cli, c, IF prog = "quiz" THEN "intro" ELSE "await")
  /\ todo' \in CASE prog = "http" -> {Set(todo, c, r) : r \in Requests}
                 [] prog = "registration" -> {Set(todo, c, l) : l \in Lines}
                 [] OTHER -> {todo}
  /\ UNCHANGED <<got, up, down, work, note>>

SendMore(c) ==
  /\ cli[c] = "await" /\ todo[c] # <<>>
  /\ up' = Set(up, c, Append(up[c], Head(todo[c]))) /\ todo' = Set(todo, c, Tail(todo[c]))
  /\ UNCHANGED <<procs, cli, got, down, work, note>>

Leave(c) ==
  /\ c \in Leavers /\ cli[c] \notin {"new", "done", "left"}
  /\ cli' = Set(cli, c, "left") /\ todo' = Set(todo, c, <<>>)
  /\ UNCHANGED <<procs, got, up, down, work, note>>

\* The end of the connection: both processes have closed it, or there never was a child.
AtEnd(c) == down[c] = <<>> /\ c \notin backlog /\ Closed(c)

Await(c) ==
  /\ cli[c] = "await" /\ (down[c] # <<>> \/ AtEnd(c))
  /\ cli' = Set(cli, c, "done")
  /\ got' = IF down[c] = <<>> THEN got ELSE Set(got, c, Last(down[c]))
  /\ down' = Set(down, c, <<>>)
  /\ Add(c, IF kid[c] = "none" THEN {"refused"} ELSE {})
  /\ UNCHANGED <<procs, todo, up, work>>

\* handle() of the quiz client: one read() each for the introduction, a question, a verdict.
ReadQuiz(c) ==
  /\ cli[c] \in {"intro", "next", "verdict"}
  /\ \/ \E n \in 1..Len(down[c]) :
          /\ down' = Set(down, c, SubSeq(down[c], n + 1, Len(down[c])))
          /\ cli' = Set(cli, c, IF cli[c] = "next" THEN "answer" ELSE "next")
          /\ Add(c, IF n > 1 THEN {"merged"} ELSE {})
     \/ AtEnd(c) /\ UNCHANGED <<down, note>>
        /\ cli' = Set(cli, c, IF cli[c] = "next" THEN "done" ELSE "next")
  /\ UNCHANGED <<procs, todo, got, up, work>>

AnswerQuiz(c) ==
  /\ cli[c] = "answer"
  /\ cli' = Set(cli, c, "verdict") /\ up' = Set(up, c, Append(up[c], "a"))
  /\ UNCHANGED <<procs, todo, got, down, work, note>>
----------------------------------------------------------------------------
(* http.c *)

\* handle_request(): a line that did not come has no method anyone knows.
ReadRequest(c) ==
  /\ prog = "http" /\ Runs(c, "start")
  /\ \/ /\ up[c] # <<>> /\ kind' = Set(kind, c, Head(up[c])) /\ up' = Set(up, c, Tail(up[c]))
        /\ at' = Set(at, c, CASE Head(up[c]) \in {"GET", "DELETE"} -> "answer"
                                 [] Head(up[c]) = "other" -> "exit"
                                 [] OTHER -> "headers")
        /\ Add(c, IF Head(up[c]) = "other" THEN {"unknown"} ELSE {})
     \/ Ended(c) /\ at' = Set(at, c, "exit") /\ UNCHANGED <<kind, up, note>>
  /\ UNCHANGED <<procs, cli, todo, got, down, num, off, file>>

\* Whether readline() failed is not asked: after the client has gone the loop has no end.
ReadHeader(c) ==
  /\ prog = "http" /\ Runs(c, "headers")
  /\ \/ /\ up[c] # <<>> /\ up' = Set(up, c, Tail(up[c]))
        /\ at' = IF Head(up[c]) = "end" THEN Set(at, c, "open") ELSE at
        /\ num' = IF Head(up[c]) = "Len" THEN Set(num, c, 2) ELSE num
     \/ Ended(c) /\ at' = Set(at, c, "spin") /\ UNCHANGED <<up, num>>
  /\ UNCHANGED <<procs, cli, todo, got, down, kind, off, file, note>>

\* Who else writes the file of POST or of PUT; the page of a GET is that of POST.
Sharers(k) ==
  {d \in Clients : \/ kid[d] = "run" /\ at[d] \in {"body", "answer"} /\ kind[d] = k
                   \/ Runs(d, "send") /\ k = "POST"}
Share(c, k, more) ==
  LET others == Sharers(k) \ {c}
      meet == IF others = {} THEN {} ELSE others \cup {c}
  IN note' = [d \in Clients |-> note[d] \cup (IF d \in meet THEN {"shared"} ELSE {})
                                       \cup (IF d = c THEN more ELSE {})]

\* open() with O_TRUNC. content_len without the header is whatever was in the memory.
OpenFile(c) ==
  /\ Runs(c, "open")
  /\ file' = Set(file, kind[c], <<>>)
  /\ \E len \in IF num[c] = Unset THEN 0..2 ELSE {num[c]} :
       num' = Set(num, c, len) /\ at' = Set(at, c, IF len = 0 THEN "answer" ELSE "body")
  /\ Share(c, kind[c], IF num[c] = Unset THEN {"nolen"} ELSE {})
  /\ UNCHANGED <<procs, talk, kind, off>>

Written(f, from, n, c) ==
  [i \in 1..(IF from + n > Len(f) THEN from + n ELSE Len(f)) |->
     IF i \in from+1..from+n THEN c ELSE IF i <= Len(f) THEN f[i] ELSE "hole"]

\* Wrong: the body is taken to come at once.
ReadOnce(n, rem) == 0
Remaining(n, rem) == IF n < rem THEN rem - n ELSE 0
ReadBody(c) ==
  /\ Runs(c, "body")
  /\ \/ \E n \in 1..Len(up[c]) :
          /\ up' = Set(up, c, SubSeq(up[c], n + 1, Len(up[c])))
          /\ file' = Set(file, kind[c], Written(file[kind[c]], off[c], n, c))
          /\ off' = Set(off, c, off[c] + n)
          /\ num' = Set(num, c, Remaining(n, num[c]))
          /\ at' = IF num'[c] = 0 THEN Set(at, c, "answer") ELSE at
          /\ Share(c, kind[c], {})
     \/ Ended(c) /\ at' = Set(at, c, "answer") /\ UNCHANGED <<up, file, off, num, note>>
  /\ UNCHANGED <<procs, cli, todo, got, down, kind>>

\* The answer to POST and PUT; for GET the header, with the size that stat() gave.
AnswerHttp(c) ==
  /\ prog = "http" /\ Runs(c, "answer")
  /\ IF kind[c] = "GET"
     THEN /\ at' = Set(at, c, "send") /\ num' = Set(num, c, Len(file["POST"])) /\ UNCHANGED down
          /\ Add(c, IF Sharers("POST") \ {c} = {} THEN {} ELSE {"shared"})
     ELSE /\ at' = Set(at, c, "exit") /\ down' = Set(down, c, <<"ok">>) /\ UNCHANGED <<num, note>>
  /\ UNCHANGED <<procs, cli, todo, got, up, kind, off, file>>

SendFile(c) ==
  /\ Runs(c, "send")
  /\ at' = Set(at, c, "exit")
  /\ down' = Set(down, c, <<IF Len(file["POST"]) = num[c] THEN "ok" ELSE "short">>)
  /\ UNCHANGED <<procs, cli, todo, got, up, kind, num, off, file, note>>
----------------------------------------------------------------------------
(* Ontap/Bai1/server.c: one recv(). *)

HasComma(s) == \E i \in 1..Len(s) : s[i] \in {"name,", ",word"}
Register(c) ==
  /\ prog = "registration" /\ Runs(c, "start")
  /\ \/ \E n \in 1..Len(up[c]) :
          /\ up' = Set(up, c, SubSeq(up[c], n + 1, Len(up[c])))
          /\ down' = Set(down, c, <<IF HasComma(SubSeq(up[c], 1, n)) THEN "ok" ELSE "err">>)
     \/ Ended(c) /\ UNCHANGED <<up, down>>
  /\ at' = Set(at, c, "exit")
  /\ UNCHANGED <<procs, cli, todo, got, kind, num, off, file, note>>
----------------------------------------------------------------------------
(* bai2_serv.c: questions, answers, verdicts. *)

Introduce(c) ==
  /\ prog = "quiz" /\ Runs(c, "start")
  /\ down' = Set(down, c, Append(down[c], "intro"))
  /\ num' = Set(num, c, 0) /\ at' = Set(at, c, "ask")
  /\ UNCHANGED <<procs, cli, todo, got, up, kind, off, file, note>>

\* Wrong: one question more than there are.
OneMore(c) == num[c] > Questions
AllAsked(c) == num[c] = Questions
AskQuestion(c) ==
  /\ Runs(c, "ask")
  /\ IF AllAsked(c) THEN at' = Set(at, c, "exit") /\ UNCHANGED <<down, num>>
     ELSE at' = Set(at, c, "wait") /\ num' = Set(num, c, num[c] + 1)
          /\ down' = Set(down, c, Append(down[c], "question"))
  /\ UNCHANGED <<procs, cli, todo, got, up, kind, off, file, note>>

\* When the client has gone, the sends that follow raise SIGPIPE.
ReadAnswer(c) ==
  /\ Runs(c, "wait")
  /\ \/ /\ up[c] # <<>> /\ up' = Set(up, c, <<>>)
        /\ at' = Set(at, c, "ask") /\ down' = Set(down, c, Append(down[c], "verdict"))
     \/ Ended(c) /\ at' = Set(at, c, "exit") /\ UNCHANGED <<up, down>>
  /\ UNCHANGED <<procs, cli, todo, got, kind, num, off, file, note>>
----------------------------------------------------------------------------
\* close() and exit(). With something unread, or still to come, the client may see a
\* reset instead of the answer.
ExitChild(c) ==
  /\ Runs(c, "exit") /\ Exit(c)
  /\ \/ UNCHANGED <<down, note>>
     \/ up[c] \o todo[c] # <<>> /\ down' = Set(down, c, <<>>) /\ Add(c, {"reset"})
  /\ up' = Set(up, c, <<>>) /\ todo' = Set(todo, c, <<>>)
  /\ kind' = Set(kind, c, "none") /\ num' = Set(num, c, Unset) /\ off' = Set(off, c, 0)
  /\ UNCHANGED <<cli, got, at, file>>

Child(c) == \/ ReadRequest(c) \/ ReadHeader(c) \/ OpenFile(c) \/ ReadBody(c) \/ AnswerHttp(c)
            \/ SendFile(c) \/ Register(c) \/ Introduce(c) \/ AskQuestion(c) \/ ReadAnswer(c)
            \/ ExitChild(c)
Client(c) == SendMore(c) \/ Await(c) \/ ReadQuiz(c) \/ AnswerQuiz(c)
Server == Parent /\ UNCHANGED <<talk, work, note>>

\* The parent waits for the next connection, whatever its children do.
Rest == parent = "accept" /\ backlog = {} /\ ~handling /\ UNCHANGED vars

Next == Server \/ (\E c \in Clients : Connect(c) \/ Leave(c) \/ Client(c) \/ Child(c)) \/ Rest
Spec == Init /\ [][Next]_vars
\* What a user types, and whether it arrives, is left open. Conversations are finite, so
\* for the rest it is enough that something runs while anything can.
Runnable == Server \/ \E c \in Clients : Child(c) \/ Await(c) \/ ReadQuiz(c)
FairSpec == Spec /\ WF_vars(Runnable)
----------------------------------------------------------------------------
(* The handlers of HTTP/server.c:18-25 and Ontap/Bai1/server.c:14-17       *)
(* collect every child that ends, although the signals of children that    *)
(* end together are one signal. The quiz server collects none.             *)
Reaped == \A c \in Clients : Reaps /\ kid[c] = "zombie" ~> kid[c] = "gone"

\* The server has yet to be sent something by c.
Owes(c) == cli[c] = "answer" \/ (cli[c] = "await" /\ todo[c] # <<>>)

(* Every client comes to the end of its conversation, though the others    *)
(* say nothing, stop in the middle or are refused by a fork() that failed, *)
(* unless it falls silent itself, took two of the quiz's messages for one  *)
(* (bai2_cli.c:16-24) or sent no length for its body (http.c:105).         *)
Answered ==
  \A c \in Clients :
    \/ cli[c] # "new" ~> cli[c] \in {"done", "left"} \/ note[c] \cap {"merged", "nolen"} # {}
    \/ <>[]Owes(c)

(* A client that got no answer was refused a child, sent a method the      *)
(* server does not know, or was reset because the server closed with       *)
(* something unread. A page shorter than its header says was being written *)
(* while it was sent; and when a POST or PUT is answered the file holds    *)
(* exactly its body, unless another request wrote the same file at the     *)
(* time or the length was missing (http.c:117-131).                        *)
Told ==
  \A c \in Clients :
    /\ cli[c] = "done" /\ prog # "quiz" /\ got[c] = "nothing"
         => note[c] \cap {"refused", "reset", "unknown"} # {}
    /\ got[c] = "short" => "shared" \in note[c]
    /\ Runs(c, "answer") /\ kind[c] \in {"POST", "PUT"} /\ cli[c] = "await"
         => file[kind[c]] = <<c, c>> \/ note[c] \cap {"shared", "nolen"} # {}
----------------------------------------------------------------------------
(* What the proof of Told needs (ForkHandlersProofs).                      *)

Pieces == {"GET", "DELETE", "other", "PUT", "POST", "Len", "end", "b", "name,", "name", ",word", "word", "a"}
Replies == {"ok", "err", "short", "intro", "question", "verdict"}
StreamsOK ==
  /\ todo \in [Clients -> Seq(Pieces)] /\ up \in [Clients -> Seq(Pieces)]
  /\ down \in [Clients -> Seq(Replies)]
  /\ file \in [{"POST", "PUT"} -> Seq(Clients \cup {"hole"})]

\* A connection is waiting, held by the parent or has a child, which starts afresh.
OneChild(c) ==
  /\ cli[c] = "new" => /\ c \notin backlog /\ current # c /\ kid[c] = "none"
                       /\ up[c] = <<>> /\ todo[c] = <<>>
  /\ c \in backlog => current # c
  /\ c \in backlog \/ (parent = "fork" /\ current = c) => kid[c] = "none"
  /\ kid[c] = "none" => at[c] = "start" /\ num[c] = Unset /\ off[c] = 0
  /\ kid[c] \in {"zombie", "gone"} => at[c] = "exit"
OneChildEach == \A c \in Clients : OneChild(c)

InProgram(c) ==
  /\ prog # "quiz" => cli[c] \in {"new", "await", "done", "left"} /\ at[c] \notin {"ask", "wait"}
  /\ prog # "http" => at[c] \in {"start", "ask", "wait", "exit"}
  /\ prog = "quiz" => cli[c] # "await" /\ got[c] = "nothing"
  /\ prog = "quiz" /\ at[c] \in {"ask", "wait"} => num[c] \in 0..Questions
OwnProgram == \A c \in Clients : InProgram(c)

\* The child has read the first k pieces of request r; the rest is on its way, unless its
\* client has left.
HasRead(c, r, k) ==
  /\ k + Len(up[c]) <= Len(r)
  /\ \A i \in 1..Len(up[c]) : up[c][i] = r[k + i]
  /\ cli[c] = "await" =>
       /\ k + Len(up[c]) + Len(todo[c]) = Len(r)
       /\ \A i \in 1..Len(todo[c]) : todo[c][i] = r[k + Len(up[c]) + i]

HasLength(r) == r[2] = "Len"
Stores(c, r) == kind[c] = r[1] /\ r[1] \in {"POST", "PUT"}
Filled(n, c) == [i \in 1..n |-> c]
OwnFile(c) == file[kind[c]] = Filled(off[c], c) \/ "shared" \in note[c]

InHeaders(c, r, k) ==
  /\ Stores(c, r) /\ off[c] = 0
  /\ \/ k = 1 /\ num[c] = Unset
     \/ k = 2 /\ num[c] = 2 /\ HasLength(r)
ToOpen(c, r, k) ==
  /\ Stores(c, r) /\ off[c] = 0
  /\ IF HasLength(r) THEN k = 3 /\ num[c] = 2 ELSE k = 2 /\ num[c] = Unset
InBody(c, r, k) ==
  /\ Stores(c, r) /\ num[c] # 0
  /\ IF HasLength(r) THEN k = 3 + off[c] /\ num[c] = 2 - off[c] /\ OwnFile(c)
                     ELSE k = 2 + off[c] /\ "nolen" \in note[c]
BodyStored(c) ==
  kind[c] \in {"POST", "PUT"} /\ cli[c] = "await" =>
    file[kind[c]] = <<c, c>> \/ note[c] \cap {"shared", "nolen"} # {}

\* How far the child is with its request (http.c:98-212).
Progress(c, r, k) ==
  /\ HasRead(c, r, k) /\ (r = <<>> => at[c] = "start")
  /\ at[c] = "start" => k = 0 /\ num[c] = Unset /\ off[c] = 0
  /\ at[c] = "headers" => InHeaders(c, r, k)
  /\ at[c] = "open" => ToOpen(c, r, k)
  /\ at[c] = "body" => InBody(c, r, k)
RequestKnown(c) ==
  /\ at[c] \in {"start", "headers", "open", "body"} =>
       \E r \in Requests \cup {<<>>} : \E k \in 0..5 : Progress(c, r, k)
  /\ at[c] = "answer" => BodyStored(c)
  /\ at[c] = "send" => num[c] = Len(file["POST"]) \/ "shared" \in note[c]
OneRequest == prog = "http" => \A c \in Clients : RequestKnown(c)

\* What was answered, and why it was not.
AnswerKnown(c) ==
  /\ down[c] \in {<<>>, <<"ok">>, <<"err">>, <<"short">>}
  /\ down[c] = <<"short">> \/ got[c] = "short" => "shared" \in note[c]
  /\ at[c] = "exit" /\ cli[c] = "await" /\ down[c] = <<>> => note[c] \cap {"reset", "unknown"} # {}
  /\ cli[c] = "done" /\ got[c] = "nothing" => note[c] \cap {"refused", "reset", "unknown"} # {}
AnswersKnown == prog # "quiz" => \A c \in Clients : AnswerKnown(c)

ToldInv ==
  /\ TypeOK /\ StreamsOK
  /\ OneChildEach /\ OwnProgram
  /\ OneRequest /\ AnswersKnown
=============================================================================
