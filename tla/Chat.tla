-------------------------------- MODULE Chat --------------------------------
(***************************************************************************)
(* The chat of "Chuong 5/thuchanh": serv.c takes the first thing a client  *)
(* sends for its name and passes the rest on to everybody else; cli.c      *)
(* sends a name and then the user's lines.                                 *)
(*                                                                         *)
(* Abstractions.  What a client sends is counted, its name first: TCP      *)
(* keeps the order, so what has been read is a prefix.  One read() may     *)
(* return several sends together.  A name is named by its connection.  The *)
(* sockets block: a read() with nothing to read waits.                     *)
(***************************************************************************)
EXTENDS Integers

CONSTANTS
  Conns,      \* the clients
  MaxSize,    \* MAXSIZE, which counts the listening socket
  MaxSends,   \* bound: what a client sends, its name included
  Listeners   \* bound: the clients that type nothing, and stay

ASSUME SizeAssumption ==
  MaxSize \in Nat \ {0} /\ MaxSends \in Nat /\ Listeners \subseteq Conns

VARIABLES
  pc,          \* the server's place in main()
  sz,          \* entries in use, the listening socket included
  fds,         \* the entries for clients: connection and revents
  names,       \* the name in each entry
  i,           \* the entry the loop over the clients has reached
  to,          \* j: the entry the broadcast has reached
  line,        \* what is being passed on, in sends; 0 outside a broadcast
  state,       \* of each connection
  peer,        \* what the client has done to it
  sent,        \* sends of the client
  unread,      \* those the server has not read
  named,       \* those read as its name
  spoken,      \* those read to be passed on to the others
  heard,       \* heard[d][c]: those of c passed on to d
  missed,      \* history: those of c spoken before d was accepted
  mislabelled, \* history: clients something was passed on for under another name
  inherited    \* history: clients accepted into an entry that had a name

entries == <<sz, fds, names>>
passing == <<to, line>>
kernel == <<state, peer, sent, unread>>
talk == <<named, spoken, heard, mislabelled>>
history == <<missed, inherited>>
vars == <<pc, i, entries, passing, kernel, talk, history>>

Nobody == "nobody"
Slots == 1 .. (MaxSize - 1)
InUse == {j \in Slots : j < sz}
Counts == 0 .. MaxSends

TypeOK ==
  /\ pc \in {"poll", "accept", "clients", "send", "dead"}
  /\ sz \in 1 .. MaxSize
  /\ fds \in [Slots -> [conn : Conns \cup {Nobody}, revents : {"none", "in"}]]
  /\ names \in [Slots -> Conns \cup {Nobody}]
  /\ i \in 1 .. MaxSize /\ to \in 1 .. MaxSize
  /\ line \in Counts
  /\ state \in [Conns -> {"new", "backlog", "open", "refused", "closed"}]
  /\ peer \in [Conns -> {"up", "closed", "reset"}]
  /\ sent \in [Conns -> Counts] /\ unread \in [Conns -> Counts]
  /\ named \in [Conns -> Counts] /\ spoken \in [Conns -> Counts]
  /\ heard \in [Conns -> [Conns -> Counts]] /\ missed \in [Conns -> [Conns -> Counts]]
  /\ mislabelled \subseteq Conns /\ inherited \subseteq Conns

(* fds is not initialised: any revents may be found in an entry.           *)
Init ==
  /\ pc = "poll"
  /\ sz = 1
  /\ fds \in [Slots -> [conn : {Nobody}, revents : {"none", "in"}]]
  /\ names = [j \in Slots |-> Nobody]
  /\ i = 1 /\ to = 1 /\ line = 0
  /\ state = [c \in Conns |-> "new"]
  /\ peer = [c \in Conns |-> "up"]
  /\ sent = [c \in Conns |-> 0] /\ unread = [c \in Conns |-> 0]
  /\ named = [c \in Conns |-> 0] /\ spoken = [c \in Conns |-> 0]
  /\ heard = [d \in Conns |-> [c \in Conns |-> 0]]
  /\ missed = [d \in Conns |-> [c \in Conns |-> 0]]
  /\ mislabelled = {} /\ inherited = {}

----------------------------------------------------------------------------
(* The clients.                                                            *)

Live(c) == state[c] \in {"backlog", "open"} /\ peer[c] = "up" /\ pc # "dead"

Connect(c) ==
  /\ state[c] = "new"
  /\ pc # "dead"
  /\ state' = [state EXCEPT ![c] = "backlog"]
  /\ UNCHANGED <<pc, i, entries, passing, peer, sent, unread, talk, history>>

Send(c) ==
  /\ Live(c) /\ c \notin Listeners
  /\ sent[c] < MaxSends
  /\ sent' = [sent EXCEPT ![c] = @ + 1]
  /\ unread' = [unread EXCEPT ![c] = @ + 1]
  /\ UNCHANGED <<pc, i, entries, passing, state, peer, talk, history>>

SendName(c) == sent[c] = 0 /\ Send(c)
SendLine(c) == sent[c] > 0 /\ Send(c)

(* A client the server has not refused only ends by being stopped.  Its    *)
(* kernel resets the connection if it has not read everything it was sent. *)
Leave(c) ==
  /\ Live(c) /\ c \notin Listeners
  /\ \/ peer' = [peer EXCEPT ![c] = "closed"]
     \/ /\ \E d \in Conns : heard[c][d] > 0
        /\ peer' = [peer EXCEPT ![c] = "reset"]
  /\ UNCHANGED <<pc, i, entries, passing, state, sent, unread, talk, history>>

----------------------------------------------------------------------------
(* The server.                                                             *)

Readable(c) == unread[c] > 0 \/ peer[c] # "up"
SomeoneWaits == \E c \in Conns : state[c] = "backlog"

Poll ==
  /\ pc = "poll"
  /\ SomeoneWaits \/ \E j \in InUse : Readable(fds[j].conn)
  /\ fds' = [j \in Slots |->
               IF j \in InUse
                 THEN [fds[j] EXCEPT !.revents = IF Readable(fds[j].conn) THEN "in" ELSE "none"]
                 ELSE fds[j]]
  /\ pc' = IF SomeoneWaits THEN "accept" ELSE "clients"
  /\ UNCHANGED <<i, sz, names, passing, kernel, talk, history>>

(* Wrong: the table is never full. *)
AcceptAnyway(c) ==
  /\ pc = "accept"
  /\ state[c] = "backlog"
  /\ sz <= MaxSize
  /\ fds' = IF sz < MaxSize THEN [fds EXCEPT ![sz].conn = c] ELSE fds
  /\ sz' = sz + 1
  /\ state' = [state EXCEPT ![c] = "open"]
  /\ missed' = [missed EXCEPT ![c] = spoken]
  /\ inherited' = inherited
  /\ pc' = "clients"
  /\ UNCHANGED <<i, names, passing, peer, sent, unread, talk>>

(* Lines 52-55: one client per turn.  Neither revents nor the name of the  *)
(* entry is touched.                                                       *)
Accept(c) ==
  /\ pc = "accept"
  /\ state[c] = "backlog"
  /\ sz < MaxSize
  /\ fds' = [fds EXCEPT ![sz].conn = c]
  /\ sz' = sz + 1
  /\ state' = [state EXCEPT ![c] = "open"]
  /\ missed' = [missed EXCEPT ![c] = spoken]
  /\ inherited' = IF names[sz] # Nobody THEN inherited \cup {c} ELSE inherited
  /\ pc' = "clients"
  /\ UNCHANGED <<i, names, passing, peer, sent, unread, talk>>

Refuse(c) ==
  /\ pc = "accept"
  /\ state[c] = "backlog"
  /\ sz >= MaxSize
  /\ state' = [state EXCEPT ![c] = "refused"]
  /\ pc' = "clients"
  /\ UNCHANGED <<i, entries, passing, peer, sent, unread, talk, history>>

AtClient == pc = "clients" /\ i < sz /\ fds[i].revents = "in"

(* Lines 82-87: all that one read() returned is the name.                  *)
ReadName ==
  LET c == fds[i].conn
  IN  /\ AtClient
      /\ names[i] = Nobody
      /\ \E n \in 1 .. unread[c] :
           /\ unread' = [unread EXCEPT ![c] = @ - n]
           /\ named' = [named EXCEPT ![c] = @ + n]
      /\ names' = [names EXCEPT ![i] = c]
      /\ i' = i + 1
      /\ UNCHANGED <<pc, sz, fds, passing, state, peer, sent, spoken, heard, mislabelled, history>>

(* Lines 88-90: what one read() returned is to be passed on.               *)
ReadLine ==
  LET c == fds[i].conn
  IN  /\ AtClient
      /\ names[i] # Nobody
      /\ \E n \in 1 .. unread[c] :
           /\ unread' = [unread EXCEPT ![c] = @ - n]
           /\ spoken' = [spoken EXCEPT ![c] = @ + n]
           /\ line' = n
      /\ mislabelled' = IF names[i] # c THEN mislabelled \cup {c} ELSE mislabelled
      /\ to' = 1
      /\ pc' = "send"
      /\ UNCHANGED <<i, entries, state, peer, sent, named, heard, history>>

(* Lines 90-97: one entry after the other.                                 *)
SendOne ==
  /\ pc = "send"
  /\ to < sz
  /\ heard' = IF to = i THEN heard
              ELSE [heard EXCEPT ![fds[to].conn][fds[i].conn] = @ + line]
  /\ to' = to + 1
  /\ UNCHANGED <<pc, i, entries, line, kernel, named, spoken, mislabelled, history>>

(* Wrong: the failure ends the broadcast only.                             *)
SendGivesUp ==
  /\ pc = "send"
  /\ to < sz
  /\ to # i
  /\ peer[fds[to].conn] # "up"
  /\ pc' = "clients"
  /\ i' = i + 1
  /\ to' = 1 /\ line' = 0
  /\ UNCHANGED <<entries, kernel, talk, history>>

(* A send to a client that has gone may raise SIGPIPE, which nobody        *)
(* handles, or fail; either way the server ends (line 94), and the entries *)
(* from this one on do not hear the line.                                  *)
SendFails ==
  /\ pc = "send"
  /\ to < sz
  /\ to # i
  /\ peer[fds[to].conn] # "up"
  /\ pc' = "dead"
  /\ UNCHANGED <<i, entries, passing, kernel, talk, history>>

SendEnd ==
  /\ pc = "send"
  /\ to >= sz
  /\ pc' = "clients"
  /\ i' = i + 1
  /\ to' = 1 /\ line' = 0   \* j goes out of scope
  /\ UNCHANGED <<entries, kernel, talk, history>>

(* Wrong: the name stays behind. *)
ReadEndNameStays ==
  /\ AtClient
  /\ unread[fds[i].conn] = 0
  /\ peer[fds[i].conn] = "closed"
  /\ state' = [state EXCEPT ![fds[i].conn] = "closed"]
  /\ fds' = [fds EXCEPT ![i] = fds[sz - 1]]
  /\ sz' = sz - 1
  /\ UNCHANGED <<pc, i, names, passing, peer, sent, unread, talk, history>>

(* Lines 69-77: the last entry takes the place of the one that is over.    *)
ReadEnd ==
  /\ AtClient
  /\ unread[fds[i].conn] = 0
  /\ peer[fds[i].conn] = "closed"
  /\ state' = [state EXCEPT ![fds[i].conn] = "closed"]
  /\ fds' = [fds EXCEPT ![i] = fds[sz - 1]]
  /\ names' = [names EXCEPT ![i] = names[sz - 1]]
  /\ sz' = sz - 1
  /\ UNCHANGED <<pc, i, passing, peer, sent, unread, talk, history>>

(* Lines 65-67.                                                            *)
ReadFails ==
  /\ AtClient
  /\ unread[fds[i].conn] = 0
  /\ peer[fds[i].conn] = "reset"
  /\ pc' = "dead"
  /\ UNCHANGED <<i, entries, passing, kernel, talk, history>>

(* Wrong: the index stays. *)
NextClientStays ==
  /\ pc = "clients"
  /\ i < sz
  /\ fds[i].revents = "none"
  /\ UNCHANGED vars

NextClient ==
  /\ pc = "clients"
  /\ i < sz
  /\ fds[i].revents = "none"
  /\ i' = i + 1
  /\ UNCHANGED <<pc, entries, passing, kernel, talk, history>>

ClientsEnd ==
  /\ pc = "clients"
  /\ i >= sz
  /\ pc' = "poll"
  /\ i' = 1   \* i goes out of scope
  /\ UNCHANGED <<entries, passing, kernel, talk, history>>

ServerStep ==
  \/ Poll \/ (\E c \in Conns : Accept(c) \/ Refuse(c))
  \/ ReadName \/ ReadLine \/ SendOne \/ SendFails \/ SendEnd
  \/ ReadEnd \/ ReadFails
  \/ NextClient \/ ClientsEnd

ClientStep == \E c \in Conns : Connect(c) \/ SendName(c) \/ SendLine(c) \/ Leave(c)

(* The server has ended, or waits in poll() or in a read().                *)
Rest ==
  /\ \/ pc = "dead"
     \/ pc = "poll" /\ ~SomeoneWaits /\ \A j \in InUse : ~Readable(fds[j].conn)
     \/ AtClient /\ ~Readable(fds[i].conn)
  /\ UNCHANGED vars

Next == ServerStep \/ ClientStep \/ Rest
Spec == Init /\ [][Next]_vars

(* The server runs; nobody need ever type, or leave.                       *)
FairSpec == Spec /\ WF_vars(ServerStep)

----------------------------------------------------------------------------
(* Properties.                                                             *)

Running == pc # "dead"

(* Entries and open clients match one to one, and an entry that has a name *)
(* has its client's, unless it had one before its client came (lines 53-55 *)
(* and 73-76).                                                             *)
TableMatches ==
  Running =>
    /\ \A j \in InUse : /\ state[fds[j].conn] = "open"
                        /\ names[j] \in {Nobody, fds[j].conn} \/ fds[j].conn \in inherited
    /\ \A j, k \in InUse : fds[j].conn = fds[k].conn => j = k
    /\ \A c \in Conns : state[c] = "open" => \E j \in InUse : fds[j].conn = c

(* What is being passed on, and has not reached d yet.                     *)
StillComing(d, c) ==
  IF line > 0 /\ fds[i].conn = c /\ \E k \in InUse : k >= to /\ fds[k].conn = d
    THEN line ELSE 0

(* Everything a client has sent is its name, was to be passed on, or waits *)
(* to be read; and each client in the room has heard exactly once what was *)
(* passed on since it came, nothing of its own, and not what is still on   *)
(* its way (lines 64-97).  When the server ends in the middle of a         *)
(* broadcast (line 94), that is what tells those who heard the line from   *)
(* those who did not.                                                      *)
HeardByAll ==
  \A c \in Conns :
    /\ named[c] + spoken[c] + unread[c] = sent[c]
    /\ \A d \in Conns : state[d] = "open" =>
         heard[d][c] = IF d = c THEN 0 ELSE spoken[c] - missed[d][c] - StillComing(d, c)

(* The invariant behind them: what the entries in use name are clients,    *)
(* nobody has heard anything before it was accepted, a wrong name comes    *)
(* from the entry the client was accepted into, and the loop stays at the  *)
(* speaker during a broadcast.                                             *)
EntriesNameClients == \A j \in InUse : fds[j].conn \in Conns
NothingHeardBefore ==
  \A d \in Conns : state[d] \in {"new", "backlog"} => \A c \in Conns : heard[d][c] = 0
WrongNamesInherited == mislabelled \subseteq inherited
PassingOn ==
  /\ pc = "send" => line > 0 /\ to <= sz
  /\ line > 0 => pc \in {"send", "dead"} /\ i < sz

ChatInv ==
  /\ TypeOK /\ EntriesNameClients /\ NothingHeardBefore /\ WrongNamesInherited
  /\ PassingOn /\ TableMatches /\ HeardByAll

(* The server waits in a read() for a client that has sent nothing yet     *)
(* (line 64): one accepted into an entry whose revents said otherwise.     *)
WaitsFor(d) == AtClient /\ fds[i].conn = d /\ sent[d] = 0 /\ peer[d] = "up"

(* What a client sends is read while the server lives, unless the server   *)
(* waits for ever for another, who never types a name: whatever else the   *)
(* others send or leave unsent does not hold it up.                        *)
Read ==
  \/ \A c \in Conns : state[c] = "open" /\ unread[c] > 0 ~> unread[c] = 0 \/ pc = "dead"
  \/ \E d \in Conns : <>[]WaitsFor(d)

(* Line 82: a client that has no name yet is asked for one, so nothing is  *)
(* passed on under the name of another.                                    *)
OwnName == mislabelled = {}
=============================================================================
