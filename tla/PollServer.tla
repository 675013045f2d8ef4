----------------------------- MODULE PollServer -----------------------------
(***************************************************************************)
(* The event loop of "Chuong 5/sample/ex_poll_server.c": a table of        *)
(* pollfd entries, filled by accept(), read by recv() and compacted by     *)
(* remove_fd(), while the peers connect, send, close and reset as they     *)
(* like and Ctrl+C may arrive between any two steps.                       *)
(*                                                                         *)
(* Abstractions.  A connection stands for its descriptor and for its       *)
(* peer's address: it is accepted once, and may be turned away any number  *)
(* of times before.  Data is counted in the chunks recv() returns, and a   *)
(* peer may send for ever: of what it sent and what was printed, only the  *)
(* difference is kept.  The kernel's side of a connection c is state[c],   *)
(* unread[c] and peer[c].  fcntl() on a fresh descriptor does not fail,    *)
(* and the process does not run out of descriptors before the table is     *)
(* full.                                                                   *)
(***************************************************************************)
EXTENDS Integers

CONSTANTS
  Conns,      \* the connections peers may open
  MayReset,   \* those whose peer may reset them
  MaxFds,     \* MAX_FDS, which counts the listening socket
  MaxUnread   \* bound: chunks a receive buffer holds

ASSUME ConnsAssumption == MayReset \subseteq Conns
ASSUME SizeAssumption == MaxFds \in Nat \ {0} /\ MaxUnread \in Nat

VARIABLES
  pc,         \* the server's place in main()
  nfds,       \* entries in use, the listening socket included
  fds,        \* the entries for clients: connection and revents
  addrs,      \* the peer of each entry
  i,          \* the entry the client loop has reached
  stop,       \* g_stop
  state,      \* of each connection
  peer,       \* what its peer has done to it: nothing, orderly close, reset
  unread,     \* chunks in its receive buffer
  owed,       \* chunks its peer has sent, less those printed under its address
  inherited   \* history: connections accepted into an entry that still had
              \* the error or hang-up of its previous connection

server == <<pc, nfds, fds, addrs, i>>
kernel == <<state, peer, unread>>
vars == <<server, stop, kernel, owed, inherited>>

NoConn == "none"
Slots == 1 .. (MaxFds - 1)
Events == {"none", "in", "hup"}
EmptySlot == [conn |-> NoConn, revents |-> "none"]
InUse == {j \in Slots : j < nfds}

TypeOK ==
  /\ pc \in {"while", "poll", "accept", "clients", "stopped"}
  /\ nfds \in 1 .. MaxFds
  /\ fds \in [Slots -> [conn : Conns \cup {NoConn}, revents : Events]]
  /\ addrs \in [Slots -> Conns \cup {NoConn}]
  /\ i \in 1 .. MaxFds
  /\ stop \in BOOLEAN
  /\ state \in [Conns -> {"new", "backlog", "open", "refused", "closed"}]
  /\ peer \in [Conns -> {"up", "closed", "reset"}]
  /\ unread \in [Conns -> 0 .. MaxUnread]
  /\ owed \in [Conns -> 0 .. MaxUnread]
  /\ inherited \subseteq Conns

Init ==
  /\ pc = "while"
  /\ nfds = 1
  /\ fds = [j \in Slots |-> EmptySlot]
  /\ addrs = [j \in Slots |-> NoConn]
  /\ i = 1
  /\ stop = FALSE
  /\ state = [c \in Conns |-> "new"]
  /\ peer = [c \in Conns |-> "up"]
  /\ unread = [c \in Conns |-> 0]
  /\ owed = [c \in Conns |-> 0]
  /\ inherited = {}

----------------------------------------------------------------------------
(* The peers.                                                              *)

Live(c) == state[c] \in {"backlog", "open"} /\ peer[c] = "up"

Connect(c) ==
  /\ state[c] \in {"new", "refused"}
  /\ pc # "stopped"
  /\ state' = [state EXCEPT ![c] = "backlog"]
  /\ peer' = [peer EXCEPT ![c] = "up"]
  /\ unread' = [unread EXCEPT ![c] = 0]
  /\ owed' = [owed EXCEPT ![c] = 0]
  /\ UNCHANGED <<server, stop, inherited>>

Send(c) ==
  /\ Live(c)
  /\ unread[c] < MaxUnread
  /\ unread' = [unread EXCEPT ![c] = @ + 1]
  /\ owed' = [owed EXCEPT ![c] = @ + 1]
  /\ UNCHANGED <<server, stop, state, peer, inherited>>

Leave(c) ==
  /\ Live(c)
  /\ \E how \in {"closed"} \cup (IF c \in MayReset THEN {"reset"} ELSE {}) :
       peer' = [peer EXCEPT ![c] = how]
  /\ UNCHANGED <<server, stop, state, unread, owed, inherited>>

(* Ctrl+C.  A poll() that is waiting returns EINTR; one that is about to   *)
(* be called, after the test of g_stop, is not interrupted.                *)
Interrupt ==
  /\ ~stop
  /\ pc # "stopped"
  /\ stop' = TRUE
  /\ pc' \in IF pc = "poll" THEN {"while", "poll"} ELSE {pc}
  /\ UNCHANGED <<nfds, fds, addrs, i, kernel, owed, inherited>>

----------------------------------------------------------------------------
(* The server.                                                             *)

TestStop ==
  /\ pc = "while"
  /\ ~stop
  /\ pc' = "poll"
  /\ UNCHANGED <<nfds, fds, addrs, i, stop, kernel, owed, inherited>>

(* Lines 251-254: every descriptor is closed, the listening one included.  *)
Cleanup ==
  /\ pc = "while"
  /\ stop
  /\ pc' = "stopped"
  /\ state' = [c \in Conns |-> IF state[c] = "backlog" \/ \E j \in InUse : fds[j].conn = c
                                 THEN "closed" ELSE state[c]]
  /\ UNCHANGED <<nfds, fds, addrs, i, stop, peer, unread, owed, inherited>>

(* What poll() reports of a connection: a reset is POLLERR and POLLHUP; an *)
(* orderly close, like data, is POLLIN.                                    *)
Reported(c) ==
  IF peer[c] = "reset" THEN "hup"
  ELSE IF unread[c] > 0 \/ peer[c] = "closed" THEN "in"
  ELSE "none"

Poll ==
  LET waiting == \E c \in Conns : state[c] = "backlog"
  IN  /\ pc = "poll"
      /\ waiting \/ \E j \in InUse : Reported(fds[j].conn) # "none"
      /\ fds' = [j \in Slots |->
                   IF j \in InUse THEN [fds[j] EXCEPT !.revents = Reported(fds[j].conn)]
                   ELSE fds[j]]
      /\ pc' = IF waiting THEN "accept" ELSE "clients"
      /\ UNCHANGED <<nfds, addrs, i, stop, kernel, owed, inherited>>

(* Wrong variant: the table is never full.                                 *)
AcceptAnyway(c) ==
  /\ pc = "accept"
  /\ state[c] = "backlog"
  /\ fds' = [fds EXCEPT ![nfds].conn = c]
  /\ addrs' = [addrs EXCEPT ![nfds] = c]
  /\ nfds' = nfds + 1
  /\ state' = [state EXCEPT ![c] = "open"]
  /\ UNCHANGED <<pc, i, stop, peer, unread, owed, inherited>>

(* Lines 176-184.  The entry gets a descriptor, events and an address; its *)
(* revents are left as they are.                                           *)
Accept(c) ==
  /\ pc = "accept"
  /\ state[c] = "backlog"
  /\ nfds < MaxFds
  /\ fds' = [fds EXCEPT ![nfds].conn = c]
  /\ addrs' = [addrs EXCEPT ![nfds] = c]
  /\ nfds' = nfds + 1
  /\ state' = [state EXCEPT ![c] = "open"]
  /\ inherited' = IF fds[nfds].revents = "hup" THEN inherited \cup {c} ELSE inherited
  /\ UNCHANGED <<pc, i, stop, peer, unread, owed>>

Refuse(c) ==
  /\ pc = "accept"
  /\ state[c] = "backlog"
  /\ nfds >= MaxFds
  /\ state' = [state EXCEPT ![c] = "refused"]
  /\ UNCHANGED <<server, stop, peer, unread, owed, inherited>>

AcceptEnds ==
  /\ pc = "accept"
  /\ \A c \in Conns : state[c] # "backlog"
  /\ pc' = "clients"
  /\ UNCHANGED <<nfds, fds, addrs, i, stop, kernel, owed, inherited>>

(* Wrong variants: the last entry is not moved, or moves without address.  *)
RemoveWithoutMove(j) ==
  /\ state' = [state EXCEPT ![fds[j].conn] = "closed"]
  /\ nfds' = nfds - 1
  /\ UNCHANGED <<fds, addrs>>

RemoveWithoutAddress(j) ==
  /\ state' = [state EXCEPT ![fds[j].conn] = "closed"]
  /\ fds' = [fds EXCEPT ![j] = fds[nfds - 1]]
  /\ nfds' = nfds - 1
  /\ UNCHANGED addrs

(* remove_fd(), lines 64-73: the last entry, revents included, is moved to *)
(* the place of the removed one, and stays behind in its own.              *)
remove_fd(j) ==
  LET last == nfds - 1
  IN  /\ state' = [state EXCEPT ![fds[j].conn] = "closed"]
      /\ fds' = [fds EXCEPT ![j] = fds[last]]
      /\ addrs' = [addrs EXCEPT ![j] = addrs[last]]
      /\ nfds' = last

AtClient == pc = "clients" /\ i < nfds

(* Neither of the two removals moves on: the entry moved in is next.       *)
HangUp ==
  /\ AtClient
  /\ fds[i].revents = "hup"
  /\ remove_fd(i)
  /\ UNCHANGED <<pc, i, stop, peer, unread, owed, inherited>>

RecvData ==
  /\ AtClient
  /\ fds[i].revents = "in"
  /\ unread[fds[i].conn] > 0
  /\ unread' = [unread EXCEPT ![fds[i].conn] = @ - 1]
  /\ owed' = [owed EXCEPT ![addrs[i]] = @ - 1]
  /\ UNCHANGED <<server, stop, state, peer, inherited>>

(* Wrong variant: nothing to read is taken for the end of the connection.  *)
RecvEndEarly ==
  /\ AtClient
  /\ fds[i].revents = "in"
  /\ unread[fds[i].conn] = 0
  /\ remove_fd(i)
  /\ UNCHANGED <<pc, i, stop, peer, unread, owed, inherited>>

(* recv() returns 0 after a close, -1 after a reset.                       *)
RecvEnd ==
  /\ AtClient
  /\ fds[i].revents = "in"
  /\ unread[fds[i].conn] = 0
  /\ peer[fds[i].conn] # "up"
  /\ remove_fd(i)
  /\ UNCHANGED <<pc, i, stop, peer, unread, owed, inherited>>

(* Wrong variant: i++ is forgotten.                                        *)
NextClientStays == AtClient /\ fds[i].revents = "none" /\ UNCHANGED vars

(* Nothing reported, or nothing left to read (EAGAIN).                     *)
NextClient ==
  /\ AtClient
  /\ \/ fds[i].revents = "none"
     \/ /\ fds[i].revents = "in"
        /\ unread[fds[i].conn] = 0
        /\ peer[fds[i].conn] = "up"
  /\ i' = i + 1
  /\ UNCHANGED <<pc, nfds, fds, addrs, stop, kernel, owed, inherited>>

ClientsEnd ==
  /\ pc = "clients"
  /\ i >= nfds
  /\ pc' = "while"
  /\ i' = 1   \* i goes out of scope
  /\ UNCHANGED <<nfds, fds, addrs, stop, kernel, owed, inherited>>

ServerStep ==
  \/ TestStop \/ Cleanup \/ Poll
  \/ \E c \in Conns : Accept(c) \/ Refuse(c)
  \/ AcceptEnds
  \/ HangUp \/ RecvData \/ RecvEnd \/ NextClient \/ ClientsEnd

PeerStep == \E c \in Conns : Connect(c) \/ Send(c) \/ Leave(c)

(* Blocked in poll(), or stopped.                                          *)
Rest ==
  /\ \/ pc = "stopped"
     \/ /\ pc = "poll"
        /\ \A c \in Conns : state[c] # "backlog"
        /\ \A j \in InUse : Reported(fds[j].conn) = "none"
  /\ UNCHANGED vars

Next == ServerStep \/ PeerStep \/ Interrupt \/ Rest

Spec == Init /\ [][Next]_vars

(* The server runs; peers and the user do as they please.                  *)
FairSpec == Spec /\ WF_vars(ServerStep)

----------------------------------------------------------------------------
(* Properties.                                                             *)

(* The table and the open connections match: each entry in use names an    *)
(* open connection and its own peer's address, no connection has two       *)
(* entries, and none that was accepted is lost (lines 64-73 and 176-184).  *)
EntriesOpen ==
  \A j \in InUse : /\ fds[j].conn \in Conns
                   /\ state[fds[j].conn] = "open"
                   /\ addrs[j] = fds[j].conn
EntriesDiffer == \A j, k \in InUse : fds[j].conn = fds[k].conn => j = k
OpenHaveEntry == \A c \in Conns : state[c] = "open" => \E j \in InUse : fds[j].conn = c

TableMatches == pc # "stopped" => EntriesOpen /\ EntriesDiffer /\ OpenHaveEntry

(* What is printed under a peer's address is what that peer sent: nothing  *)
(* is printed twice, lost while the connection is open, or put under the   *)
(* address of another (lines 206-214).                                     *)
PrintedAsSent == \A c \in Conns : owed[c] = unread[c]

(* A running server closes a connection only when its peer has reset it,   *)
(* or has closed it and everything it sent has been printed (lines 192 and *)
(* 217-236).  Connections accepted into an entry with a left-over hang-up  *)
(* are the exception: see KeepsClients.                                    *)
ClosedWhenDone ==
  \A c \in Conns \ inherited :
    state[c] = "closed" /\ pc # "stopped" =>
      peer[c] = "reset" \/ (peer[c] = "closed" /\ unread[c] = 0)

(* The invariant behind ClosedWhenDone: an entry reports a hang-up of its  *)
(* own connection, or one it inherited.                                    *)
HangUpsAreReal ==
  \A j \in InUse : fds[j].revents = "hup" =>
    fds[j].conn \in inherited \/ peer[fds[j].conn] = "reset"

PollInv ==
  /\ TypeOK
  /\ TableMatches
  /\ PrintedAsSent
  /\ ClosedWhenDone
  /\ pc # "stopped" => HangUpsAreReal

(* The two loops inside a turn have no limit of their own: recv() is       *)
(* called until a buffer is empty (line 205), and accept() until nobody    *)
(* waits (line 149), who is turned away may come again.                    *)
Floods(d) == <>[](AtClient /\ fds[i].conn = d) /\ []<><<Send(d)>>_vars
Crowds == <>[](pc = "accept") /\ []<><<\E c \in Conns : Refuse(c)>>_vars

(* A connection in the backlog is accepted or refused, and what a client   *)
(* has sent is read to the end, or the connection is closed, however the   *)
(* others come, send and go.  Two things can prevent it, and nothing else: *)
(* a peer whose data is being read sends for ever, or peers turned away    *)
(* come back for ever while the server accepts.                            *)
Served ==
  \/ \A c \in Conns :
       /\ state[c] = "backlog" ~> state[c] # "backlog"
       /\ state[c] = "open" /\ unread[c] > 0 ~> unread[c] = 0 \/ state[c] = "closed"
  \/ \E d \in Conns : Floods(d)
  \/ Crowds

(* The file's header (line 3): the server "accepts multiple clients and    *)
(* prints any data received from each client".  It does not turn away a    *)
(* client that is still there.  This does not hold: an entry's revents     *)
(* outlive its connection (line 176).                                      *)
KeepsClients == \A c \in Conns : state[c] = "closed" /\ pc # "stopped" => peer[c] # "up"

(* Ctrl+C stops the server (lines 76, 122 and 138).  This does not hold:   *)
(* it may come between the test of g_stop and poll().                      *)
StopsOnInterrupt == stop ~> pc = "stopped"
=============================================================================
