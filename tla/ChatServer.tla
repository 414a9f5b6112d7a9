----------------------------- MODULE ChatServer -----------------------------
(***************************************************************************)
(* The poll-driven chat server.  The repository holds it three times:      *)
(* chat_room_server.c, shmget_chat_room_server.c and test_poll.c run the   *)
(* same loop over the same tables; `program' says which source is running  *)
(* where they differ: ListenEvents, SigpipeKills and Broadcast.  The       *)
(* signals that shmget_chat_room_server.c catches end up in a socket pair  *)
(* nobody reads; what they do to the loop is PollFails, with EINTR.        *)
(*                                                                         *)
(* The server is one thread.  poll() takes a snapshot of what is ready     *)
(* (the revents of the slots 0..user_counter); the for loop then visits    *)
(* one slot per step, while clients keep acting, so that what a handler    *)
(* finds may be newer than the snapshot it was chosen by.                  *)
(***************************************************************************)
EXTENDS Integers, Sequences, FiniteSets

CONSTANTS
  Clients,      \* the connections clients may open, each of them once
  NoClient,     \* marks a free descriptor, and a zeroed buf
  Fds,          \* the descriptors accept may return
  listenfd,
  USER_LIMIT,
  MaxUnread,    \* bound: texts of one client waiting in its socket
  Programs      \* the sources to run

NULL == -1
Flags == {"IN", "OUT", "RDHUP", "ERR"}
UserEvents == {"IN", "RDHUP", "ERR"}

(***************************************************************************)
(* FD_LIMIT is far above USER_LIMIT: accept never runs out of descriptors. *)
(***************************************************************************)
ASSUME ChatAssumption ==
  /\ NoClient \notin Clients
  /\ Fds \subseteq Nat /\ IsFiniteSet(Fds)
  /\ listenfd \in Nat \ Fds
  /\ USER_LIMIT \in Nat \ {0}
  /\ Cardinality(Fds) > USER_LIMIT
  /\ MaxUnread \in Nat \ {0}
  /\ Programs \subseteq {"chat_room_server", "shmget_chat_room_server", "test_poll"}

VARIABLES
  program,
  running,        \* FALSE once the process is gone
  fds,            \* pollfd fds[USER_LIMIT+1]
  users,          \* client_data users[FD_LIMIT], indexed by descriptor
  user_counter,
  i,              \* the for loop's index; past user_counter, poll is next
  peer,           \* the kernel's descriptor table: whose connection an fd is
  link,           \* each connection as the server's kernel knows it
  backlog,        \* connections waiting for accept
  unread,         \* texts in a connection's receive buffer
  room            \* whether a connection's send buffer has room

server == <<fds, users, user_counter, i>>
net == <<peer, link, backlog, unread, room>>
vars == <<program, running, fds, users, user_counter, i,
          peer, link, backlog, unread, room>>

(***************************************************************************)
(* A connection is "none" before connect and "closed" after the server's   *)
(* close.  In between it is "up"; "fin" when the client has shut it down;  *)
(* reset, with the error still to be reported: "rst" (ECONNRESET), or      *)
(* "pipe" (EPIPE, a reset that follows the client's FIN); and "dead" once  *)
(* the error has been fetched.                                             *)
(***************************************************************************)
Failed == {"rst", "pipe"}
Gone   == Failed \cup {"fin", "dead"}
Links  == Gone \cup {"none", "up", "closed"}

Slot == [fd : Fds \cup {listenfd, NULL}, events : SUBSET Flags, revents : SUBSET Flags]

(***************************************************************************)
(* write_buf points into some users[f].buf, or nowhere; the text in a buf  *)
(* is known by its author.                                                 *)
(***************************************************************************)
ClientData == [write_buf : Fds \cup {NULL}, buf : Clients \cup {NoClient}]

ListenEvents == {"IN", "ERR"} \cup (IF program = "test_poll" THEN {} ELSE {"OUT"})

Init ==
  /\ program \in Programs
  /\ running = TRUE
  /\ fds = [k \in 0 .. USER_LIMIT |->
              IF k = 0 THEN [fd |-> listenfd, events |-> ListenEvents, revents |-> {}]
                       ELSE [fd |-> NULL, events |-> {}, revents |-> {}]]
  /\ users = [f \in Fds |-> [write_buf |-> NULL, buf |-> NoClient]]
  /\ user_counter = 0
  /\ i = 1
  /\ peer = [f \in Fds |-> NoClient]
  /\ link = [c \in Clients |-> "none"]
  /\ backlog = <<>>
  /\ unread = [c \in Clients |-> 0]
  /\ room = [c \in Clients |-> TRUE]

-----------------------------------------------------------------------------
(* The clients, and the network between them and the server's kernel.      *)

Connect(c) ==
  /\ running /\ link[c] = "none"
  /\ link' = [link EXCEPT ![c] = "up"]
  /\ backlog' = Append(backlog, c)
  /\ UNCHANGED <<program, running, server, peer, unread, room>>

Say(c) ==
  /\ running /\ link[c] = "up" /\ unread[c] < MaxUnread
  /\ unread' = [unread EXCEPT ![c] = @ + 1]
  /\ UNCHANGED <<program, running, server, peer, link, backlog, room>>

Leave(c) ==
  /\ running /\ link[c] = "up"
  /\ link' = [link EXCEPT ![c] = "fin"]
  /\ UNCHANGED <<program, running, server, peer, backlog, unread, room>>

(***************************************************************************)
(* What waits to be read may or may not survive a reset.                   *)
(***************************************************************************)
Reset(c) ==
  /\ running /\ link[c] \in {"up", "fin"}
  /\ link' = [link EXCEPT ![c] = IF @ = "fin" THEN "pipe" ELSE "rst"]
  /\ \E left \in {0, unread[c]} : unread' = [unread EXCEPT ![c] = left]
  /\ UNCHANGED <<program, running, server, peer, backlog, room>>

Drain(c) ==
  /\ running /\ link[c] \in {"up", "fin"} /\ ~room[c]
  /\ room' = [room EXCEPT ![c] = TRUE]
  /\ UNCHANGED <<program, running, server, peer, link, backlog, unread>>

-----------------------------------------------------------------------------
(* poll()                                                                  *)

ReadyBits(c) ==
  {b \in Flags :
     \/ b = "IN" /\ (unread[c] > 0 \/ link[c] \in Gone)
     \/ b = "OUT" /\ (room[c] \/ link[c] \in Failed \cup {"dead"})
     \/ b = "RDHUP" /\ link[c] \in Gone
     \/ b = "ERR" /\ link[c] \in Failed}

Revents(k) ==
  IF k = 0 THEN IF backlog # <<>> THEN {"IN"} ELSE {}
           ELSE ReadyBits(peer[fds[k].fd]) \cap (fds[k].events \cup {"ERR"})

Poll ==
  /\ running /\ i > user_counter
  /\ \E k \in 0 .. user_counter : Revents(k) # {}
  /\ fds' = [k \in DOMAIN fds |->
               IF k <= user_counter THEN [fds[k] EXCEPT !.revents = Revents(k)] ELSE fds[k]]
  /\ i' = 0
  /\ UNCHANGED <<program, running, users, user_counter, net>>

PollFails ==
  /\ running /\ i > user_counter
  /\ running' = FALSE
  /\ UNCHANGED <<program, server, net>>

-----------------------------------------------------------------------------
(* One visit of the for loop: the first branch that matches slot i.        *)

Visiting(b) == running /\ i <= user_counter /\ b \in fds[i].revents

AtListen == Visiting("IN") /\ fds[i].fd = listenfd
AtError  == Visiting("ERR") /\ ~AtListen
AtHangup == Visiting("RDHUP") /\ ~AtListen /\ ~AtError
AtInput  == Visiting("IN") /\ ~AtListen /\ ~AtError /\ ~AtHangup
AtOutput == Visiting("OUT") /\ ~AtListen /\ ~AtError /\ ~AtHangup /\ ~AtInput

fd == fds[i].fd
who == peer[fd]
NextSlot == i' = i + 1

(* Of the three programs one ignores SIGPIPE, which a send to a connection *)
(* that is broken raises.                                                  *)
SigpipeKills == program # "shmget_chat_room_server"
Broken(c) == SigpipeKills /\ link[c] \in {"pipe", "dead"}

(***************************************************************************)
(* accept may report a connection that was reset while it waited.          *)
(***************************************************************************)
AcceptFails ==
  /\ AtListen
  /\ link[Head(backlog)] \in Failed
  /\ backlog' = Tail(backlog)
  /\ link' = [link EXCEPT ![Head(backlog)] = "closed"]
  /\ NextSlot
  /\ UNCHANGED <<program, running, fds, users, user_counter, peer, unread, room>>

RefuseUser ==
  /\ AtListen
  /\ user_counter >= USER_LIMIT
  /\ ~Broken(Head(backlog))
  /\ backlog' = Tail(backlog)
  /\ link' = [link EXCEPT ![Head(backlog)] = "closed"]
  /\ unread' = [unread EXCEPT ![Head(backlog)] = 0]
  /\ NextSlot
  /\ UNCHANGED <<program, running, fds, users, user_counter, peer, room>>

FreeFds == {f \in Fds : peer[f] = NoClient}

(***************************************************************************)
(* accept returns the lowest free descriptor.  Of users[connfd] only the   *)
(* address is set: buf and write_buf are whatever was last left there.     *)
(***************************************************************************)
Accept(connfd, limit, slot) ==
  /\ AtListen
  /\ user_counter < limit
  /\ \A f \in FreeFds : connfd <= f
  /\ backlog' = Tail(backlog)
  /\ peer' = [peer EXCEPT ![connfd] = Head(backlog)]
  /\ user_counter' = user_counter + 1
  /\ fds' = [fds EXCEPT ![user_counter + 1] = slot]
  /\ NextSlot
  /\ UNCHANGED <<program, running, users, link, unread, room>>

(* Mutants of AcceptUser: the limit off by one; revents not cleared;       *)
(* POLLRDHUP not asked for.                                                *)
AcceptUser_OneTooMany(connfd) ==
  Accept(connfd, USER_LIMIT + 1, [fd |-> connfd, events |-> UserEvents, revents |-> {}])
AcceptUser_StaleRevents(connfd) ==
  Accept(connfd, USER_LIMIT,
         [fd |-> connfd, events |-> UserEvents, revents |-> fds[user_counter + 1].revents])
AcceptUser_NoRdhup(connfd) ==
  Accept(connfd, USER_LIMIT, [fd |-> connfd, events |-> {"IN", "ERR"}, revents |-> {}])

AcceptUser(connfd) ==
  Accept(connfd, USER_LIMIT, [fd |-> connfd, events |-> UserEvents, revents |-> {}])

(* Mutant of ErrorUser: the error is not fetched, and poll reports it again. *)
ErrorUser_KeepsError ==
  AtError /\ NextSlot /\ UNCHANGED <<program, running, fds, users, user_counter, net>>

(***************************************************************************)
(* getsockopt(SO_ERROR) fetches the error, and so clears it.               *)
(***************************************************************************)
ErrorUser ==
  /\ AtError
  /\ link' = [link EXCEPT ![who] = IF @ \in Failed THEN "dead" ELSE @]
  /\ NextSlot
  /\ UNCHANGED <<program, running, fds, users, user_counter, peer, backlog, unread, room>>

(* Mutants of DropUser: the last slot not moved; fds[i] overwritten before *)
(* close(fds[i].fd), which then closes the last user's connection.         *)
DropUser_NoSwap(data) ==
  /\ users' = [data EXCEPT ![fd] = data[fds[user_counter].fd]]
  /\ peer' = [peer EXCEPT ![fd] = NoClient]
  /\ link' = [link EXCEPT ![who] = "closed"]
  /\ unread' = [unread EXCEPT ![who] = 0]
  /\ room' = [room EXCEPT ![who] = TRUE]
  /\ user_counter' = user_counter - 1
  /\ UNCHANGED <<program, running, fds, i, backlog>>
DropUser_SwapFirst(data) ==
  LET last == fds[user_counter].fd
  IN  /\ users' = [data EXCEPT ![fd] = data[last]]
      /\ peer' = [peer EXCEPT ![last] = NoClient]
      /\ link' = [link EXCEPT ![peer[last]] = "closed"]
      /\ unread' = [unread EXCEPT ![peer[last]] = 0]
      /\ room' = [room EXCEPT ![peer[last]] = TRUE]
      /\ fds' = [fds EXCEPT ![i] = fds[user_counter]]
      /\ user_counter' = user_counter - 1
      /\ UNCHANGED <<program, running, i, backlog>>

(***************************************************************************)
(* Closing slot i: the last user's data is copied over the leaver's entry, *)
(* the last slot moves into slot i, and the loop visits i again.           *)
(***************************************************************************)
DropUser(data) ==
  /\ users' = [data EXCEPT ![fd] = data[fds[user_counter].fd]]
  /\ peer' = [peer EXCEPT ![fd] = NoClient]
  /\ link' = [link EXCEPT ![who] = "closed"]
  /\ unread' = [unread EXCEPT ![who] = 0]
  /\ room' = [room EXCEPT ![who] = TRUE]
  /\ fds' = [fds EXCEPT ![i] = fds[user_counter]]
  /\ user_counter' = user_counter - 1
  /\ UNCHANGED <<program, running, i, backlog>>

HangupUser == AtHangup /\ DropUser(users)

(***************************************************************************)
(* events |= ~POLLIN; events |= POLLOUT, and events |= ~POLLOUT; events |= *)
(* POLLIN: an OR with a complement takes nothing away.                     *)
(***************************************************************************)
WatchOutput(ev) == ev \cup (Flags \ {"IN"}) \cup {"OUT"}
WatchInput(ev)  == ev \cup (Flags \ {"OUT"}) \cup {"IN"}

Point(data, S) == [f \in Fds |-> IF f \in S THEN [data[f] EXCEPT !.write_buf = fd] ELSE data[f]]
SlotFds(S) == {fds[j].fd : j \in S}

(* test_poll.c: every other slot is pointed at the text and watched for    *)
(* output.                                                                 *)
BroadcastAll(data) ==
  LET others == {j \in 1 .. user_counter : fds[j].fd # fd}
  IN  /\ users' = Point(data, SlotFds(others))
      /\ fds' = [j \in DOMAIN fds |->
                   IF j \in others THEN [fds[j] EXCEPT !.events = WatchOutput(@)] ELSE fds[j]]

(* The other two: the last slot is left out, and the slot watched for      *)
(* output is the speaker's own.                                            *)
BroadcastRoom(data) ==
  LET others == {j \in 1 .. user_counter - 1 : fds[j].fd # fd}
  IN  /\ users' = Point(data, SlotFds(others))
      /\ fds' = IF others = {} THEN fds
                ELSE [fds EXCEPT ![i].events = WatchOutput(@)]

Broadcast(data) ==
  \/ program = "test_poll" /\ BroadcastAll(data)
  \/ program # "test_poll" /\ BroadcastRoom(data)

ZeroBuf == [users EXCEPT ![fd].buf = NoClient]

(* recv returned texts: it takes one or more of those that wait.           *)
ReadUser ==
  /\ AtInput /\ unread[who] > 0
  /\ \E left \in 0 .. unread[who] - 1 : unread' = [unread EXCEPT ![who] = left]
  /\ Broadcast([users EXCEPT ![fd].buf = who])
  /\ NextSlot
  /\ UNCHANGED <<program, running, user_counter, peer, link, backlog, room>>

(* recv failed: the connection was reset after poll looked at it.          *)
ReadFails ==
  /\ AtInput /\ unread[who] = 0 /\ link[who] \in Failed
  /\ DropUser(ZeroBuf)

(* recv would return 0 or EAGAIN: "code should not come to here".          *)
ReadsNothing == AtInput /\ unread[who] = 0 /\ link[who] \notin Failed

(* Mutant of WriteUser: write_buf is not reset after the send.             *)
WriteUser_KeepsText ==
  /\ AtOutput /\ ~Broken(who)
  /\ NextSlot
  /\ \E more \in BOOLEAN : room' = [room EXCEPT ![who] = more]
  /\ UNCHANGED <<program, running, fds, users, user_counter, peer, link, backlog, unread>>

(* Nothing is pending, or the text write_buf points at is sent.  The send  *)
(* may fill the socket; on a reset connection it fails and fetches the     *)
(* error, and the code does not look.                                      *)
WriteUser ==
  /\ AtOutput /\ ~Broken(who)
  /\ NextSlot
  /\ LET pending == users[fd].write_buf # NULL
     IN  /\ users' = [users EXCEPT ![fd].write_buf = NULL]
         /\ fds' = IF pending THEN [fds EXCEPT ![i].events = WatchInput(@)] ELSE fds
         /\ link' = IF pending /\ link[who] \in Failed THEN [link EXCEPT ![who] = "dead"] ELSE link
         /\ \E more \in IF pending THEN BOOLEAN ELSE {room[who]} :
              room' = [room EXCEPT ![who] = more]
  /\ UNCHANGED <<program, running, user_counter, peer, backlog, unread>>

(* EPIPE raises SIGPIPE: here in sending a text, or "too many users".      *)
SendKills ==
  /\ \/ AtOutput /\ Broken(who) /\ users[fd].write_buf # NULL
     \/ AtListen /\ user_counter >= USER_LIMIT /\ Broken(Head(backlog))
  /\ running' = FALSE
  /\ UNCHANGED <<program, server, net>>

SkipSlot ==
  /\ running /\ i <= user_counter
  /\ \/ fds[i].revents = {}
     \/ AtOutput /\ Broken(who) /\ users[fd].write_buf = NULL
  /\ NextSlot
  /\ UNCHANGED <<program, running, fds, users, user_counter, net>>

-----------------------------------------------------------------------------
ClientStep(c) == Connect(c) \/ Say(c) \/ Leave(c) \/ Reset(c) \/ Drain(c)

VisitSlot ==
  \/ AcceptFails \/ RefuseUser \/ (\E connfd \in FreeFds : AcceptUser(connfd))
  \/ ErrorUser \/ HangupUser \/ ReadUser \/ ReadFails
  \/ WriteUser \/ SendKills \/ SkipSlot

Next == Poll \/ PollFails \/ VisitSlot \/ \E c \in Clients : ClientStep(c)

Spec == Init /\ [][Next]_vars

(***************************************************************************)
(* The server's thread keeps running, and clients read what they are sent. *)
(***************************************************************************)
FairSpec ==
  /\ Spec
  /\ WF_vars(Poll \/ VisitSlot)
  /\ \A c \in Clients : WF_vars(Drain(c))

-----------------------------------------------------------------------------
(* Correctness.                                                            *)

(* Every variable has its type: the tables keep their shape, and both the  *)
(* loop's index and the number of users stay within them.                  *)
TypeOK ==
  /\ program \in Programs
  /\ running \in BOOLEAN
  /\ fds \in [0 .. USER_LIMIT -> Slot]
  /\ users \in [Fds -> ClientData]
  /\ user_counter \in 0 .. USER_LIMIT
  /\ i \in 0 .. user_counter + 1
  /\ peer \in [Fds -> Clients \cup {NoClient}]
  /\ link \in [Clients -> Links]
  /\ backlog \in Seq(Clients)
  /\ unread \in [Clients -> 0 .. MaxUnread]
  /\ room \in [Clients -> BOOLEAN]

UserSlots == 1 .. user_counter

Queued  == {backlog[k] : k \in DOMAIN backlog}
Members == {peer[f] : f \in Fds} \ {NoClient}

(* No two descriptors, and no descriptor and the backlog, share a client,  *)
(* and those the server holds are neither before connect nor closed.       *)
KernelInv ==
  /\ \A f, g \in Fds : peer[f] # NoClient /\ peer[f] = peer[g] => f = g
  /\ \A k, m \in DOMAIN backlog : backlog[k] = backlog[m] => k = m
  /\ Members \cap Queued = {}
  /\ \A c \in Members \cup Queued : link[c] \notin {"none", "closed"}

(* Slots 1 to user_counter hold exactly the open connections, each in one  *)
(* slot, whichever slots the swap on closing has moved, so that            *)
(* user_counter counts them; slot 0 stays the listening socket's.          *)
TableInv ==
  /\ fds[0].fd = listenfd
  /\ \A k \in UserSlots : fds[k].fd \in Fds /\ peer[fds[k].fd] # NoClient
  /\ \A k, m \in UserSlots : fds[k].fd = fds[m].fd => k = m
  /\ \A f \in Fds : peer[f] # NoClient => \E k \in UserSlots : fds[k].fd = f
  /\ IsFiniteSet(Members) /\ Cardinality(Members) = user_counter
  /\ KernelInv

(* The snapshot the loop works from is older than the state its handlers   *)
(* meet; this much of it still holds for every slot not yet visited.       *)
Fresh(k) ==
  LET c == peer[fds[k].fd]  r == fds[k].revents
  IN  /\ "RDHUP" \in r => link[c] \in Gone
      /\ "ERR" \in r => link[c] \in Failed
      /\ "IN" \in r /\ "RDHUP" \notin r => unread[c] > 0 \/ link[c] \in Failed

SnapshotInv ==
  /\ fds[0].revents \subseteq {"IN"}
  /\ i = 0 /\ "IN" \in fds[0].revents => backlog # <<>>
  /\ \A k \in UserSlots : "RDHUP" \in fds[k].events
  /\ \A k \in UserSlots : k >= i => Fresh(k)

(* The branch "code should not come to here" of test_poll.c is never       *)
(* reached: because RDHUP is tested before IN, and was in the same         *)
(* snapshot, no recv returns 0, however the client's FIN, reset and data   *)
(* interleave with the loop, and none finds the socket empty.              *)
NeverReadsNothing == ~ReadsNothing

(* The server implements the abstract room: arrivals are taken in order    *)
(* and refused only when USER_LIMIT users are held, and the only users it  *)
(* closes are those that hung up themselves, the one in the slot it was    *)
(* visiting and not one the swap brought there.                            *)
Room == INSTANCE ChatRoom WITH
          Limit <- USER_LIMIT, members <- Members, queue <- backlog,
          hung <- {c \in Clients : link[c] \in Gone}
ImplementsRoom == Room!RoomSpec

(* Nobody waits for ever, although poll reports one readiness for many     *)
(* connections and an error of a connection only once: whoever connects is *)
(* taken from the backlog, by being accepted or turned away, and a user    *)
(* that hangs up or is cut off is removed, unless the server stops.        *)
Attended ==
  \A c \in Clients :
    /\ c \in Queued ~> c \notin Queued \/ ~running
    /\ c \in Members /\ link[c] \in Gone ~> link[c] = "closed" \/ ~running

(* A text passed on to a user is sent: it stays pending only while its     *)
(* recipient has texts of its own waiting, since the branch for POLLIN     *)
(* comes first.                                                            *)
Pending(f) == peer[f] # NoClient /\ users[f].write_buf # NULL
Watched(f) == \E k \in UserSlots : fds[k].fd = f /\ "OUT" \in fds[k].events
PendingSent ==
  \A f \in Fds : Pending(f) /\ Watched(f)
                 ~> ~Pending(f) \/ ~running \/ unread[peer[f]] > 0

(* The comment at chat_room_server.c:218: a text is for the other sockets. *)
(* The text a write finds behind its pointer is not the recipient's own.   *)
NoEcho ==
  AtOutput /\ link[who] = "up" /\ Pending(fd) => users[users[fd].write_buf].buf # who
=============================================================================
