------------------------------- MODULE Reactor -------------------------------
(***************************************************************************)
(* The echo server of test_epoll_reactor.c.  Every connection has a slot   *)
(* of g_events, whose call_back alternates between recvdata and senddata,  *)
(* and a registration with epoll that carries the slot's address.  Each    *)
(* round of the main loop closes some connections that have been silent    *)
(* for too long, waits for events, and calls back for each of them.        *)
(***************************************************************************)
EXTENDS Integers, Sequences, FiniteSets

CONSTANTS
  Clients,      \* the connections clients may open, each of them once
  NoClient,     \* marks a descriptor that is not open
  Listener,     \* marks the listening socket's descriptor
  Other,        \* marks one that is open for another purpose
  Fds,          \* the descriptors of the process, without the listening socket's
  Inherited,    \* the sets of them it may have been started with
  lfd,
  MAX_EVENTS,
  SCAN,         \* slots tested for silence in a round: 100 in the code
  TIMEOUT,      \* the silence that closes a connection: 60 in the code
  BUFLEN,
  MaxUnread     \* bound: bytes of one client waiting in its socket

ASSUME ReactorAssumption ==
  /\ Clients \cap {NoClient, Listener, Other} = {}
  /\ NoClient # Listener /\ NoClient # Other /\ Other # Listener
  /\ Inherited \subseteq SUBSET Fds
  /\ Fds \subseteq Nat \ {0} /\ lfd \in Nat \ (Fds \cup {0})
  /\ MAX_EVENTS \in Nat \ {0} /\ SCAN \in Nat \ {0}
  /\ TIMEOUT \in Nat \ {0}
  /\ BUFLEN \in Nat \ {0} /\ MaxUnread \in Nat \ {0}

VARIABLES
  pc,           \* "wait" or "dispatch"; "exit" once the process is gone
  g_events,     \* struct myevent_s g_events[MAX_EVENTS + 1]
  checkpos,
  batch,        \* the events of the last epoll_wait not yet looked at
  interest,     \* the kernel's table behind g_efd
  owner,        \* the kernel's descriptor table: whose connection an fd is
  link,         \* "none", "up", "fin", "rst" or "pipe" (a reset after a FIN), "closed"
  backlog,      \* connections waiting for accept
  unread,       \* bytes in a connection's receive buffer
  room          \* whether a connection's send buffer has room

server == <<pc, g_events, checkpos, batch, interest>>
net == <<owner, link, backlog, unread, room>>
vars == <<pc, g_events, checkpos, batch, interest, owner, link, backlog, unread, room>>

AllFds == Fds \cup {lfd}
Failed == {"rst", "pipe"}
Slots  == 0 .. MAX_EVENTS - 1

(***************************************************************************)
(* age is time(NULL) - last_active, told apart only up to TIMEOUT.  Two    *)
(* fields are kept only while they are read: age while status is 1, and    *)
(* not for the listening socket, which the timeout test does not visit;    *)
(* and len between recvdata, which sets it, and senddata.                  *)
(***************************************************************************)
Myevent == [fd : AllFds \cup {0}, events : {"none", "IN", "OUT"},
            call_back : {"NULL", "acceptconn", "recvdata", "senddata"},
            status : {0, 1}, len : 0 .. BUFLEN, age : 0 .. TIMEOUT]

Registration == [fd : AllFds, ptr : 0 .. MAX_EVENTS, events : {"IN", "OUT"}]

(* What epoll_wait reports, and (not in the code) on whose connection.     *)
Event == [ptr : 0 .. MAX_EVENTS, events : {"IN", "OUT"}, of : Clients \cup {NoClient, Listener, Other}]

-----------------------------------------------------------------------------
(* The functions every callback is written with.  Each takes an entry of   *)
(* g_events, or the kernel's table, and returns what it becomes.           *)

eventset(ev, fd, call_back) ==
  [ev EXCEPT !.fd = fd, !.call_back = call_back, !.events = "none", !.status = 0, !.age = 0]

eventadd(ev, events) == [ev EXCEPT !.events = events, !.status = 1]

(* EPOLL_CTL_MOD of what is not registered fails, and so does              *)
(* EPOLL_CTL_ADD of what is; nobody looks.                                 *)
epollAdd(table, ev, ptr, events) ==
  LET known == \E r \in table : r.fd = ev.fd
      rest  == {r \in table : r.fd # ev.fd}
  IN  IF (ev.status = 1) = known
      THEN rest \cup {[fd |-> ev.fd, ptr |-> ptr, events |-> events]} ELSE table

eventdel(ev) == [ev EXCEPT !.status = 0, !.age = TIMEOUT]

epollDel(table, ev) == {r \in table : ev.status # 1 \/ r.fd # ev.fd}

ClientsOf(F) == {owner[f] : f \in F}

(* close(fd) for every fd of F; the kernel drops their registrations.      *)
Close(F) ==
  /\ owner' = [f \in AllFds |-> IF f \in F THEN NoClient ELSE owner[f]]
  /\ link' = [c \in Clients |-> IF c \in ClientsOf(F) THEN "closed" ELSE link[c]]
  /\ unread' = [c \in Clients |-> IF c \in ClientsOf(F) THEN 0 ELSE unread[c]]
  /\ room' = [c \in Clients |-> c \in ClientsOf(F) \/ room[c]]

Dropped(table, F) == {r \in table : r.fd \notin F}

-----------------------------------------------------------------------------
Init ==
  /\ pc = "dispatch"
  /\ LET zero == [fd |-> 0, events |-> "none", call_back |-> "NULL",
                  status |-> 0, len |-> 0, age |-> TIMEOUT]
         ev == eventset(zero, lfd, "acceptconn")
     IN  /\ g_events = [s \in 0 .. MAX_EVENTS |->
                          IF s = MAX_EVENTS THEN [eventadd(ev, "IN") EXCEPT !.age = TIMEOUT]
                                            ELSE zero]
         /\ interest = epollAdd({}, ev, MAX_EVENTS, "IN")
  /\ checkpos = 0
  /\ batch = {}
  /\ \E taken \in Inherited :
       owner = [f \in AllFds |-> IF f = lfd THEN Listener
                                 ELSE IF f \in taken THEN Other ELSE NoClient]
  /\ link = [c \in Clients |-> "none"]
  /\ backlog = <<>>
  /\ unread = [c \in Clients |-> 0]
  /\ room = [c \in Clients |-> TRUE]

-----------------------------------------------------------------------------
(* The clients, the network and the clock.                                 *)

Connect(c) ==
  /\ pc # "exit" /\ link[c] = "none"
  /\ link' = [link EXCEPT ![c] = "up"]
  /\ backlog' = Append(backlog, c)
  /\ UNCHANGED <<server, owner, unread, room>>

Say(c) ==
  /\ pc # "exit" /\ link[c] = "up"
  /\ \E n \in unread[c] + 1 .. MaxUnread : unread' = [unread EXCEPT ![c] = n]
  /\ UNCHANGED <<server, owner, link, backlog, room>>

Leave(c) ==
  /\ pc # "exit" /\ link[c] = "up"
  /\ link' = [link EXCEPT ![c] = "fin"]
  /\ UNCHANGED <<server, owner, backlog, unread, room>>

(* What waits to be read may or may not survive a reset.                   *)
Reset(c) ==
  /\ pc # "exit" /\ link[c] \in {"up", "fin"}
  /\ link' = [link EXCEPT ![c] = IF @ = "fin" THEN "pipe" ELSE "rst"]
  /\ \E left \in {0, unread[c]} : unread' = [unread EXCEPT ![c] = left]
  /\ UNCHANGED <<server, owner, backlog, room>>

Drain(c) ==
  /\ pc # "exit" /\ link[c] \in {"up", "fin"} /\ ~room[c]
  /\ room' = [room EXCEPT ![c] = TRUE]
  /\ UNCHANGED <<server, owner, link, backlog, unread>>

Smaller(m, n) == IF m < n THEN m ELSE n

Tick ==
  /\ pc # "exit"
  /\ \E s \in DOMAIN g_events : g_events[s].age < TIMEOUT
  /\ g_events' = [s \in DOMAIN g_events |-> [g_events[s] EXCEPT !.age = Smaller(@ + 1, TIMEOUT)]]
  /\ UNCHANGED <<pc, checkpos, batch, interest, net>>

-----------------------------------------------------------------------------
(* The timeout test: SCAN slots from checkpos on, which wraps before the   *)
(* listening socket's.  It follows the last event of a batch, and nobody   *)
(* can tell the end of the one loop from the beginning of the other.       *)

Dispatched == pc = "dispatch" /\ \A e \in batch : g_events[e.ptr].events # e.events

Scan(wrap, silence) ==
  LET start   == IF checkpos = wrap THEN 0 ELSE checkpos
      visited == {(start + k) % wrap : k \in 0 .. SCAN - 1}
      silent  == {s \in visited : g_events[s].status = 1 /\ g_events[s].age >= silence}
      closed  == {g_events[s].fd : s \in silent}
  IN  /\ Dispatched
      /\ Close(closed)
      /\ interest' = Dropped(interest, closed)
      /\ g_events' = [s \in DOMAIN g_events |->
                        IF s \in silent THEN [eventdel(g_events[s]) EXCEPT !.len = 0]
                                        ELSE g_events[s]]
      /\ checkpos' = ((start + SCAN - 1) % wrap) + 1
      /\ batch' = {}
      /\ pc' = "wait"
      /\ UNCHANGED backlog

(* Mutants of CheckTimeouts: wrapping one slot too late; closing one       *)
(* second too early.                                                       *)
CheckTimeouts_WithListener == Scan(MAX_EVENTS + 1, TIMEOUT)
CheckTimeouts_Early == Scan(MAX_EVENTS, TIMEOUT - 1)

CheckTimeouts == Scan(MAX_EVENTS, TIMEOUT)

-----------------------------------------------------------------------------
(* epoll_wait                                                              *)

Ready(r) ==
  LET c == owner[r.fd]
  IN  IF c = Listener THEN backlog # <<>>
      ELSE \/ r.events = "IN" /\ (unread[c] > 0 \/ link[c] \in Failed \cup {"fin"})
           \/ r.events = "OUT" /\ (room[c] \/ link[c] \in Failed)

(* It returns what is ready, or nothing after a second.                    *)
Wait ==
  /\ pc = "wait"
  /\ batch' = {[ptr |-> r.ptr, events |-> r.events, of |-> owner[r.fd]] :
                 r \in {reg \in interest : Ready(reg)}}
  /\ pc' = "dispatch"
  /\ UNCHANGED <<g_events, checkpos, interest, net>>

WaitFails ==
  /\ pc = "wait"
  /\ pc' = "exit"
  /\ UNCHANGED <<g_events, checkpos, batch, interest, net>>

-----------------------------------------------------------------------------
(* The callbacks.  An event is passed over if its slot now waits for the   *)
(* other kind.                                                             *)

Called(e, call_back) ==
  /\ pc = "dispatch" /\ e \in batch
  /\ g_events[e.ptr].events = e.events
  /\ g_events[e.ptr].call_back = call_back

FreeFds == {f \in Fds : owner[f] = NoClient}
FreeSlots == {s \in Slots : g_events[s].status = 0}
Lowest(S) == CHOOSE x \in S : \A y \in S : x <= y

(* accept fails: no descriptor is left, and the connection stays queued;   *)
(* or this connection was reset while it waited.                           *)
AcceptFails(e) ==
  /\ Called(e, "acceptconn")
  /\ \/ FreeFds = {} /\ UNCHANGED <<backlog, link>>
     \/ /\ FreeFds # {} /\ link[Head(backlog)] \in Failed
        /\ link' = [link EXCEPT ![Head(backlog)] = "closed"]
        /\ backlog' = Tail(backlog)
  /\ batch' = batch \ {e}
  /\ UNCHANGED <<pc, g_events, checkpos, interest, owner, unread, room>>

Accepted(e, cfd) ==
  /\ Called(e, "acceptconn") /\ FreeFds # {} /\ cfd = Lowest(FreeFds)
  /\ owner' = [owner EXCEPT ![cfd] = Head(backlog)]
  /\ backlog' = Tail(backlog)
  /\ batch' = batch \ {e}
  /\ UNCHANGED <<pc, checkpos, link, unread, room>>

(* The slot found is set up for the connection.                            *)
Installs(s, cfd) ==
  LET ev == eventset(g_events[s], cfd, "recvdata")
  IN  /\ g_events' = [g_events EXCEPT ![s] = eventadd(ev, "IN")]
      /\ interest' = epollAdd(interest, ev, s, "IN")

(* Mutants of AcceptConn: the listening socket watched with EPOLLONESHOT;  *)
(* a slot taken to be free when its len is 0.                              *)
AcceptConn_OneShot(e) ==
  \E cfd \in Fds :
    /\ Accepted(e, cfd)
    /\ FreeSlots # {}
    /\ LET s  == Lowest(FreeSlots)
           ev == eventset(g_events[s], cfd, "recvdata")
       IN  /\ g_events' = [g_events EXCEPT ![s] = eventadd(ev, "IN")]
           /\ interest' = Dropped(epollAdd(interest, ev, s, "IN"), {lfd})
AcceptConn_ByLen(e) ==
  \E cfd \in Fds : /\ Accepted(e, cfd)
                   /\ \E s \in Slots : g_events[s].len = 0
                   /\ Installs(Lowest({s \in Slots : g_events[s].len = 0}), cfd)

AcceptConn(e) ==
  \E cfd \in Fds : /\ Accepted(e, cfd)
                   /\ FreeSlots # {}
                   /\ Installs(Lowest(FreeSlots), cfd)

(* max connect limit: the connection is neither watched nor closed.        *)
AcceptLeaks(e) ==
  \E cfd \in Fds : /\ Accepted(e, cfd)
                   /\ FreeSlots = {}
                   /\ UNCHANGED <<g_events, interest>>

(* fcntl fails: a slot is free, and the connection is left all the same.   *)
NonblockFails(e) ==
  \E cfd \in Fds : /\ Accepted(e, cfd)
                   /\ FreeSlots # {}
                   /\ UNCHANGED <<g_events, interest>>

(* Mutant of CloseSlot: eventdel without close.                            *)
CloseSlot_NoClose(e) ==
  LET ev == g_events[e.ptr]
  IN  /\ UNCHANGED <<owner, link, unread, room>>
      /\ interest' = epollDel(interest, ev)
      /\ g_events' = [g_events EXCEPT ![e.ptr] = [eventdel(ev) EXCEPT !.len = 0]]

CloseSlot(e) ==
  LET ev == g_events[e.ptr]
  IN  /\ Close({ev.fd})
      /\ interest' = Dropped(epollDel(interest, ev), {ev.fd})
      /\ g_events' = [g_events EXCEPT ![e.ptr] = [eventdel(ev) EXCEPT !.len = 0]]

(* Mutant of Turn: eventdel is forgotten, and eventset clears status.      *)
Turn_NoDel(e, ev, call_back, events) ==
  LET set == eventset(ev, ev.fd, call_back)
  IN  /\ g_events' = [g_events EXCEPT ![e.ptr] = eventadd(set, events)]
      /\ interest' = epollAdd(interest, set, e.ptr, events)

(* The slot is set to wait for the other kind of event.                    *)
Turn(e, ev, call_back, events) ==
  LET set == eventset(eventdel(ev), ev.fd, call_back)
  IN  /\ g_events' = [g_events EXCEPT ![e.ptr] = eventadd(set, events)]
      /\ interest' = epollAdd(epollDel(interest, ev), set, e.ptr, events)

(* buf[len] = '\0' with len = BUFLEN writes behind buf, where len lies: on *)
(* a little-endian machine it sets the 128 just stored to 0, unless the    *)
(* compiler orders the two stores the other way.                           *)
StoredLen(n) == IF n = BUFLEN THEN {n, 0} ELSE {n}

RecvData(e) ==
  LET ev == g_events[e.ptr]
      c  == owner[ev.fd]
      n  == Smaller(unread[c], BUFLEN)
  IN  /\ Called(e, "recvdata")
      /\ n > 0
      /\ unread' = [unread EXCEPT ![c] = @ - n]
      /\ \E len \in StoredLen(n) : Turn(e, [ev EXCEPT !.len = len], "senddata", "OUT")
      /\ batch' = batch \ {e}
      /\ UNCHANGED <<pc, checkpos, owner, link, backlog, room>>

(* recv returned 0 or an error.                                            *)
RecvEnds(e) ==
  /\ Called(e, "recvdata")
  /\ unread[owner[g_events[e.ptr].fd]] = 0
  /\ CloseSlot(e)
  /\ batch' = batch \ {e}
  /\ UNCHANGED <<pc, checkpos, backlog>>

(* send takes some of the bytes, perhaps filling the socket; the rest is   *)
(* forgotten.                                                              *)
SendData(e) ==
  LET ev == g_events[e.ptr]
      c  == owner[ev.fd]
  IN  /\ Called(e, "senddata")
      /\ link[c] \notin Failed /\ ev.len > 0 /\ room[c]
      /\ \E more \in BOOLEAN : room' = [room EXCEPT ![c] = more]
      /\ Turn(e, [ev EXCEPT !.len = 0], "recvdata", "IN")
      /\ batch' = batch \ {e}
      /\ UNCHANGED <<pc, checkpos, owner, link, backlog, unread>>

(* send returned 0, having nothing to send, or an error.                   *)
SendEnds(e) ==
  LET ev == g_events[e.ptr]
      c  == owner[ev.fd]
  IN  /\ Called(e, "senddata")
      /\ link[c] # "pipe"
      /\ link[c] = "rst" \/ ev.len = 0 \/ ~room[c]
      /\ CloseSlot(e)
      /\ batch' = batch \ {e}
      /\ UNCHANGED <<pc, checkpos, backlog>>

(* EPIPE raises SIGPIPE, which the program does not handle.                *)
SendKills(e) ==
  /\ Called(e, "senddata")
  /\ link[owner[g_events[e.ptr].fd]] = "pipe"
  /\ pc' = "exit"
  /\ UNCHANGED <<g_events, checkpos, batch, interest, net>>

-----------------------------------------------------------------------------
Callback(e) ==
  \/ AcceptFails(e) \/ AcceptConn(e) \/ AcceptLeaks(e)
  \/ RecvData(e) \/ RecvEnds(e)
  \/ SendData(e) \/ SendEnds(e) \/ SendKills(e)

ServerStep == CheckTimeouts \/ Wait \/ \E e \in batch : Callback(e)

ClientStep(c) == Connect(c) \/ Say(c) \/ Leave(c) \/ Reset(c) \/ Drain(c)

Next ==
  \/ ServerStep \/ Tick
  \/ WaitFails \/ \E e \in batch : NonblockFails(e)
  \/ \E c \in Clients : ClientStep(c)

Spec == Init /\ [][Next]_vars

(* The process keeps running: epoll_wait returns after a second at most.   *)
FairSpec == Spec /\ WF_vars(ServerStep)

-----------------------------------------------------------------------------
(* Correctness.                                                            *)

(* Every variable has its type.                                            *)
TypeOK ==
  /\ pc \in {"wait", "dispatch", "exit"}
  /\ g_events \in [0 .. MAX_EVENTS -> Myevent]
  /\ checkpos \in 0 .. MAX_EVENTS
  /\ batch \subseteq Event
  /\ interest \subseteq Registration
  /\ owner \in [AllFds -> Clients \cup {NoClient, Listener, Other}]
  /\ link \in [Clients -> {"none", "up", "fin", "closed"} \cup Failed]
  /\ backlog \in Seq(Clients)
  /\ unread \in [Clients -> 0 .. MaxUnread]
  /\ room \in [Clients -> BOOLEAN]

Live(s) == g_events[s].status = 1

(* status is 1 exactly while the slot's descriptor is open and registered  *)
(* with epoll, under the slot's address and for the events the slot says,  *)
(* so that neither a failed ADD nor a failed MOD goes unnoticed; no two    *)
(* slots share a descriptor, and the listening socket keeps its slot.      *)
KernelSync ==
  /\ interest = {[fd |-> g_events[s].fd, ptr |-> s, events |-> g_events[s].events] :
                   s \in {t \in 0 .. MAX_EVENTS : Live(t)}}
  /\ \A s, t \in 0 .. MAX_EVENTS : Live(s) /\ Live(t) /\ g_events[s].fd = g_events[t].fd => s = t
  /\ \A s \in Slots : Live(s) =>
       g_events[s].fd \in Fds /\ owner[g_events[s].fd] \in Clients
  /\ Live(MAX_EVENTS) /\ g_events[MAX_EVENTS].fd = lfd /\ owner[lfd] = Listener

(* Handling one event of a batch makes no other event of it stale: when    *)
(* its turn comes, its slot still belongs to the connection the event was  *)
(* reported on and waits for what was reported, although accept and close  *)
(* in the same batch reuse slots and descriptors.                          *)
BatchFresh ==
  pc = "dispatch" =>
    \A e \in batch : /\ Live(e.ptr) /\ g_events[e.ptr].events = e.events
                     /\ owner[g_events[e.ptr].fd] = e.of

Watched(f) == \E s \in Slots : Live(s) /\ g_events[s].fd = f

(* A connection stops being watched only by being closed, and is accepted  *)
(* without being watched only when every slot is taken or fcntl fails.     *)
NoneForgotten ==
  [][\A f \in Fds : owner'[f] # NoClient /\ ~Watched(f)' =>
        \/ owner[f] # NoClient /\ ~Watched(f)
        \/ /\ owner[f] = NoClient
           /\ (\A s \in Slots : Live(s)) \/ \E e \in batch : NonblockFails(e)]_vars

(* The server closes a connection its client still uses only after a       *)
(* silence of TIMEOUT, or because the length of what it received was       *)
(* overwritten.                                                            *)
ClosedForCause ==
  [][\A s \in Slots :
       LET ev == g_events[s]
       IN  Live(s) /\ link[owner[ev.fd]] = "up" /\ owner'[ev.fd] = NoClient =>
             ev.age = TIMEOUT \/ (ev.call_back = "senddata" /\ ev.len = 0)]_vars

(* A silent connection is closed, wherever checkpos stands; and whoever    *)
(* connects is accepted unless the descriptors are used up for good: a     *)
(* failed accept is tried again once one of them is closed, though the     *)
(* listening socket shares g_events, its scan and its batches with the     *)
(* connections.                                                            *)
Attended ==
  /\ \A s \in Slots :
       Live(s) /\ g_events[s].age = TIMEOUT
         ~> ~Live(s) \/ g_events[s].age < TIMEOUT \/ pc = "exit"
  /\ \A c \in Clients :
       (\E k \in DOMAIN backlog : backlog[k] = c)
         ~> [](FreeFds = {}) \/ pc = "exit" \/ ~\E k \in DOMAIN backlog : backlog[k] = c
=============================================================================
