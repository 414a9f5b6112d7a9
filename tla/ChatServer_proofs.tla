-------------------------- MODULE ChatServer_proofs --------------------------
(***************************************************************************)
(* The inductive invariant of ChatServer, and what follows from it for any *)
(* number of clients and descriptors, any USER_LIMIT and both programs.    *)
(***************************************************************************)
EXTENDS ChatServer, FiniteSetTheorems, TLAPS

IInv == TypeOK /\ TableInv /\ SnapshotInv

(* Descriptors are not NULL, and user slots are slots.                     *)
LEMMA Basics ==
  ASSUME ChatAssumption
  PROVE  /\ NULL \notin Fds /\ listenfd \notin Fds
         /\ NoClient \notin Clients
         /\ USER_LIMIT \in Nat
BY DEF ChatAssumption, NULL

(* Every user slot holds the connection of a client.                       *)
LEMMA SlotPeer ==
  ASSUME TypeOK, TableInv
  PROVE  \A k \in UserSlots : fds[k].fd \in Fds /\ peer[fds[k].fd] \in Members
                              /\ peer[fds[k].fd] \in Clients
<1>1. \A k \in UserSlots : fds[k].fd \in Fds /\ peer[fds[k].fd] # NoClient
  BY DEF TableInv
<1>2. \A f \in Fds : peer[f] # NoClient => peer[f] \in Clients
  BY DEF TypeOK
<1> QED BY <1>1, <1>2 DEF Members

(* Different slots hold different clients.                                 *)
LEMMA OtherSlot ==
  ASSUME TypeOK, TableInv
  PROVE  \A k, m \in UserSlots : k # m => peer[fds[k].fd] # peer[fds[m].fd]
BY SlotPeer DEF TableInv, KernelInv, Members

(* The slots after the one visited hold other connections than its own.    *)
LEMMA LaterSlot ==
  ASSUME TypeOK, TableInv, i \in UserSlots
  PROVE  \A k \in UserSlots : k > i => peer[fds[k].fd] \in Clients \ {who}
<1>1. i \in Nat /\ UserSlots \subseteq Nat
  BY DEF TypeOK, UserSlots
<1> QED BY <1>1, SlotPeer, OtherSlot DEF who, fd

(* Which slot each branch of the for loop can be at: accept runs only for  *)
(* slot 0, every other branch only for the slot of an open connection.     *)
LEMMA Branches ==
  ASSUME ChatAssumption, IInv
  PROVE  /\ AtListen => i = 0 /\ backlog # <<>> /\ Head(backlog) \in Clients
         /\ AtError \/ AtHangup \/ AtInput \/ AtOutput =>
              /\ i \in UserSlots /\ i \in Nat
              /\ fd \in Fds /\ who \in Clients /\ Fresh(i)
<1> USE DEF IInv, TypeOK, UserSlots, Visiting
<1>1. i \in Nat /\ user_counter \in Nat /\ i <= user_counter + 1
  BY Basics
<1>2. ASSUME i <= user_counter, fds[i].fd = listenfd
      PROVE  i = 0
  BY <1>1, <1>2, Basics DEF TableInv
<1>3. AtListen => i = 0 /\ backlog # <<>> /\ Head(backlog) \in Clients
  BY <1>1, <1>2 DEF AtListen, SnapshotInv
<1>4. ASSUME AtError \/ AtHangup \/ AtInput \/ AtOutput
      PROVE  i # 0
  <2>1. i <= user_counter /\ fds[i].revents # {} /\ ~AtListen
    BY <1>4 DEF AtError, AtHangup, AtInput, AtOutput
  <2>2. i = 0 => "IN" \in fds[i].revents /\ fds[i].fd = listenfd
    BY <2>1 DEF SnapshotInv, TableInv
  <2> QED
    BY <1>4, <2>1, <2>2 DEF AtListen, AtError, AtHangup, AtInput, AtOutput
<1>5. ASSUME AtError \/ AtHangup \/ AtInput \/ AtOutput
      PROVE  /\ i \in UserSlots /\ i \in Nat
             /\ fd \in Fds /\ who \in Clients /\ Fresh(i)
  <2>1. i \in UserSlots
    BY <1>1, <1>4, <1>5 DEF AtError, AtHangup, AtInput, AtOutput
  <2>2. fd \in Fds /\ peer[fd] # NoClient
    BY <2>1 DEF TableInv, fd
  <2>3. who \in Clients
    BY <2>2 DEF who
  <2> QED
    BY <1>1, <2>1, <2>2, <2>3 DEF SnapshotInv
<1> QED BY <1>3, <1>5

-----------------------------------------------------------------------------
(* Steps that leave the table as it is.                                    *)

SameFds == /\ peer' = peer /\ user_counter' = user_counter
           /\ fds'[0] = fds[0]
           /\ \A k \in UserSlots : fds'[k].fd = fds[k].fd

(* A step that keeps every slot's descriptor keeps the table's invariant,  *)
(* if it keeps the kernel's.                                               *)
LEMMA SameTable ==
  ASSUME TableInv, SameFds, KernelInv'
  PROVE  TableInv'
BY DEF TableInv, SameFds, UserSlots, Members

(* The backlog has lost at most its head, and no client still held has     *)
(* become unknown or closed.                                               *)
LEMMA SameKernel ==
  ASSUME TypeOK, KernelInv, peer' = peer,
         backlog' = backlog \/ (backlog # <<>> /\ backlog' = Tail(backlog)),
         \A c \in Members \cup Queued' :
           link[c] \notin {"none", "closed"} => link'[c] \notin {"none", "closed"}
  PROVE  KernelInv'
<1>1. Members' = Members
  BY DEF Members
<1>2. CASE backlog' = backlog
  <2>1. Queued' = Queued
    BY <1>2 DEF Queued
  <2> QED BY <1>1, <1>2, <2>1 DEF KernelInv
<1>3. CASE backlog # <<>> /\ backlog' = Tail(backlog)
  <2>1. /\ backlog \in Seq(Clients) /\ Len(backlog) \in Nat
        /\ DOMAIN backlog = 1 .. Len(backlog)
        /\ DOMAIN backlog' = 1 .. (Len(backlog) - 1)
        /\ \A k \in DOMAIN backlog' : k + 1 \in DOMAIN backlog /\ backlog'[k] = backlog[k + 1]
    BY <1>3 DEF TypeOK
  <2>2. Queued' \subseteq Queued
    BY <2>1 DEF Queued
  <2>3. \A k, m \in DOMAIN backlog' : backlog'[k] = backlog'[m] => k = m
    <3> SUFFICES ASSUME NEW k \in DOMAIN backlog', NEW m \in DOMAIN backlog',
                        backlog'[k] = backlog'[m]
                 PROVE  k = m
      OBVIOUS
    <3>1. k \in Int /\ m \in Int /\ k + 1 = m + 1
      BY <2>1 DEF KernelInv
    <3> QED BY <3>1
  <2> QED BY <1>1, <2>2, <2>3 DEF KernelInv
<1> QED BY <1>2, <1>3

(* A slot's snapshot stays true while its connection only goes from up to  *)
(* gone, keeps its error, and keeps what it has unread.                    *)
LEMMA SameFresh ==
  ASSUME NEW k, Fresh(k), peer' = peer,
         fds'[k].fd = fds[k].fd, fds'[k].revents = fds[k].revents,
         peer[fds[k].fd] \in Clients,
         \A c \in Clients : c = peer[fds[k].fd] =>
           /\ link[c] \in Gone => link'[c] \in Gone
           /\ link[c] \in Failed => link'[c] \in Failed
           /\ unread[c] > 0 => unread'[c] > 0 \/ link'[c] \in Failed
  PROVE  Fresh(k)'
BY DEF Fresh

-----------------------------------------------------------------------------
(* The clients' steps.                                                     *)

(* A new connection enters the backlog only, and was in neither place.     *)
LEMMA ConnectKeeps ==
  ASSUME ChatAssumption, IInv, NEW c \in Clients, Connect(c)
  PROVE  IInv'
<1> USE DEF IInv, Connect, server
<1>1. TypeOK'
  BY DEF TypeOK, Links
<1>2. /\ backlog \in Seq(Clients) /\ Len(backlog) \in Nat
      /\ DOMAIN backlog = 1 .. Len(backlog)
      /\ DOMAIN backlog' = 1 .. (Len(backlog) + 1)
      /\ \A k \in DOMAIN backlog : backlog'[k] = backlog[k]
      /\ backlog'[Len(backlog) + 1] = c
  BY DEF TypeOK
<1>3. c \notin Members \cup Queued
  BY DEF TableInv, KernelInv
<1>4. Queued' = Queued \cup {c} /\ Members' = Members
  BY <1>2 DEF Queued, Members
<1>5. \A k, m \in DOMAIN backlog' : backlog'[k] = backlog'[m] => k = m
  <2> SUFFICES ASSUME NEW k \in DOMAIN backlog', NEW m \in DOMAIN backlog',
                      backlog'[k] = backlog'[m]
               PROVE  k = m
    OBVIOUS
  <2>1. \A n \in DOMAIN backlog : backlog[n] # c
    BY <1>3 DEF Queued
  <2> QED BY <1>2, <2>1 DEF TableInv, KernelInv
<1>6. \A d \in Members \cup Queued \cup {c} : link'[d] \notin {"none", "closed"}
  BY DEF TableInv, KernelInv, TypeOK
<1>7. KernelInv'
  BY <1>3, <1>4, <1>5, <1>6 DEF TableInv, KernelInv
<1>8. TableInv'
  BY <1>7, SameTable DEF SameFds
<1>9. SnapshotInv'
  <2>1. backlog' # <<>>
    BY <1>2
  <2>2. \A k \in UserSlots : k >= i => Fresh(k)'
    <3> SUFFICES ASSUME NEW k \in UserSlots, k >= i PROVE Fresh(k)'
      OBVIOUS
    <3>1. Fresh(k)
      BY DEF SnapshotInv
    <3>2. link[peer[fds[k].fd]] # "none" /\ peer[fds[k].fd] \in Clients
      BY DEF TableInv, KernelInv, Members, TypeOK
    <3> QED BY <3>1, <3>2 DEF Fresh, TypeOK
  <2> QED BY <2>1, <2>2 DEF SnapshotInv, UserSlots
<1> QED BY <1>1, <1>8, <1>9

(* What connected clients do changes no table, and ages the snapshot only  *)
(* in the direction Fresh allows.                                          *)
LEMMA ClientKeeps ==
  ASSUME ChatAssumption, IInv, NEW c \in Clients, Say(c) \/ Leave(c) \/ Reset(c) \/ Drain(c)
  PROVE  IInv'
<1> USE DEF IInv, server
<1>0. /\ UNCHANGED <<program, running, fds, users, user_counter, i, peer, backlog>>
      /\ link \in [Clients -> Links] /\ unread \in [Clients -> Nat]
  BY DEF Say, Leave, Reset, Drain, TypeOK, ChatAssumption
<1>1. TypeOK'
  <2>1. CASE Say(c)
    BY <1>0, <2>1 DEF TypeOK, Say, ChatAssumption
  <2>2. CASE Leave(c)
    BY <1>0, <2>2 DEF TypeOK, Leave, Links, Gone
  <2>3. CASE Reset(c)
    <3>1. link' \in [Clients -> Links]
      BY <2>3 DEF TypeOK, Reset, Links, Gone, Failed
    <3>2. unread' \in [Clients -> 0 .. MaxUnread]
      BY <2>3 DEF TypeOK, Reset, ChatAssumption
    <3> QED BY <1>0, <2>3, <3>1, <3>2 DEF TypeOK, Reset
  <2>4. CASE Drain(c)
    BY <1>0, <2>4 DEF TypeOK, Drain
  <2> QED BY <2>1, <2>2, <2>3, <2>4
<1>2. \A d \in Clients :
        /\ link'[d] \in Links
        /\ link[d] \notin {"none", "closed"} => link'[d] \notin {"none", "closed"}
        /\ link[d] \in Gone => link'[d] \in Gone
        /\ link[d] \in Failed => link'[d] \in Failed
        /\ unread[d] > 0 => unread'[d] > 0 \/ link'[d] \in Failed
  BY <1>0 DEF Say, Leave, Reset, Drain, Links, Gone, Failed
<1>3. Members \subseteq Clients /\ Queued \subseteq Clients
  BY DEF Members, Queued, TypeOK
<1>4. KernelInv'
  BY <1>0, <1>2, <1>3, SameKernel DEF TableInv, Queued
<1>5. TableInv'
  BY <1>0, <1>4, SameTable DEF SameFds
<1>6. SnapshotInv'
  <2>1. ASSUME NEW k \in UserSlots, k >= i
        PROVE  Fresh(k)'
    <3>1. peer[fds[k].fd] \in Clients
      BY SlotPeer
    <3>2. Fresh(k)
      BY <2>1 DEF SnapshotInv
    <3> QED
      BY <1>0, <1>2, <3>1, <3>2, SameFresh
  <2> QED BY <1>0, <2>1 DEF SnapshotInv, UserSlots
<1> QED BY <1>1, <1>5, <1>6

-----------------------------------------------------------------------------
(* poll, and the visits that move no slot.                                 *)

(* poll takes a snapshot that is true when it is taken, of every slot.     *)
LEMMA PollKeeps ==
  ASSUME ChatAssumption, IInv, Poll
  PROVE  IInv'
<1> USE DEF IInv
<1>0. /\ UNCHANGED <<program, running, users, user_counter, peer, link, backlog, unread, room>>
      /\ i' = 0 /\ user_counter \in Nat /\ UserSlots' = UserSlots
      /\ DOMAIN fds = 0 .. USER_LIMIT
  BY DEF TypeOK, UserSlots, Poll, net
<1>1. \A k \in 0 .. USER_LIMIT : /\ fds'[k].fd = fds[k].fd /\ fds'[k].events = fds[k].events
                                 /\ k <= user_counter => fds'[k].revents = Revents(k)
                                 /\ fds'[k] \in Slot
  <2>1. \A k \in 0 .. USER_LIMIT : fds[k] \in Slot
    BY DEF TypeOK
  <2>2. \A k \in 0 .. USER_LIMIT : Revents(k) \in SUBSET Flags
    BY DEF Revents, ReadyBits, Flags
  <2> QED BY <1>0, <2>1, <2>2 DEF Slot, Poll
<1>2. TypeOK'
  <2>1. fds' \in [0 .. USER_LIMIT -> Slot]
    BY <1>0, <1>1 DEF Poll
  <2> QED BY <1>0, <2>1 DEF TypeOK
<1>3. UserSlots \subseteq 0 .. USER_LIMIT /\ 0 \in 0 .. USER_LIMIT
  BY DEF TypeOK, UserSlots, ChatAssumption
<1>4. TableInv'
  <2>1. KernelInv'
    BY <1>0 DEF TableInv, KernelInv, Members, Queued
  <2>2. fds'[0] .fd = fds[0].fd
    BY <1>1, <1>3
  <2> QED BY <1>0, <1>1, <1>3, <2>1, <2>2 DEF TableInv, Members
<1>5. SnapshotInv'
  <2>1. ASSUME NEW k \in UserSlots
        PROVE  Fresh(k)'
    <3>1. fds'[k].revents = ReadyBits(peer[fds[k].fd]) \cap (fds[k].events \cup {"ERR"})
      <4>1. k # 0 /\ k <= user_counter /\ k \in 0 .. USER_LIMIT
        BY <1>0, <1>3 DEF UserSlots
      <4> QED BY <1>1, <4>1 DEF Revents
    <3>2. "RDHUP" \in fds[k].events
      BY DEF SnapshotInv
    <3>3. fds'[k].fd = fds[k].fd /\ fds'[k].revents = fds'[k].revents \cap ReadyBits(peer[fds[k].fd])
      BY <1>1, <1>3, <3>1
    <3>4. /\ "RDHUP" \in fds'[k].revents => link[peer[fds[k].fd]] \in Gone
          /\ "ERR" \in fds'[k].revents => link[peer[fds[k].fd]] \in Failed
      BY <3>3 DEF ReadyBits
    <3>5. "IN" \in fds'[k].revents /\ "RDHUP" \notin fds'[k].revents =>
            unread[peer[fds[k].fd]] > 0
      BY <3>1, <3>2 DEF ReadyBits, Flags
    <3> QED BY <1>0, <3>3, <3>4, <3>5 DEF Fresh
  <2>2. fds'[0].revents = Revents(0)
    BY <1>0, <1>1, <1>3
  <2>3. \A k \in UserSlots : "RDHUP" \in fds'[k].events
    BY <1>1, <1>3 DEF SnapshotInv
  <2>4. Revents(0) \subseteq {"IN"} /\ ("IN" \in Revents(0) => backlog # <<>>)
    BY DEF Revents
  <2> QED BY <1>0, <2>1, <2>2, <2>3, <2>4 DEF SnapshotInv
<1> QED BY <1>2, <1>4, <1>5

(* A visit to slot i that leaves every fd in place, and of the kernel's    *)
(* state touches only the connection of the slot visited.                  *)
LEMMA VisitKeeps ==
  ASSUME ChatAssumption, IInv, TypeOK', KernelInv', i' = i + 1, SameFds,
         \A k \in UserSlots : /\ fds'[k].revents = fds[k].revents
                              /\ "RDHUP" \in fds'[k].events
                              /\ k > i => /\ link'[peer[fds[k].fd]] = link[peer[fds[k].fd]]
                                          /\ unread'[peer[fds[k].fd]] = unread[peer[fds[k].fd]]
  PROVE  IInv'
<1> USE DEF IInv
<1>1. TableInv'
  BY SameTable
<1>2. UserSlots' = UserSlots /\ i \in Nat /\ user_counter \in Nat
  BY DEF UserSlots, SameFds, TypeOK
<1>3. ASSUME NEW k \in UserSlots, k >= i'
      PROVE  Fresh(k)'
  <2>1. Fresh(k) /\ k > i
    BY <1>2, <1>3 DEF SnapshotInv, UserSlots
  <2> QED BY <2>1, SlotPeer, SameFresh DEF SameFds
<1>4. fds'[0].revents \subseteq {"IN"} /\ i' # 0
  BY <1>2 DEF SameFds, SnapshotInv
<1> QED BY <1>1, <1>2, <1>3, <1>4 DEF SnapshotInv

(* Passing over a slot changes nothing but the index.                      *)
LEMMA SkipKeeps ==
  ASSUME ChatAssumption, IInv, SkipSlot
  PROVE  IInv'
<1>1. TypeOK'
  BY DEF IInv, TypeOK, SkipSlot, NextSlot, net
<1>2. KernelInv'
  BY DEF IInv, TableInv, KernelInv, Members, Queued, SkipSlot, net
<1> QED BY <1>1, <1>2, VisitKeeps DEF SkipSlot, NextSlot, net, SameFds, IInv, SnapshotInv

(* Fetching an error leaves the connection gone, and its slot behind the   *)
(* index.                                                                  *)
LEMMA ErrorKeeps ==
  ASSUME ChatAssumption, IInv, ErrorUser
  PROVE  IInv'
<1> USE DEF IInv, ErrorUser, NextSlot
<1>1. i \in UserSlots /\ fd \in Fds /\ who \in Clients
  BY Branches
<1>2. TypeOK'
  BY <1>1 DEF TypeOK, UserSlots, Links, Gone, Failed
<1>3. \A c \in Clients : link[c] \notin {"none", "closed"} => link'[c] \notin {"none", "closed"}
  BY <1>1 DEF TypeOK, Failed
<1>4. KernelInv'
  <2>1. Members \subseteq Clients /\ Queued' \subseteq Clients
    BY DEF Members, Queued, TypeOK
  <2> QED BY <1>3, <2>1, SameKernel DEF TableInv
<1>5. \A k \in UserSlots : k > i => link'[peer[fds[k].fd]] = link[peer[fds[k].fd]]
  BY <1>1, LaterSlot DEF TypeOK
<1> QED BY <1>2, <1>4, <1>5, VisitKeeps DEF SameFds, SnapshotInv

(* Sending a text may fetch the error of a reset, of a slot then behind    *)
(* the index.                                                              *)
LEMMA WriteKeeps ==
  ASSUME ChatAssumption, IInv, WriteUser
  PROVE  IInv'
<1> USE DEF IInv
<1>1. i \in UserSlots /\ i \in Nat /\ fd \in Fds /\ who \in Clients
  BY Branches DEF WriteUser
<1>2. /\ fds' = fds \/ fds' = [fds EXCEPT ![i].events = WatchInput(@)]
      /\ link' = link \/ link' = [link EXCEPT ![who] = "dead"]
      /\ users' = [users EXCEPT ![fd].write_buf = NULL]
      /\ \E more \in BOOLEAN : room' = [room EXCEPT ![who] = more]
      /\ i' = i + 1
      /\ UNCHANGED <<program, running, user_counter, peer, backlog, unread>>
  BY <1>1 DEF TypeOK, WriteUser, NextSlot
<1>3. fds' \in [0 .. USER_LIMIT -> Slot]
  <2>1. \A k \in 0 .. USER_LIMIT : fds[k] \in Slot
    BY DEF TypeOK
  <2>2. fds[i].events \in SUBSET Flags => WatchInput(fds[i].events) \in SUBSET Flags
    BY DEF WatchInput, Flags
  <2>3. i \in 0 .. USER_LIMIT /\ DOMAIN fds = 0 .. USER_LIMIT
    BY <1>1 DEF UserSlots, TypeOK
  <2>4. CASE fds' = [fds EXCEPT ![i].events = WatchInput(@)]
    <3>1. [fds[i] EXCEPT !.events = WatchInput(@)] \in Slot
      BY <2>1, <2>2, <2>3 DEF Slot
    <3> QED BY <2>1, <2>3, <2>4, <3>1 DEF TypeOK
  <2> QED BY <1>2, <2>4 DEF TypeOK
<1>4. TypeOK'
  <2>1. users' \in [Fds -> ClientData]
    <3>1. users \in [Fds -> ClientData]
      BY DEF TypeOK
    <3> QED BY <1>1, <1>2, <3>1 DEF ClientData
  <2>2. link' \in [Clients -> Links]
    BY <1>2 DEF TypeOK, Links, Gone
  <2>3. room' \in [Clients -> BOOLEAN] /\ i' \in 0 .. user_counter + 1
    BY <1>1, <1>2 DEF TypeOK, UserSlots
  <2> QED BY <1>2, <1>3, <2>1, <2>2, <2>3 DEF TypeOK
<1>5. KernelInv'
  <2>1. Members \subseteq Clients /\ Queued' \subseteq Clients
    BY <1>2 DEF Members, Queued, TypeOK
  <2>2. \A c \in Clients : link[c] \notin {"none", "closed"} => link'[c] \notin {"none", "closed"}
    BY <1>2 DEF TypeOK
  <2> QED BY <1>2, <2>1, <2>2, SameKernel DEF TableInv
<1>6. \A k \in UserSlots : k > i => link'[peer[fds[k].fd]] = link[peer[fds[k].fd]]
  BY <1>1, <1>2, LaterSlot DEF TypeOK
<1>7. \A k \in 0 .. USER_LIMIT :
        /\ k # i => fds'[k] = fds[k]
        /\ fds'[k].fd = fds[k].fd /\ fds'[k].revents = fds[k].revents
        /\ fds[k].events \subseteq fds'[k].events
  <2>1. \A k \in 0 .. USER_LIMIT : fds[k] \in Slot
    BY DEF TypeOK
  <2>2. fds[i].events \subseteq WatchInput(fds[i].events)
    BY DEF WatchInput
  <2>3. DOMAIN fds = 0 .. USER_LIMIT /\ i \in 0 .. USER_LIMIT
    BY <1>1 DEF TypeOK, UserSlots
  <2>4. CASE fds' = fds
    BY <2>4
  <2>5. CASE fds' = [fds EXCEPT ![i].events = WatchInput(@)]
    <3> SUFFICES ASSUME NEW k \in 0 .. USER_LIMIT
                 PROVE  /\ k # i => fds'[k] = fds[k]
                        /\ fds'[k].fd = fds[k].fd /\ fds'[k].revents = fds[k].revents
                        /\ fds[k].events \subseteq fds'[k].events
      OBVIOUS
    <3>1. CASE k # i
      BY <2>3, <2>5, <3>1
    <3>2. CASE k = i
      <4>1. fds'[i] = [fds[i] EXCEPT !.events = WatchInput(@)]
        BY <2>3, <2>5
      <4> QED BY <2>1, <2>2, <2>3, <3>2, <4>1 DEF Slot
    <3> QED BY <3>1, <3>2
  <2> QED BY <1>2, <2>4, <2>5
<1>8. UserSlots \subseteq 0 .. USER_LIMIT /\ fds'[0] = fds[0]
  BY <1>1, <1>7 DEF TypeOK, UserSlots, ChatAssumption
<1> QED BY <1>2, <1>4, <1>5, <1>6, <1>7, <1>8, VisitKeeps DEF SameFds, SnapshotInv

(* Whichever program runs, passing a text on changes no slot but in its    *)
(* events, and takes nothing out of those.                                 *)
LEMMA BroadcastShape ==
  ASSUME ChatAssumption, TypeOK, i \in UserSlots, fd \in Fds,
         NEW STATE data, data \in [Fds -> ClientData], Broadcast(data)
  PROVE  /\ users' \in [Fds -> ClientData]
         /\ fds' \in [0 .. USER_LIMIT -> Slot]
         /\ fds'[0] = fds[0]
         /\ \A k \in UserSlots : /\ fds'[k].fd = fds[k].fd
                                 /\ fds'[k].revents = fds[k].revents
                                 /\ fds[k].events \subseteq fds'[k].events
<1>0. /\ DOMAIN fds = 0 .. USER_LIMIT /\ UserSlots \subseteq 1 .. USER_LIMIT
      /\ \A k \in 0 .. USER_LIMIT : fds[k] \in Slot
      /\ 0 \in 0 .. USER_LIMIT
  BY DEF TypeOK, UserSlots, ChatAssumption
<1> DEFINE Watching(k) == [fds[k] EXCEPT !.events = WatchOutput(@)]
<1>1. \A k \in 0 .. USER_LIMIT :
        /\ Watching(k) \in Slot /\ Watching(k).fd = fds[k].fd
        /\ Watching(k).revents = fds[k].revents /\ fds[k].events \subseteq Watching(k).events
  BY <1>0 DEF Slot, WatchOutput, Flags
<1>2. \A S : Point(data, S) \in [Fds -> ClientData]
  BY DEF Point, ClientData
<1> HIDE DEF Watching
<1>3. CASE BroadcastAll(data)
  <2> DEFINE others == {j \in 1 .. user_counter : fds[j].fd # fd}
  <2>1. /\ users' = Point(data, SlotFds(others))
        /\ fds' = [j \in DOMAIN fds |-> IF j \in others THEN Watching(j) ELSE fds[j]]
    BY <1>3 DEF BroadcastAll, Watching
  <2>2. 0 \notin others
    OBVIOUS
  <2> HIDE DEF others
  <2> QED BY <1>0, <1>1, <1>2, <2>1, <2>2
<1>4. CASE BroadcastRoom(data)
  <2> DEFINE others == {j \in 1 .. user_counter - 1 : fds[j].fd # fd}
  <2>1. /\ users' = Point(data, SlotFds(others))
        /\ fds' = IF others = {} THEN fds ELSE [fds EXCEPT ![i] = Watching(i)]
    BY <1>4 DEF BroadcastRoom, Watching
  <2>2. i \in 1 .. USER_LIMIT /\ i # 0 /\ i \in 0 .. USER_LIMIT
    BY <1>0
  <2> HIDE DEF others
  <2>3. fds \in [0 .. USER_LIMIT -> Slot]
    BY DEF TypeOK
  <2>4. \A k \in UserSlots : k \in 0 .. USER_LIMIT
    BY <1>0
  <2>5. fds' \in [0 .. USER_LIMIT -> Slot] /\ fds'[0] = fds[0]
    BY <1>1, <2>1, <2>2, <2>3
  <2>6. \A k \in UserSlots : fds'[k] = fds[k] \/ (k = i /\ fds'[k] = Watching(k))
    BY <2>1, <2>2, <2>3, <2>4
  <2> QED BY <1>1, <1>2, <2>1, <2>4, <2>5, <2>6
<1> QED BY <1>3, <1>4 DEF Broadcast

(* Reading empties the socket of a slot that is then behind the index.     *)
LEMMA ReadKeeps ==
  ASSUME ChatAssumption, IInv, ReadUser
  PROVE  IInv'
<1> USE DEF IInv
<1>1. i \in UserSlots /\ i \in Nat /\ fd \in Fds /\ who \in Clients
  BY Branches DEF ReadUser
<1>2. /\ i' = i + 1
      /\ UNCHANGED <<program, running, user_counter, peer, link, backlog, room>>
      /\ \E left \in 0 .. unread[who] - 1 : unread' = [unread EXCEPT ![who] = left]
  BY DEF ReadUser, NextSlot
<1>3. [users EXCEPT ![fd].buf = who] \in [Fds -> ClientData]
  BY <1>1, ZenonT(60) DEF TypeOK, ClientData
<1>4. /\ users' \in [Fds -> ClientData]
      /\ fds' \in [0 .. USER_LIMIT -> Slot]
      /\ fds'[0] = fds[0]
      /\ \A k \in UserSlots : /\ fds'[k].fd = fds[k].fd
                              /\ fds'[k].revents = fds[k].revents
                              /\ fds[k].events \subseteq fds'[k].events
  <2>1. Broadcast([users EXCEPT ![fd].buf = who])
    BY DEF ReadUser
  <2> QED BY <1>1, <1>3, <2>1, BroadcastShape
<1>5. TypeOK'
  <2>1. unread' \in [Clients -> 0 .. MaxUnread]
    BY <1>1, <1>2 DEF TypeOK, ChatAssumption
  <2>2. i' \in 0 .. user_counter + 1
    BY <1>1, <1>2 DEF TypeOK, UserSlots
  <2> QED BY <1>2, <1>4, <2>1, <2>2 DEF TypeOK
<1>6. KernelInv'
  BY <1>2 DEF TableInv, KernelInv, Members, Queued
<1>7. \A k \in UserSlots : k > i => unread'[peer[fds[k].fd]] = unread[peer[fds[k].fd]]
  BY <1>1, <1>2, LaterSlot DEF TypeOK
<1> QED BY <1>2, <1>4, <1>5, <1>6, <1>7, VisitKeeps DEF SameFds, SnapshotInv

-----------------------------------------------------------------------------
(* The listening socket's visits.                                          *)

(* A connection turned away, or lost before accept, leaves the backlog     *)
(* only.                                                                   *)
LEMMA TurnAwayKeeps ==
  ASSUME ChatAssumption, IInv, AcceptFails \/ RefuseUser
  PROVE  IInv'
<1> USE DEF IInv
<1>1. /\ i = 0 /\ i' = i + 1 /\ backlog # <<>> /\ Head(backlog) \in Clients
      /\ backlog' = Tail(backlog)
      /\ link' = [link EXCEPT ![Head(backlog)] = "closed"]
      /\ unread' = unread \/ unread' = [unread EXCEPT ![Head(backlog)] = 0]
      /\ UNCHANGED <<program, running, fds, users, user_counter, peer, room>>
  BY Branches DEF AcceptFails, RefuseUser, NextSlot
<1>2. TypeOK'
  <2>1. link' \in [Clients -> Links]
    BY <1>1 DEF TypeOK, Links
  <2>0. 0 \in 0 .. MaxUnread
    BY DEF ChatAssumption
  <2>2. unread' \in [Clients -> 0 .. MaxUnread]
    BY <1>1, <2>0 DEF TypeOK
  <2>3. backlog' \in Seq(Clients)
    BY <1>1 DEF TypeOK
  <2>4. i' \in 0 .. user_counter + 1
    BY <1>1 DEF TypeOK
  <2> QED BY <1>1, <2>1, <2>2, <2>3, <2>4 DEF TypeOK
<1>3. Head(backlog) \in Queued /\ Head(backlog) \notin Queued'
  <2>1. /\ Len(backlog) \in Nat /\ 1 \in DOMAIN backlog
        /\ DOMAIN backlog = 1 .. Len(backlog)
        /\ DOMAIN backlog' = 1 .. (Len(backlog) - 1)
        /\ \A k \in DOMAIN backlog' : k + 1 \in DOMAIN backlog /\ backlog'[k] = backlog[k + 1]
        /\ Head(backlog) = backlog[1]
    BY <1>1 DEF TypeOK
  <2>2. \A k \in DOMAIN backlog' : k + 1 # 1 /\ backlog'[k] # backlog[1]
    BY <2>1 DEF TableInv, KernelInv
  <2> QED BY <2>1, <2>2 DEF Queued
<1>4. Head(backlog) \notin Members /\ Members \subseteq Clients
  BY <1>3 DEF TableInv, KernelInv, Members, TypeOK
<1>5. Queued' \subseteq Clients
  BY <1>2 DEF TypeOK, Queued
<1>6. KernelInv'
  BY <1>1, <1>3, <1>4, <1>5, SameKernel DEF TableInv, TypeOK
<1>7. \A k \in UserSlots : /\ link'[peer[fds[k].fd]] = link[peer[fds[k].fd]]
                           /\ unread'[peer[fds[k].fd]] = unread[peer[fds[k].fd]]
  BY <1>1, <1>4, SlotPeer DEF TypeOK
<1> QED BY <1>1, <1>2, <1>6, <1>7, VisitKeeps, SMTT(30) DEF SameFds, SnapshotInv

(* A connection accepted moves from the backlog to the slot after the      *)
(* last, whose snapshot is empty.                                          *)
LEMMA AcceptKeeps ==
  ASSUME ChatAssumption, IInv, NEW connfd \in FreeFds, AcceptUser(connfd)
  PROVE  IInv' /\ Members' = Members \cup {Head(backlog)}
<1> USE DEF IInv
<1>1. /\ i = 0 /\ i' = 1 /\ backlog # <<>> /\ Head(backlog) \in Clients
      /\ backlog' = Tail(backlog)
      /\ connfd \in Fds /\ peer[connfd] = NoClient
      /\ peer' = [peer EXCEPT ![connfd] = Head(backlog)]
      /\ user_counter \in Nat /\ user_counter < USER_LIMIT
      /\ user_counter' = user_counter + 1
      /\ UNCHANGED <<program, running, users, link, unread, room>>
  BY Branches, SMTT(30) DEF AcceptUser, Accept, NextSlot, FreeFds, TypeOK
<1> DEFINE new == [fd |-> connfd, events |-> UserEvents, revents |-> {}]
<1>2. fds' = [fds EXCEPT ![user_counter + 1] = new]
  BY DEF AcceptUser, Accept
<1>3. new \in Slot
  BY <1>1 DEF Slot, UserEvents, Flags
<1>4. /\ user_counter + 1 \in 0 .. USER_LIMIT
      /\ UserSlots' = UserSlots \cup {user_counter + 1}
      /\ user_counter + 1 \notin UserSlots \cup {0}
      /\ UserSlots \subseteq 1 .. USER_LIMIT
  BY <1>1 DEF UserSlots, ChatAssumption
<1>5. fds' \in [0 .. USER_LIMIT -> Slot]
  BY <1>2, <1>3 DEF TypeOK
<1>6. TypeOK'
  BY <1>1, <1>4, <1>5 DEF TypeOK, ChatAssumption
<1>7. /\ fds'[user_counter + 1] = new
      /\ \A k \in UserSlots \cup {0} : fds'[k] = fds[k]
  <2>1. DOMAIN fds = 0 .. USER_LIMIT /\ UserSlots \cup {0} \subseteq 0 .. USER_LIMIT
    BY <1>4 DEF TypeOK, ChatAssumption
  <2> HIDE DEF new
  <2> QED BY <1>2, <1>4, <2>1
<1>8. Head(backlog) \in Queued /\ Head(backlog) \notin Queued' /\ Queued' \subseteq Queued
  <2>1. /\ Len(backlog) \in Nat /\ 1 \in DOMAIN backlog
        /\ DOMAIN backlog = 1 .. Len(backlog)
        /\ DOMAIN backlog' = 1 .. (Len(backlog) - 1)
        /\ \A k \in DOMAIN backlog' : k + 1 \in DOMAIN backlog /\ backlog'[k] = backlog[k + 1]
        /\ Head(backlog) = backlog[1]
    BY <1>1 DEF TypeOK
  <2>2. \A k \in DOMAIN backlog' : k + 1 # 1 /\ backlog'[k] # backlog[1]
    BY <2>1 DEF TableInv, KernelInv
  <2> QED BY <2>1, <2>2 DEF Queued
<1>9. Head(backlog) \notin Members /\ Members' = Members \cup {Head(backlog)}
  <2>1. Head(backlog) \notin Members /\ Head(backlog) # NoClient
    BY <1>1, <1>8 DEF TableInv, KernelInv, ChatAssumption
  <2>2. \A f \in Fds : peer'[f] = IF f = connfd THEN Head(backlog) ELSE peer[f]
    BY <1>1 DEF TypeOK
  <2> QED BY <1>1, <2>1, <2>2 DEF Members
<1>10. KernelInv'
  <2>1. \A f, g \in Fds : peer'[f] # NoClient /\ peer'[f] = peer'[g] => f = g
    BY <1>1, <1>9, SMTT(20) DEF TableInv, KernelInv, Members, TypeOK
  <2>2. \A k, m \in DOMAIN backlog' : backlog'[k] = backlog'[m] => k = m
    <3>1. /\ Len(backlog) \in Nat
          /\ DOMAIN backlog' = 1 .. (Len(backlog) - 1)
          /\ \A k \in DOMAIN backlog' : k + 1 \in DOMAIN backlog /\ backlog'[k] = backlog[k + 1]
      BY <1>1 DEF TypeOK
    <3>2. \A k, m \in DOMAIN backlog' : backlog'[k] = backlog'[m] => k + 1 = m + 1
      BY <3>1 DEF TableInv, KernelInv
    <3> QED BY <3>1, <3>2
  <2> QED BY <1>1, <1>8, <1>9, <2>1, <2>2 DEF TableInv, KernelInv
<1>11. TableInv'
  <2>1. fds'[0].fd = listenfd
    BY <1>7 DEF TableInv
  <2>2. \A k \in UserSlots' : fds'[k].fd \in Fds /\ peer'[fds'[k].fd] # NoClient
    BY <1>1, <1>4, <1>7, Basics DEF TableInv, TypeOK
  <2>3. \A k \in UserSlots : fds[k].fd # connfd
    BY <1>1 DEF TableInv
  <2>4. \A k, m \in UserSlots' : fds'[k].fd = fds'[m].fd => k = m
    BY <1>4, <1>7, <2>3 DEF TableInv
  <2>5. \A f \in Fds : peer'[f] # NoClient => \E k \in UserSlots' : fds'[k].fd = f
    <3> SUFFICES ASSUME NEW f \in Fds, peer'[f] # NoClient
                 PROVE  \E k \in UserSlots' : fds'[k].fd = f
      OBVIOUS
    <3>1. CASE f = connfd
      BY <1>4, <1>7, <3>1
    <3>2. CASE f # connfd
      BY <1>1, <1>4, <1>7, <3>2, ZenonT(60) DEF TableInv, TypeOK
    <3> QED BY <3>1, <3>2
  <2>6. IsFiniteSet(Members') /\ Cardinality(Members') = user_counter'
    BY <1>1, <1>9, FS_AddElement DEF TableInv
  <2> QED BY <1>10, <2>1, <2>2, <2>4, <2>5, <2>6 DEF TableInv
<1>12. SnapshotInv'
  <2>1. ASSUME NEW k \in UserSlots', k >= 1
        PROVE  "RDHUP" \in fds'[k].events /\ Fresh(k)'
    <3>1. CASE k = user_counter + 1
      BY <1>7, <3>1 DEF Fresh, UserEvents
    <3>2. CASE k \in UserSlots
      <4>1. Fresh(k) /\ "RDHUP" \in fds[k].events
        BY <1>1, <2>1, <3>2 DEF SnapshotInv, UserSlots
      <4>2. fds[k].fd \in Fds /\ fds[k].fd # connfd
        BY <1>1, <3>2 DEF TableInv
      <4>3. peer'[fds'[k].fd] = peer[fds[k].fd] /\ fds'[k] = fds[k]
        BY <1>1, <1>7, <3>2, <4>2 DEF TypeOK
      <4> QED BY <1>1, <4>1, <4>3 DEF Fresh
    <3> QED BY <1>4, <3>1, <3>2
  <2>2. fds'[0] = fds[0] /\ i' # 0 /\ \A k \in UserSlots' : k >= 1
    BY <1>1, <1>4, <1>7
  <2> QED BY <1>1, <2>1, <2>2 DEF SnapshotInv
<1> QED BY <1>6, <1>9, <1>11, <1>12

-----------------------------------------------------------------------------
(* Closing a user.                                                         *)

(* Closing the slot visited moves the last slot, with its snapshot, to     *)
(* where the index is still to come.                                       *)
LEMMA DropKeeps ==
  ASSUME ChatAssumption, IInv, i \in UserSlots,
         NEW STATE data, data \in [Fds -> ClientData], DropUser(data)
  PROVE  IInv' /\ Members' = Members \ {who}
<1> USE DEF IInv
<1>1. /\ i \in 1 .. user_counter /\ user_counter \in 1 .. USER_LIMIT
      /\ user_counter \in UserSlots /\ UserSlots \subseteq 1 .. USER_LIMIT
      /\ fd \in Fds /\ who \in Clients /\ who \in Members /\ who # NoClient
  BY SlotPeer, Basics DEF TypeOK, UserSlots, who, fd
<1>2. /\ users' = [data EXCEPT ![fd] = data[fds[user_counter].fd]]
      /\ peer' = [peer EXCEPT ![fd] = NoClient]
      /\ link' = [link EXCEPT ![who] = "closed"]
      /\ unread' = [unread EXCEPT ![who] = 0]
      /\ room' = [room EXCEPT ![who] = TRUE]
      /\ fds' = [fds EXCEPT ![i] = fds[user_counter]]
      /\ user_counter' = user_counter - 1
      /\ UNCHANGED <<program, running, i, backlog>>
  BY DEF DropUser
<1>3. TypeOK'
  <2>1. users' \in [Fds -> ClientData]
    BY <1>1, <1>2, SlotPeer
  <2>2. fds' \in [0 .. USER_LIMIT -> Slot]
    BY <1>1, <1>2 DEF TypeOK
  <2>3. unread' \in [Clients -> 0 .. MaxUnread] /\ link' \in [Clients -> Links]
    BY <1>1, <1>2 DEF TypeOK, ChatAssumption, Links
  <2>4. user_counter' \in 0 .. USER_LIMIT /\ i' \in 0 .. user_counter' + 1
    BY <1>1, <1>2 DEF TypeOK
  <2>5. peer' \in [Fds -> Clients \cup {NoClient}] /\ room' \in [Clients -> BOOLEAN]
    BY <1>1, <1>2 DEF TypeOK
  <2> QED BY <1>2, <2>1, <2>2, <2>3, <2>4, <2>5 DEF TypeOK
<1>4. /\ UserSlots' = UserSlots \ {user_counter}
      /\ fds'[0] = fds[0]
      /\ \A k \in UserSlots' : fds'[k] = IF k = i THEN fds[user_counter] ELSE fds[k]
  <2>1. UserSlots' = UserSlots \ {user_counter}
    BY <1>1, <1>2 DEF UserSlots
  <2>2. DOMAIN fds = 0 .. USER_LIMIT /\ UserSlots \cup {0} \subseteq 0 .. USER_LIMIT
    BY <1>1 DEF TypeOK, ChatAssumption
  <2> QED BY <1>1, <1>2, <2>1, <2>2
<1>5. \A k \in UserSlots' : fds'[k].fd \in Fds \ {fd}
  <2>1. \A k \in UserSlots : k # i => fds[k].fd \in Fds \ {fd}
    BY <1>1 DEF TableInv, fd, UserSlots
  <2> QED BY <1>1, <1>4, <2>1
<1>6. \A f \in Fds : peer'[f] = IF f = fd THEN NoClient ELSE peer[f]
  BY <1>2 DEF TypeOK
<1>7. Members' = Members \ {who}
  <2>1. \A f \in Fds : peer[f] = who => f = fd
    BY <1>1 DEF TableInv, KernelInv, who
  <2> QED BY <1>1, <1>6, <2>1 DEF Members, who
<1>8. KernelInv'
  <2>1. \A f, g \in Fds : peer'[f] # NoClient /\ peer'[f] = peer'[g] => f = g
    BY <1>6 DEF TableInv, KernelInv
  <2>2. Queued' = Queued /\ who \notin Queued /\ Queued \subseteq Clients /\ Members \subseteq Clients
    <3>1. Queued' = Queued
      BY <1>2 DEF Queued
    <3>2. who \notin Queued
      BY <1>1 DEF TableInv, KernelInv
    <3>3. Queued \subseteq Clients /\ Members \subseteq Clients
      BY DEF TypeOK, Queued, Members
    <3> QED BY <3>1, <3>2, <3>3
  <2>3. \A c \in Members' \cup Queued' : link'[c] = link[c]
    BY <1>2, <1>7, <2>2 DEF TypeOK
  <2> QED BY <1>2, <1>7, <2>1, <2>2, <2>3 DEF TableInv, KernelInv
<1>9. TableInv'
  <2> DEFINE old(k) == IF k = i THEN user_counter ELSE k
  <2>0. /\ \A k \in UserSlots' : old(k) \in UserSlots /\ fds'[k].fd = fds[old(k)].fd
        /\ \A k, m \in UserSlots' : old(k) = old(m) => k = m
    BY <1>1, <1>4
  <2> HIDE DEF old
  <2>1. \A k \in UserSlots' : peer'[fds'[k].fd] # NoClient
    <3>1. \A k \in UserSlots : fds[k].fd \in Fds /\ peer[fds[k].fd] # NoClient
      BY DEF TableInv
    <3>2. \A k \in UserSlots' : peer'[fds'[k].fd] = peer[fds'[k].fd]
      BY <1>5, <1>6
    <3> QED BY <2>0, <3>1, <3>2
  <2>2. \A k, m \in UserSlots' : fds'[k].fd = fds'[m].fd => k = m
    BY <2>0 DEF TableInv
  <2>3. \A f \in Fds : peer'[f] # NoClient => \E k \in UserSlots' : fds'[k].fd = f
    <3> SUFFICES ASSUME NEW f \in Fds, peer'[f] # NoClient
                 PROVE  \E k \in UserSlots' : fds'[k].fd = f
      OBVIOUS
    <3>1. f # fd /\ peer[f] # NoClient
      BY <1>6
    <3>2. PICK k \in UserSlots : fds[k].fd = f
      BY <3>1 DEF TableInv
    <3>3. k # i
      BY <3>1, <3>2 DEF fd
    <3>4. CASE k = user_counter
      BY <1>1, <1>4, <3>2, <3>3, <3>4
    <3>5. CASE k # user_counter
      BY <1>4, <3>2, <3>3, <3>5
    <3> QED BY <3>4, <3>5
  <2>4. IsFiniteSet(Members') /\ Cardinality(Members') = user_counter'
    BY <1>1, <1>2, <1>7, FS_RemoveElement DEF TableInv
  <2> QED BY <1>4, <1>5, <1>8, <2>1, <2>2, <2>3, <2>4 DEF TableInv
<1>10. SnapshotInv'
  <2>1. ASSUME NEW k \in UserSlots'
        PROVE  "RDHUP" \in fds'[k].events /\ (k >= i => Fresh(k)')
    <3> DEFINE old == IF k = i THEN user_counter ELSE k
    <3>1. /\ old \in UserSlots /\ old # i /\ fds'[k] = fds[old]
          /\ k >= i => old > i
      BY <1>1, <1>4 DEF UserSlots
    <3>2. fds[old].fd \in Fds /\ peer'[fds[old].fd] = peer[fds[old].fd]
      BY <1>5, <1>6, <3>1
    <3>3. k >= i => Fresh(old) /\ peer[fds[old].fd] \in Clients \ {who}
      BY <1>1, <3>1, LaterSlot DEF SnapshotInv, UserSlots
    <3>4. k >= i => /\ link'[peer[fds[old].fd]] = link[peer[fds[old].fd]]
                    /\ unread'[peer[fds[old].fd]] = unread[peer[fds[old].fd]]
      BY <1>2, <3>3 DEF TypeOK
    <3>5. "RDHUP" \in fds[old].events
      BY <3>1 DEF SnapshotInv
    <3> HIDE DEF old
    <3> QED BY <3>1, <3>2, <3>3, <3>4, <3>5 DEF Fresh
  <2> QED BY <1>2, <1>4, <2>1 DEF SnapshotInv
<1> QED BY <1>3, <1>7, <1>9, <1>10

(* The two branches that close a user find it gone.                        *)
LEMMA HangupKeeps ==
  ASSUME ChatAssumption, IInv, HangupUser \/ ReadFails
  PROVE  IInv' /\ Members' = Members \ {who} /\ who \in Members /\ link[who] \in Gone
<1> USE DEF IInv
<1>1. i \in UserSlots /\ fd \in Fds /\ Fresh(i) /\ who \in Members
  BY Branches, SlotPeer DEF HangupUser, ReadFails, who, fd
<1>2. users \in [Fds -> ClientData] /\ ZeroBuf \in [Fds -> ClientData]
  BY <1>1, ZenonT(60) DEF TypeOK, ZeroBuf, ClientData
<1>3. DropUser(users) \/ DropUser(ZeroBuf)
  BY DEF HangupUser, ReadFails
<1>4. link[who] \in Gone
  BY <1>1 DEF HangupUser, AtHangup, Visiting, ReadFails, Fresh, who, fd, Gone
<1> QED BY <1>1, <1>2, <1>3, <1>4, DropKeeps

-----------------------------------------------------------------------------
(* The invariant, and the branch it makes unreachable.                     *)

(* The tables as main sets them up satisfy the invariant.                  *)
LEMMA InitInv ==
  ASSUME ChatAssumption, Init
  PROVE  IInv
<1>1. 0 \in 0 .. USER_LIMIT /\ UserSlots = {}
  BY DEF Init, UserSlots, ChatAssumption
<1>2. TypeOK
  <2>0. ListenEvents \subseteq Flags
    BY DEF ListenEvents, Flags
  <2>1. fds \in [0 .. USER_LIMIT -> Slot]
    BY <2>0 DEF Init, Slot
  <2>2. users \in [Fds -> ClientData]
    BY DEF Init, ClientData
  <2>3. /\ user_counter \in 0 .. USER_LIMIT /\ i \in 0 .. user_counter + 1
        /\ unread \in [Clients -> 0 .. MaxUnread]
    BY DEF Init, ChatAssumption
  <2>4. /\ peer \in [Fds -> Clients \cup {NoClient}] /\ link \in [Clients -> Links]
        /\ backlog \in Seq(Clients) /\ room \in [Clients -> BOOLEAN]
    BY DEF Init, Links
  <2> QED BY <2>1, <2>2, <2>3, <2>4 DEF Init, TypeOK
<1>3. Members = {} /\ Queued = {}
  BY DEF Init, Members, Queued
<1>4. TableInv
  BY <1>1, <1>3, FS_EmptySet DEF Init, TableInv, KernelInv
<1>5. SnapshotInv
  BY <1>1 DEF Init, SnapshotInv
<1> QED BY <1>2, <1>4, <1>5 DEF IInv

(* A step that only ends the process, or no step at all.                   *)
LEMMA StopKeeps ==
  ASSUME IInv, running' \in BOOLEAN, UNCHANGED <<program, server, net>>
  PROVE  IInv'
<1> USE DEF server, net, IInv
<1>1. TypeOK'
  BY DEF TypeOK
<1>2. TableInv'
  BY DEF TableInv, KernelInv, Members, Queued, UserSlots
<1>3. SnapshotInv'
  BY DEF SnapshotInv, Fresh, UserSlots
<1> QED BY <1>1, <1>2, <1>3

(* Every step of the server, a client or the kernel preserves the          *)
(* invariant.                                                              *)
LEMMA NextInv ==
  ASSUME ChatAssumption, IInv, [Next]_vars
  PROVE  IInv'
<1>1. CASE UNCHANGED vars
  BY <1>1, StopKeeps DEF vars, server, net, IInv, TypeOK
<1>2. CASE PollFails \/ SendKills
  BY <1>2, StopKeeps DEF PollFails, SendKills
<1>3. CASE Poll
  BY <1>3, PollKeeps
<1>4. CASE \E c \in Clients : ClientStep(c)
  BY <1>4, ConnectKeeps, ClientKeeps DEF ClientStep
<1>5. CASE AcceptFails \/ RefuseUser
  BY <1>5, TurnAwayKeeps
<1>6. CASE \E connfd \in FreeFds : AcceptUser(connfd)
  BY <1>6, AcceptKeeps
<1>7. CASE ErrorUser \/ SkipSlot
  BY <1>7, ErrorKeeps, SkipKeeps
<1>8. CASE ReadUser \/ WriteUser
  BY <1>8, ReadKeeps, WriteKeeps
<1>9. CASE HangupUser \/ ReadFails
  BY <1>9, HangupKeeps
<1> QED
  BY <1>1, <1>2, <1>3, <1>4, <1>5, <1>6, <1>7, <1>8, <1>9 DEF Next, VisitSlot

(* The table and the snapshot agree with the kernel in every reachable     *)
(* state.                                                                  *)
THEOREM Invariance == Spec => []IInv
<1>1. ChatAssumption
  BY ChatAssumption
<1>2. Init => IInv
  BY <1>1, InitInv
<1>3. IInv /\ [Next]_vars => IInv'
  BY <1>1, NextInv
<1> QED BY <1>2, <1>3, PTL DEF Spec

(* Every variable keeps its type; in particular the loop's index and the   *)
(* number of users stay within fds[USER_LIMIT + 1].                        *)
THEOREM Typing == Spec => []TypeOK
BY Invariance, PTL DEF IInv

(* Slots 1 to user_counter are exactly the open connections, whatever the  *)
(* closing swap moves and whatever the clients do meanwhile.               *)
THEOREM Table == Spec => []TableInv
BY Invariance, PTL DEF IInv

(* For every slot not yet visited, the snapshot poll took is still true.   *)
THEOREM Snapshot == Spec => []SnapshotInv
BY Invariance, PTL DEF IInv

(* The branch marked "code should not come to here" is unreachable.        *)
THEOREM RecvFindsSomething == Spec => []NeverReadsNothing
<1>1. ChatAssumption
  BY ChatAssumption
<1>2. IInv => NeverReadsNothing
  <2> SUFFICES ASSUME IInv, ReadsNothing PROVE FALSE
    BY DEF NeverReadsNothing
  <2>1. AtInput /\ unread[who] = 0 /\ link[who] \notin Failed
    BY DEF ReadsNothing
  <2>2. Fresh(i) /\ "IN" \in fds[i].revents /\ "RDHUP" \notin fds[i].revents
    BY <1>1, <2>1, Branches DEF AtInput, AtHangup, Visiting
  <2> QED BY <2>1, <2>2 DEF Fresh, who, fd
<1> QED BY <1>2, Invariance, PTL

-----------------------------------------------------------------------------
(* The server implements the abstract room.                                *)

(* The server starts as an empty room.                                     *)
LEMMA InitRoom ==
  ASSUME Init
  PROVE  Room!RoomInit
BY DEF Init, Room!RoomInit, Members, Gone, Failed

Hung == {c \in Clients : link[c] \in Gone}

(* The abstract module's own copy of the FiniteSets operator is the same.  *)
LEMMA SameCardinality == \A S : Room!Cardinality(S) = Cardinality(S)
BY DEF Cardinality, Room!Cardinality

(* Every step of the server is a step of the room, or leaves it as it is.  *)
LEMMA StepRoom ==
  ASSUME ChatAssumption, IInv, [Next]_vars
  PROVE  [Room!RoomNext]_(Room!roomVars)
<1> USE DEF Room!roomVars
<1>0. Room!Waiting = Queued
  BY DEF Room!Waiting, Queued
<1>1. CASE /\ peer' = peer /\ backlog' = backlog
           /\ \A c \in Clients : link'[c] \in Gone <=> link[c] \in Gone
  BY <1>1 DEF Members
<1>2. CASE UNCHANGED vars \/ PollFails \/ SendKills \/ Poll \/ SkipSlot
  BY <1>1, <1>2 DEF vars, net, PollFails, SendKills, Poll, SkipSlot
<1>3. CASE ReadUser \/ ErrorUser \/ WriteUser
  <2>1. who \in Clients
    BY <1>3, Branches DEF ReadUser, ErrorUser, WriteUser
  <2>2. /\ peer' = peer /\ backlog' = backlog
        /\ link' = link \/ (link[who] \in Failed /\ link' = [link EXCEPT ![who] = "dead"])
    BY <1>3, <2>1 DEF ReadUser, ErrorUser, WriteUser, IInv, TypeOK, Failed
  <2>3. \A c \in Clients : link'[c] \in Gone <=> link[c] \in Gone
    BY <2>1, <2>2 DEF IInv, TypeOK, Gone
  <2> QED BY <1>1, <2>2, <2>3
<1>4. ASSUME NEW c \in Clients, ClientStep(c)
      PROVE  [Room!RoomNext]_(Room!roomVars)
  <2>1. CASE Connect(c)
    <3>1. c \notin Members \cup Queued /\ link[c] = "none"
      BY <2>1 DEF Connect, IInv, TableInv, KernelInv
    <3>2. Members' = Members /\ backlog' = Append(backlog, c)
      BY <2>1 DEF Connect, Members
    <3>3. Hung' = Hung
      BY <2>1, <3>1 DEF Connect, Hung, Gone, Failed, IInv, TypeOK
    <3> QED BY <1>0, <3>1, <3>2, <3>3 DEF Room!RoomNext, Room!Arrive, Hung
  <2>2. CASE Say(c) \/ Drain(c)
    BY <1>1, <2>2 DEF Say, Drain
  <2>3. CASE Leave(c) \/ Reset(c)
    <3>1. /\ Members' = Members /\ backlog' = backlog
          /\ link[c] \in {"up", "fin"}
      BY <2>3 DEF Leave, Reset, Members
    <3>2. CASE link[c] = "up"
      <4>1. c \notin Hung /\ Hung' = Hung \cup {c}
        BY <2>3, <3>2 DEF Leave, Reset, Hung, Gone, Failed, IInv, TypeOK
      <4> QED BY <3>1, <4>1 DEF Room!RoomNext, Room!HangUp, Hung
    <3>3. CASE link[c] = "fin"
      <4>1. Hung' = Hung
        BY <2>3, <3>3 DEF Leave, Reset, Hung, Gone, Failed, IInv, TypeOK
      <4> QED BY <3>1, <4>1 DEF Hung
    <3> QED BY <3>1, <3>2, <3>3
  <2> QED BY <1>4, <2>1, <2>2, <2>3 DEF ClientStep
<1>5. CASE AcceptFails \/ RefuseUser
  <2>1. /\ backlog # <<>> /\ backlog' = Tail(backlog) /\ Head(backlog) \in Clients
        /\ Members' = Members
        /\ link' = [link EXCEPT ![Head(backlog)] = "closed"]
    BY <1>5, Branches DEF AcceptFails, RefuseUser, Members
  <2>2. Hung' = Hung \ {Head(backlog)}
    BY <2>1 DEF Hung, Gone, Failed, IInv, TypeOK
  <2>3. CASE AcceptFails
    <3>1. Head(backlog) \in Hung
      BY <2>1, <2>3 DEF AcceptFails, Hung, Gone
    <3> QED BY <2>1, <2>2, <3>1 DEF Room!RoomNext, Room!Abort, Hung
  <2>4. CASE RefuseUser
    <3>1. Cardinality(Members) >= USER_LIMIT
      BY <2>4 DEF RefuseUser, IInv, TableInv
    <3>2. Room!Refuse
      BY <2>1, <2>2, <3>1, SameCardinality DEF Room!Refuse, Hung
    <3> QED BY <3>2 DEF Room!RoomNext
  <2> QED BY <1>5, <2>3, <2>4
<1>6. ASSUME NEW connfd \in FreeFds, AcceptUser(connfd)
      PROVE  [Room!RoomNext]_(Room!roomVars)
  <2>1. Members' = Members \cup {Head(backlog)}
    BY <1>6, AcceptKeeps
  <2>2. /\ backlog # <<>> /\ backlog' = Tail(backlog) /\ link' = link
        /\ Cardinality(Members) < USER_LIMIT
    BY <1>6, Branches DEF AcceptUser, Accept, IInv, TableInv
  <2>3. Room!Admit
    BY <2>1, <2>2, SameCardinality DEF Room!Admit
  <2> QED BY <2>3 DEF Room!RoomNext
<1>7. CASE HangupUser \/ ReadFails
  <2>1. /\ Members' = Members \ {who} /\ who \in Members /\ link[who] \in Gone
        /\ who \in Clients
    BY <1>7, HangupKeeps, Branches DEF HangupUser, ReadFails
  <2>2. backlog' = backlog /\ link' = [link EXCEPT ![who] = "closed"]
    BY <1>7 DEF HangupUser, ReadFails, DropUser
  <2>3. who \in Hung /\ Hung' = Hung \ {who}
    BY <2>1, <2>2 DEF Hung, Gone, Failed, IInv, TypeOK
  <2> QED BY <2>1, <2>2, <2>3 DEF Room!RoomNext, Room!Remove, Hung
<1> QED
  BY <1>2, <1>3, <1>4, <1>5, <1>6, <1>7 DEF Next, VisitSlot

(* Every behaviour of the server is one of the abstract room: nobody is    *)
(* refused while there is room, nobody is admitted beyond USER_LIMIT, and  *)
(* nobody is closed who has not hung up.                                   *)
THEOREM Implementation == Spec => ImplementsRoom
<1>1. ChatAssumption
  BY ChatAssumption
<1>2. Init => Room!RoomInit
  BY InitRoom
<1>3. IInv /\ [Next]_vars => [Room!RoomNext]_(Room!roomVars)
  BY <1>1, StepRoom
<1> QED
  BY <1>2, <1>3, Invariance, PTL DEF Spec, ImplementsRoom, Room!RoomSpec
=============================================================================
