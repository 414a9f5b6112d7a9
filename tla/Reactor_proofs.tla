---------------------------- MODULE Reactor_proofs ----------------------------
(***************************************************************************)
(* The inductive invariant of Reactor, and what follows from it for any    *)
(* number of clients, descriptors and slots, and for any SCAN, TIMEOUT and *)
(* BUFLEN.                                                                 *)
(***************************************************************************)
EXTENDS Reactor, WellFoundedInduction, TLAPS

Queued == {backlog[k] : k \in DOMAIN backlog}

(* A client's only connection is in one place: it is unknown, or it waits  *)
(* once to be accepted, or one descriptor stands for it, or it is over.    *)
Once ==
  /\ \A f, g \in Fds : owner[f] = owner[g] /\ owner[f] \in Clients => f = g
  /\ \A f \in Fds : owner[f] \in Clients => link[owner[f]] # "none" /\ owner[f] \notin Queued
  /\ \A c \in Queued : link[c] # "none"
  /\ \A k, m \in DOMAIN backlog : backlog[k] = backlog[m] => k = m

(* Only the listening socket's slot accepts; any other that is live waits  *)
(* for the kind of event that its callback handles.                        *)
Roles ==
  /\ g_events[MAX_EVENTS].call_back = "acceptconn" /\ g_events[MAX_EVENTS].events = "IN"
  /\ \A s \in Slots : g_events[s].call_back # "acceptconn"
  /\ \A s \in Slots : Live(s) =>
       IF g_events[s].events = "IN" THEN g_events[s].call_back = "recvdata"
                                    ELSE g_events[s].call_back = "senddata"

(* What made an event ready has not gone when its turn comes, unless the   *)
(* client has.                                                             *)
StillReady(e) ==
  /\ e.of = Listener => backlog # <<>>
  /\ e.of \in Clients /\ link[e.of] = "up" =>
       IF e.events = "IN" THEN unread[e.of] > 0 ELSE room[e.of]

Reported == pc = "dispatch" => \A e \in batch : StillReady(e)

IInv == TypeOK /\ KernelSync /\ BatchFresh /\ Once /\ Roles /\ Reported

(* The slots, the descriptors and the markers do not overlap.              *)
LEMMA Basics ==
  ASSUME ReactorAssumption
  PROVE  /\ lfd \notin Fds /\ lfd \in AllFds /\ Fds \subseteq AllFds
         /\ 0 \notin AllFds /\ AllFds \subseteq Nat
         /\ MAX_EVENTS \in 0 .. MAX_EVENTS /\ MAX_EVENTS \notin Slots
         /\ Slots \subseteq 0 .. MAX_EVENTS
         /\ \A s \in 0 .. MAX_EVENTS : s \in Slots \/ s = MAX_EVENTS
         /\ NoClient \notin Clients /\ Listener \notin Clients /\ Other \notin Clients
         /\ NoClient # Listener /\ Other # Listener /\ Other # NoClient
         /\ MAX_EVENTS \in Nat /\ MAX_EVENTS > 0
<1>1. MAX_EVENTS \in Nat /\ MAX_EVENTS > 0
  BY DEF ReactorAssumption
<1>2. MAX_EVENTS \in 0 .. MAX_EVENTS /\ MAX_EVENTS \notin Slots
         /\ Slots \subseteq 0 .. MAX_EVENTS
         /\ \A s \in 0 .. MAX_EVENTS : s \in Slots \/ s = MAX_EVENTS
  BY <1>1 DEF Slots
<1> QED BY <1>1, <1>2 DEF ReactorAssumption, AllFds

(* A set of descriptors, or of slots, that is not empty has a lowest one.  *)
LEMMA LowestIn ==
  ASSUME NEW S, S \subseteq Nat, S # {}
  PROVE  Lowest(S) \in S /\ \A y \in S : Lowest(S) <= y
<1> DEFINE R == {ss \in Nat \X Nat : ss[1] < ss[2]}
<1>1. IsWellFoundedOn(R, Nat)
  BY NatLessThanWellFounded DEF OpToRel
<1>2. \A x, y \in Nat : x < y => <<x, y>> \in R
  OBVIOUS
<1> HIDE DEF R
<1>3. PICK x \in S : \A y \in S : <<y, x>> \notin R
  BY <1>1, WFMin
<1>4. ASSUME NEW y \in S
      PROVE  x <= y
  <2>1. x \in Nat /\ y \in Nat /\ ~(y < x)
    BY <1>2, <1>3
  <2> QED BY <2>1
<1> QED BY <1>4 DEF Lowest

-----------------------------------------------------------------------------
(* KernelSync, an element at a time.                                       *)

Reg(s) == [fd |-> g_events[s].fd, ptr |-> s, events |-> g_events[s].events]

Synced ==
  /\ \A r \in interest : r.ptr \in 0 .. MAX_EVENTS /\ Live(r.ptr) /\ r = Reg(r.ptr)
  /\ \A s \in 0 .. MAX_EVENTS : Live(s) => Reg(s) \in interest

SlotsKept ==
  /\ \A s, t \in 0 .. MAX_EVENTS : Live(s) /\ Live(t) /\ g_events[s].fd = g_events[t].fd => s = t
  /\ \A s \in Slots : Live(s) =>
       g_events[s].fd \in Fds /\ owner[g_events[s].fd] \in Clients
  /\ Live(MAX_EVENTS) /\ g_events[MAX_EVENTS].fd = lfd /\ owner[lfd] = Listener

(* The kernel's table is the image of the live slots.                      *)
LEMMA SyncForm == KernelSync <=> Synced /\ SlotsKept
<1>1. Synced <=> interest = {Reg(s) : s \in {t \in 0 .. MAX_EVENTS : Live(t)}}
  <2>1. \A s : Reg(s).ptr = s
    BY DEF Reg
  <2> QED BY <2>1 DEF Synced
<1> QED BY <1>1 DEF KernelSync, SlotsKept, Reg

(* What a live slot holds.                                                 *)
LEMMA LiveSlot ==
  ASSUME ReactorAssumption, TypeOK, KernelSync
  PROVE  \A s \in 0 .. MAX_EVENTS : Live(s) =>
           /\ g_events[s].fd \in AllFds /\ g_events[s].events \in {"IN", "OUT"}
           /\ owner[g_events[s].fd] \in Clients \cup {Listener}
           /\ s \in Slots <=> g_events[s].fd \in Fds
           /\ s \in Slots <=> owner[g_events[s].fd] \in Clients
<1> SUFFICES ASSUME NEW s \in 0 .. MAX_EVENTS, Live(s)
             PROVE  /\ g_events[s].fd \in AllFds /\ g_events[s].events \in {"IN", "OUT"}
                    /\ owner[g_events[s].fd] \in Clients \cup {Listener}
                    /\ s \in Slots <=> g_events[s].fd \in Fds
                    /\ s \in Slots <=> owner[g_events[s].fd] \in Clients
  OBVIOUS
<1>1. Reg(s) \in Registration
  BY SyncForm DEF Synced, TypeOK
<1>2. g_events[s].events \in {"IN", "OUT"}
  BY <1>1 DEF Reg, Registration
<1>3. s \in Slots \/ s = MAX_EVENTS
  BY Basics
<1>4. CASE s \in Slots
  BY <1>2, <1>4, SyncForm, Basics DEF SlotsKept
<1>5. CASE s = MAX_EVENTS
  BY <1>2, <1>5, SyncForm, Basics DEF SlotsKept
<1> QED BY <1>3, <1>4, <1>5

(* What an event not yet handled stands for, by the callback of its slot,  *)
(* and that no other event is for the same slot.                           *)
LEMMA EventSlot ==
  ASSUME ReactorAssumption, IInv, pc = "dispatch", NEW e \in batch
  PROVE  /\ e.ptr \in 0 .. MAX_EVENTS /\ Live(e.ptr)
         /\ g_events[e.ptr].events = e.events /\ owner[g_events[e.ptr].fd] = e.of
         /\ \A d \in batch : d # e => d.ptr # e.ptr
         /\ \/ /\ g_events[e.ptr].call_back = "acceptconn" /\ e.ptr = MAX_EVENTS
               /\ e.of = Listener /\ backlog # <<>>
            \/ /\ e.ptr \in Slots /\ e.of \in Clients /\ g_events[e.ptr].fd \in Fds
               /\ \/ g_events[e.ptr].call_back = "recvdata" /\ e.events = "IN"
                  \/ g_events[e.ptr].call_back = "senddata" /\ e.events = "OUT"
<1> USE DEF IInv
<1>1. \A d \in batch : /\ d \in Event /\ d.ptr \in 0 .. MAX_EVENTS /\ Live(d.ptr)
                       /\ g_events[d.ptr].events = d.events
                       /\ owner[g_events[d.ptr].fd] = d.of
  BY DEF TypeOK, BatchFresh, Event
<1>2. \A d \in batch : d # e => d.ptr # e.ptr
  BY <1>1 DEF Event
<1>3. CASE e.ptr \in Slots
  BY <1>1, <1>2, <1>3, LiveSlot DEF Roles
<1>4. CASE e.ptr = MAX_EVENTS
  <2>1. e.of = Listener
    BY <1>1, <1>4, SyncForm DEF SlotsKept
  <2> QED BY <1>1, <1>2, <1>4, <2>1 DEF Roles, Reported, StillReady
<1> QED BY <1>1, <1>3, <1>4, Basics

-----------------------------------------------------------------------------
(* The two ways in which a slot changes together with epoll's table.       *)

(* A slot is set up, or turned, and registered in place of what was        *)
(* registered for its descriptor.                                          *)
Puts(p, ev) ==
  /\ ev.status = 1 /\ ev.events \in {"IN", "OUT"} /\ ev.fd \in Fds
  /\ g_events' = [g_events EXCEPT ![p] = ev]
  /\ interest' = {r \in interest : r.fd # ev.fd}
                   \cup {[fd |-> ev.fd, ptr |-> p, events |-> ev.events]}

(* Slots and epoll still agree if no other slot has the descriptor.        *)
LEMMA PutSync ==
  ASSUME ReactorAssumption, TypeOK, KernelSync,
         NEW p \in Slots, NEW ev \in Myevent, Puts(p, ev),
         Live(p) => g_events[p].fd = ev.fd,
         \A s \in 0 .. MAX_EVENTS : s # p /\ Live(s) =>
           g_events[s].fd # ev.fd /\ owner'[g_events[s].fd] = owner[g_events[s].fd],
         owner'[ev.fd] \in Clients
  PROVE  /\ KernelSync' /\ interest' \subseteq Registration
         /\ g_events' \in [0 .. MAX_EVENTS -> Myevent]
<1> DEFINE new == [fd |-> ev.fd, ptr |-> p, events |-> ev.events]
<1> USE DEF Puts
<1>1. /\ p \in 0 .. MAX_EVENTS /\ p # MAX_EVENTS
      /\ DOMAIN g_events = 0 .. MAX_EVENTS /\ g_events \in [0 .. MAX_EVENTS -> Myevent]
  BY Basics DEF TypeOK
<1>2. /\ g_events'[p] = ev
      /\ \A s \in 0 .. MAX_EVENTS : s # p => g_events'[s] = g_events[s]
  BY <1>1
<1>3. /\ Reg(p)' = new /\ Live(p)'
      /\ \A s \in 0 .. MAX_EVENTS : s # p => Reg(s)' = Reg(s) /\ (Live(s)' <=> Live(s))
  BY <1>2 DEF Reg, Live
<1>4. Synced /\ SlotsKept
  BY SyncForm
<1>5. \A s \in 0 .. MAX_EVENTS : Reg(s).fd = g_events[s].fd /\ Reg(s).ptr = s
  BY DEF Reg
<1>6. new.ptr = p /\ new \in Registration
  BY <1>1, Basics DEF Registration
<1> HIDE DEF new
<1>7. interest' = {r \in interest : r.fd # ev.fd} \cup {new}
  BY DEF new
<1>8. Synced'
  <2>1. ASSUME NEW r \in interest'
        PROVE  r.ptr \in 0 .. MAX_EVENTS /\ Live(r.ptr)' /\ r = Reg(r.ptr)'
    <3>1. CASE r = new
      BY <1>1, <1>3, <1>6, <3>1
    <3>2. CASE r \in interest /\ r.fd # ev.fd
      <4>1. r.ptr \in 0 .. MAX_EVENTS /\ Live(r.ptr) /\ r = Reg(r.ptr)
        BY <1>4, <3>2 DEF Synced
      <4>2. r.ptr # p
        BY <1>5, <3>2, <4>1
      <4> QED BY <1>3, <4>1, <4>2
    <3> QED BY <1>7, <2>1, <3>1, <3>2
  <2>2. ASSUME NEW s \in 0 .. MAX_EVENTS, Live(s)'
        PROVE  Reg(s)' \in interest'
    <3>1. CASE s = p
      BY <1>3, <1>7, <3>1
    <3>2. CASE s # p
      <4>1. Live(s) /\ Reg(s) \in interest
        BY <1>3, <1>4, <2>2, <3>2 DEF Synced
      <4>2. Reg(s).fd # ev.fd
        BY <1>5, <3>2, <4>1
      <4> QED BY <1>3, <1>7, <3>2, <4>1, <4>2
    <3> QED BY <3>1, <3>2
  <2> QED BY <2>1, <2>2 DEF Synced
<1>9. SlotsKept'
  <2>1. \A s, t \in 0 .. MAX_EVENTS :
          Live(s)' /\ Live(t)' /\ g_events'[s].fd = g_events'[t].fd => s = t
    BY <1>2, <1>3, <1>4 DEF SlotsKept
  <2>2. \A s \in Slots : Live(s)' =>
          g_events'[s].fd \in Fds /\ owner'[g_events'[s].fd] \in Clients
    BY <1>2, <1>3, <1>4, Basics DEF SlotsKept
  <2>3. Live(MAX_EVENTS)' /\ g_events'[MAX_EVENTS].fd = lfd /\ owner'[lfd] = Listener
    BY <1>1, <1>2, <1>3, <1>4, Basics DEF SlotsKept
  <2> QED BY <2>1, <2>2, <2>3 DEF SlotsKept
<1>10. KernelSync'
  <2>1. KernelSync' <=> Synced' /\ SlotsKept'
    BY SyncForm, PTL
  <2> QED BY <1>8, <1>9, <2>1
<1>11. interest' \subseteq Registration
  BY <1>6, <1>7 DEF TypeOK
<1> QED BY <1>1, <1>10, <1>11

(* Live slots are closed, with the descriptors they hold.                  *)
Closes(S, F) ==
  /\ S \subseteq Slots /\ \A s \in S : Live(s)
  /\ F = {g_events[s].fd : s \in S}
  /\ Close(F)
  /\ interest' = Dropped(interest, F)
  /\ g_events' = [s \in DOMAIN g_events |->
                    IF s \in S THEN [eventdel(g_events[s]) EXCEPT !.len = 0] ELSE g_events[s]]

(* Slots and epoll still agree, and no other slot has changed.             *)
LEMMA ClosesSync ==
  ASSUME ReactorAssumption, TypeOK, KernelSync, NEW S, NEW F, Closes(S, F)
  PROVE  /\ KernelSync' /\ interest' \subseteq Registration
         /\ g_events' \in [0 .. MAX_EVENTS -> Myevent]
         /\ F \subseteq Fds
         /\ \A s \in 0 .. MAX_EVENTS : Live(s) /\ s \notin S =>
              g_events'[s] = g_events[s] /\ owner'[g_events[s].fd] = owner[g_events[s].fd]
         /\ \A s \in S : ~Live(s)' /\ g_events'[s].call_back = g_events[s].call_back
         /\ \A s \in 0 .. MAX_EVENTS : s \notin S => g_events'[s] = g_events[s]
<1>1. /\ S \subseteq Slots /\ MAX_EVENTS \notin S /\ S \subseteq 0 .. MAX_EVENTS
      /\ DOMAIN g_events = 0 .. MAX_EVENTS
      /\ \A s \in 0 .. MAX_EVENTS : g_events[s] \in Myevent
  BY Basics DEF TypeOK, Closes
<1>2. Synced /\ SlotsKept
  BY SyncForm
<1>3. F \subseteq Fds
  BY <1>2 DEF SlotsKept, Closes
<1>4. /\ \A s \in 0 .. MAX_EVENTS : s \notin S => g_events'[s] = g_events[s]
      /\ \A s \in S : g_events'[s] = [eventdel(g_events[s]) EXCEPT !.len = 0]
  BY <1>1 DEF Closes
<1>5. ASSUME NEW s \in S
      PROVE  /\ g_events'[s] \in Myevent /\ g_events'[s].status = 0
             /\ g_events'[s].call_back = g_events[s].call_back
  <2>1. g_events[s] \in Myevent /\ TIMEOUT \in 0 .. TIMEOUT /\ 0 \in 0 .. BUFLEN
    BY <1>1 DEF ReactorAssumption
  <2>2. g_events'[s] = [g_events[s] EXCEPT !.status = 0, !.age = TIMEOUT, !.len = 0]
    BY <1>4, <2>1 DEF eventdel, Myevent
  <2> QED BY <2>1, <2>2, ZenonT(60) DEF Myevent
<1>6. g_events' \in [0 .. MAX_EVENTS -> Myevent]
  BY <1>1, <1>4, <1>5 DEF Closes
<1>7. \A s \in 0 .. MAX_EVENTS : Live(s) /\ s \notin S => g_events[s].fd \notin F
  BY <1>1, <1>2 DEF SlotsKept, Closes
<1>8. \A f \in AllFds : f \notin F => owner'[f] = owner[f]
  BY DEF Closes, Close
<1>9. \A s \in 0 .. MAX_EVENTS : /\ Live(s)' <=> Live(s) /\ s \notin S
                                 /\ s \notin S => Reg(s)' = Reg(s)
  <2>1. \A s \in 0 .. MAX_EVENTS : s \notin S => (Live(s)' <=> Live(s)) /\ Reg(s)' = Reg(s)
    BY <1>4 DEF Live, Reg
  <2>2. \A s \in S : ~Live(s)'
    BY <1>5 DEF Live
  <2> QED BY <2>1, <2>2
<1>10. \A s \in 0 .. MAX_EVENTS : Reg(s).fd = g_events[s].fd /\ Reg(s).ptr = s
  BY DEF Reg
<1>11. \A r : r \in interest' <=> r \in interest /\ r.fd \notin F
  BY DEF Closes, Dropped
<1>12. Synced'
  <2>1. ASSUME NEW r \in interest'
        PROVE  r.ptr \in 0 .. MAX_EVENTS /\ Live(r.ptr)' /\ r = Reg(r.ptr)'
    <3>1. r \in interest /\ r.fd \notin F
      BY <1>11
    <3>2. r.ptr \in 0 .. MAX_EVENTS /\ Live(r.ptr) /\ r = Reg(r.ptr)
      BY <1>2, <3>1 DEF Synced
    <3>3. r.ptr \notin S
      BY <1>10, <3>1, <3>2 DEF Closes
    <3> QED BY <1>9, <3>2, <3>3
  <2>2. ASSUME NEW s \in 0 .. MAX_EVENTS, Live(s)'
        PROVE  Reg(s)' \in interest'
    <3>1. Live(s) /\ s \notin S /\ Reg(s)' = Reg(s)
      BY <1>9, <2>2
    <3> QED BY <1>2, <1>7, <1>10, <1>11, <3>1 DEF Synced
  <2> QED BY <2>1, <2>2 DEF Synced
<1>13. SlotsKept'
  <2>1. \A s \in 0 .. MAX_EVENTS : Live(s)' =>
          Live(s) /\ s \notin S /\ g_events'[s].fd = g_events[s].fd
    BY <1>4, <1>9
  <2>2. \A s, t \in 0 .. MAX_EVENTS :
          Live(s)' /\ Live(t)' /\ g_events'[s].fd = g_events'[t].fd => s = t
    BY <1>2, <2>1 DEF SlotsKept
  <2>3. \A s \in Slots : Live(s)' =>
          g_events'[s].fd \in Fds /\ owner'[g_events'[s].fd] \in Clients
    BY <1>2, <1>7, <1>8, <2>1, Basics DEF SlotsKept
  <2>4. Live(MAX_EVENTS)' /\ g_events'[MAX_EVENTS].fd = lfd /\ owner'[lfd] = Listener
    BY <1>1, <1>2, <1>3, <1>4, <1>8, <1>9, Basics DEF SlotsKept
  <2> QED BY <2>2, <2>3, <2>4 DEF SlotsKept
<1>14. KernelSync'
  <2>1. KernelSync' <=> Synced' /\ SlotsKept'
    BY SyncForm, PTL
  <2> QED BY <1>12, <1>13, <2>1
<1>15. interest' \subseteq Registration
  BY <1>11 DEF TypeOK
<1>16. \A s \in 0 .. MAX_EVENTS : Live(s) /\ s \notin S =>
         g_events'[s] = g_events[s] /\ owner'[g_events[s].fd] = owner[g_events[s].fd]
  BY <1>4, <1>7, <1>8, LiveSlot
<1>17. \A s \in S : ~Live(s)' /\ g_events'[s].call_back = g_events[s].call_back
  BY <1>5 DEF Live
<1> QED BY <1>3, <1>4, <1>6, <1>14, <1>15, <1>16, <1>17

-----------------------------------------------------------------------------
(* What the events not yet handled need of a step.                         *)

(* A client has one descriptor.                                            *)
LEMMA OneFd ==
  ASSUME Once
  PROVE  \A f \in Fds : \A g \in Fds \ {f} : owner[f] \in Clients => owner[f] # owner[g]
BY DEF Once

(* A callback disturbs no other event than its own, if it changes neither  *)
(* another live slot nor another client's connection, and only accept      *)
(* takes from the backlog.                                                 *)
LEMMA OthersKept ==
  ASSUME ReactorAssumption, IInv, pc = "dispatch", NEW e \in batch, batch' = batch \ {e},
         \A s \in 0 .. MAX_EVENTS : s # e.ptr /\ Live(s) =>
           g_events'[s] = g_events[s] /\ owner'[g_events[s].fd] = owner[g_events[s].fd],
         e.of # Listener => backlog' = backlog,
         \A c \in Clients : c # e.of /\ link'[c] = "up" =>
           link[c] = "up" /\ unread'[c] = unread[c] /\ room'[c] = room[c]
  PROVE  BatchFresh' /\ Reported'
<1> SUFFICES ASSUME NEW d \in batch, d # e
             PROVE  /\ Live(d.ptr)' /\ g_events'[d.ptr].events = d.events
                    /\ owner'[g_events'[d.ptr].fd] = d.of
                    /\ StillReady(d)'
  BY DEF BatchFresh, Reported
<1>1. /\ d.ptr \in 0 .. MAX_EVENTS /\ Live(d.ptr) /\ d.ptr # e.ptr
      /\ g_events[d.ptr].events = d.events /\ owner[g_events[d.ptr].fd] = d.of
  BY EventSlot
<1>2. g_events'[d.ptr] = g_events[d.ptr] /\ owner'[g_events[d.ptr].fd] = owner[g_events[d.ptr].fd]
  BY <1>1
<1>3. d.of = Listener => e.of # Listener
  <2>1. d.of = Listener => d.ptr = MAX_EVENTS
    BY EventSlot, Basics
  <2>2. e.of = Listener => e.ptr = MAX_EVENTS
    BY EventSlot, Basics
  <2> QED BY <1>1, <2>1, <2>2
<1>4. d.of \in Clients => d.of # e.of
  <2>1. ASSUME d.of \in Clients, d.of = e.of
        PROVE  FALSE
    <3>1. g_events[d.ptr].fd \in Fds
      BY <2>1, EventSlot, Basics
    <3>2. /\ e.ptr \in 0 .. MAX_EVENTS /\ Live(e.ptr)
          /\ g_events[e.ptr].fd \in Fds /\ owner[g_events[e.ptr].fd] = e.of
      BY <2>1, EventSlot, Basics
    <3>3. g_events[d.ptr].fd = g_events[e.ptr].fd
      <4> DEFINE f == g_events[d.ptr].fd
                 g == g_events[e.ptr].fd
      <4>1. f \in Fds /\ g \in Fds /\ owner[f] \in Clients /\ owner[f] = owner[g]
        BY <1>1, <2>1, <3>1, <3>2
      <4> HIDE DEF f, g
      <4>2. f = g
        BY <4>1, OneFd DEF IInv
      <4> QED BY <4>2 DEF f, g
    <3> QED BY <1>1, <3>2, <3>3, SyncForm DEF IInv, SlotsKept
  <2> QED BY <2>1
<1>5. StillReady(d)
  BY DEF IInv, Reported
<1>6. StillReady(d)'
  BY <1>3, <1>4, <1>5 DEF StillReady
<1> QED BY <1>1, <1>2, <1>6 DEF Live

(* A step outside the callbacks disturbs no event, if it changes slots at  *)
(* most in their age, and takes neither what is readable, nor what is      *)
(* writable, nor what waits for accept.                                    *)
LEMMA AllKept ==
  ASSUME ReactorAssumption, IInv, pc' = pc, batch' = batch, owner' = owner,
         \A s \in 0 .. MAX_EVENTS : /\ g_events'[s].fd = g_events[s].fd
                                    /\ g_events'[s].events = g_events[s].events
                                    /\ g_events'[s].status = g_events[s].status,
         backlog # <<>> => backlog' # <<>>,
         \A c \in Clients : link[c] # "none" /\ link'[c] = "up" =>
           link[c] = "up" /\ (unread[c] > 0 => unread'[c] > 0) /\ (room[c] => room'[c])
  PROVE  BatchFresh' /\ Reported'
<1> SUFFICES ASSUME pc = "dispatch", NEW e \in batch
             PROVE  /\ Live(e.ptr)' /\ g_events'[e.ptr].events = e.events
                    /\ owner'[g_events'[e.ptr].fd] = e.of
                    /\ StillReady(e)'
  BY DEF BatchFresh, Reported
<1>1. /\ e.ptr \in 0 .. MAX_EVENTS /\ Live(e.ptr)
      /\ g_events[e.ptr].events = e.events /\ owner[g_events[e.ptr].fd] = e.of
      /\ e.of \in Clients => g_events[e.ptr].fd \in Fds
  BY EventSlot, Basics
<1>2. Live(e.ptr)' /\ g_events'[e.ptr].events = e.events /\ owner'[g_events'[e.ptr].fd] = e.of
  BY <1>1 DEF Live
<1>3. StillReady(e)
  BY DEF IInv, Reported
<1>4. StillReady(e)'
  <2>1. ASSUME e.of \in Clients, link'[e.of] = "up"
        PROVE  IF e.events = "IN" THEN unread'[e.of] > 0 ELSE room'[e.of]
    <3>1. link[e.of] = "up" /\ (unread[e.of] > 0 => unread'[e.of] > 0) /\ (room[e.of] => room'[e.of])
      BY <1>1, <2>1, ZenonT(60) DEF IInv, Once
    <3>2. IF e.events = "IN" THEN unread[e.of] > 0 ELSE room[e.of]
      BY <1>3, <2>1, <3>1 DEF StillReady
    <3> QED BY <3>1, <3>2
  <2> QED BY <1>3, <2>1 DEF StillReady
<1> QED BY <1>2, <1>4

(* Taking the head leaves the rest, each once.                             *)
LEMMA TailQueue ==
  ASSUME TypeOK, Once, backlog # <<>>, backlog' = Tail(backlog)
  PROVE  /\ Head(backlog) \in Clients /\ Head(backlog) \in Queued
         /\ backlog' \in Seq(Clients)
         /\ Queued' \subseteq Queued \ {Head(backlog)}
         /\ \A k, m \in DOMAIN backlog' : backlog'[k] = backlog'[m] => k = m
<1>1. /\ backlog \in Seq(Clients) /\ Len(backlog) \in Nat /\ Len(backlog) > 0
      /\ DOMAIN backlog = 1 .. Len(backlog) /\ Head(backlog) = backlog[1]
      /\ 1 \in DOMAIN backlog
      /\ DOMAIN backlog' = 1 .. (Len(backlog) - 1)
      /\ \A k \in DOMAIN backlog' : k + 1 \in DOMAIN backlog /\ backlog'[k] = backlog[k + 1]
  BY DEF TypeOK
<1>2. Head(backlog) \in Clients /\ Head(backlog) \in Queued /\ backlog' \in Seq(Clients)
  BY <1>1 DEF Queued
<1>3. \A k \in DOMAIN backlog' : /\ k \in Int /\ k + 1 # 1
                                 /\ backlog'[k] \in Queued
                                 /\ backlog'[k] # Head(backlog)
  <2> SUFFICES ASSUME NEW k \in DOMAIN backlog'
               PROVE  /\ k \in Int /\ k + 1 # 1 /\ backlog'[k] \in Queued
                      /\ backlog'[k] # Head(backlog)
    OBVIOUS
  <2>1. k \in Int /\ k + 1 # 1 /\ k + 1 \in DOMAIN backlog /\ backlog'[k] = backlog[k + 1]
    BY <1>1
  <2>2. backlog[k + 1] # backlog[1]
    BY <1>1, <2>1 DEF Once
  <2> QED BY <1>1, <2>1, <2>2 DEF Queued
<1>4. Queued' \subseteq Queued \ {Head(backlog)}
  BY <1>3 DEF Queued
<1>5. \A k, m \in DOMAIN backlog' : backlog'[k] = backlog'[m] => k = m
  <2> SUFFICES ASSUME NEW k \in DOMAIN backlog', NEW m \in DOMAIN backlog',
                      backlog'[k] = backlog'[m]
               PROVE  k = m
    OBVIOUS
  <2>1. k \in Int /\ m \in Int /\ k + 1 = m + 1
    BY <1>1, <1>3 DEF Once
  <2> QED BY <2>1
<1> QED BY <1>2, <1>4, <1>5

(* Every client stays in one place when connections are closed, or the     *)
(* head of the backlog is taken.                                           *)
LEMMA BacklogKept ==
  ASSUME TypeOK, Once, \A f \in Fds : owner'[f] = owner[f] \/ owner'[f] \notin Clients,
         backlog' = backlog \/ (backlog # <<>> /\ backlog' = Tail(backlog)),
         \A c \in Clients : link[c] # "none" => link'[c] # "none"
  PROVE  Once'
<1>1. Queued \subseteq Clients
  BY DEF Queued, TypeOK
<1>2. CASE backlog' = backlog
  <2>1. Queued' = Queued
    BY <1>2 DEF Queued
  <2> QED BY <1>1, <1>2, <2>1 DEF Once
<1>3. CASE backlog # <<>> /\ backlog' = Tail(backlog)
  <2>1. /\ Queued' \subseteq Queued
        /\ \A k, m \in DOMAIN backlog' : backlog'[k] = backlog'[m] => k = m
    BY <1>3, TailQueue
  <2> QED BY <1>1, <2>1 DEF Once
<1> QED BY <1>2, <1>3

(* A newcomer joins the end of the backlog.                                *)
LEMMA AppendQueue ==
  ASSUME TypeOK, Once, NEW c \in Clients, link[c] = "none", backlog' = Append(backlog, c)
  PROVE  /\ Queued' = Queued \cup {c}
         /\ \A k, m \in DOMAIN backlog' : backlog'[k] = backlog'[m] => k = m
<1>1. /\ Len(backlog) \in Nat /\ DOMAIN backlog = 1 .. Len(backlog)
      /\ DOMAIN backlog' = 1 .. (Len(backlog) + 1)
      /\ backlog'[Len(backlog) + 1] = c
      /\ \A k \in DOMAIN backlog : backlog'[k] = backlog[k]
  BY DEF TypeOK
<1>2. Queued' = Queued \cup {c}
  <2>1. DOMAIN backlog' = DOMAIN backlog \cup {Len(backlog) + 1}
    BY <1>1
  <2> QED BY <1>1, <2>1 DEF Queued
<1>3. c \notin Queued
  BY DEF Once
<1>4. \A k \in DOMAIN backlog : backlog[k] # c
  BY <1>3 DEF Queued
<1>5. \A k \in DOMAIN backlog' : k \in DOMAIN backlog \/ k = Len(backlog) + 1
  BY <1>1
<1>6. \A k, m \in DOMAIN backlog : backlog[k] = backlog[m] => k = m
  BY DEF Once
<1>7. \A k, m \in DOMAIN backlog' : backlog'[k] = backlog'[m] => k = m
  <2> SUFFICES ASSUME NEW k \in DOMAIN backlog', NEW m \in DOMAIN backlog',
                      backlog'[k] = backlog'[m]
               PROVE  k = m
    OBVIOUS
  <2>1. CASE k \in DOMAIN backlog /\ m \in DOMAIN backlog
    <3>1. backlog[k] = backlog[m]
      BY <1>1, <2>1
    <3> QED BY <1>6, <2>1, <3>1
  <2>2. CASE k = Len(backlog) + 1 \/ m = Len(backlog) + 1
    BY <1>1, <1>4, <1>5, <2>2
  <2> QED BY <1>5, <2>1, <2>2
<1> QED BY <1>2, <1>7

(* A step that changes slots at most in age, and owners at most of         *)
(* descriptors that no slot has, keeps slots and epoll in agreement.       *)
LEMMA SameSync ==
  ASSUME ReactorAssumption, KernelSync, interest' = interest,
         \A s \in 0 .. MAX_EVENTS : /\ g_events'[s].fd = g_events[s].fd
                                    /\ g_events'[s].events = g_events[s].events
                                    /\ g_events'[s].status = g_events[s].status,
         \A s \in 0 .. MAX_EVENTS : Live(s) => owner'[g_events[s].fd] = owner[g_events[s].fd]
  PROVE  KernelSync'
<1>1. \A s \in 0 .. MAX_EVENTS : (Live(s)' <=> Live(s)) /\ Reg(s)' = Reg(s)
  BY DEF Live, Reg
<1>2. Synced /\ SlotsKept
  BY SyncForm
<1>3. Synced'
  BY <1>1, <1>2 DEF Synced
<1>4. SlotsKept'
  <2>1. \A s \in Slots : Live(s)' =>
          g_events'[s].fd \in Fds /\ owner'[g_events'[s].fd] \in Clients
    BY <1>1, <1>2, Basics DEF SlotsKept
  <2>2. Live(MAX_EVENTS)' /\ g_events'[MAX_EVENTS].fd = lfd /\ owner'[lfd] = Listener
    BY <1>1, <1>2, Basics DEF SlotsKept
  <2> QED BY <1>1, <1>2, <2>1, <2>2 DEF SlotsKept
<1>5. KernelSync' <=> Synced' /\ SlotsKept'
  BY SyncForm, PTL
<1> QED BY <1>3, <1>4, <1>5

-----------------------------------------------------------------------------
(* Every step keeps the invariant.                                         *)

(* The clients and the network.                                            *)
LEMMA ClientKeeps ==
  ASSUME ReactorAssumption, IInv, NEW c \in Clients, ClientStep(c)
  PROVE  IInv'
<1> USE DEF IInv
<1>1. /\ UNCHANGED <<server, owner>>
      /\ \/ backlog' = backlog
         \/ link[c] = "none" /\ link' = [link EXCEPT ![c] = "up"] /\ backlog' = Append(backlog, c)
  BY DEF ClientStep, Connect, Say, Leave, Reset, Drain, server
<1>2. /\ link' \in [Clients -> {"none", "up", "fin", "closed"} \cup Failed]
      /\ unread' \in [Clients -> 0 .. MaxUnread] /\ room' \in [Clients -> BOOLEAN]
      /\ backlog' \in Seq(Clients)
  <2>1. MaxUnread \in Nat /\ unread[c] \in 0 .. MaxUnread
    BY DEF TypeOK, ReactorAssumption
  <2>2. CASE Connect(c)
    BY <2>2 DEF Connect, TypeOK, Failed
  <2>3. CASE Say(c)
    <3>1. PICK n \in unread[c] + 1 .. MaxUnread : unread' = [unread EXCEPT ![c] = n]
      BY <2>3 DEF Say
    <3>2. n \in 0 .. MaxUnread
      BY <2>1
    <3> QED BY <2>3, <3>1, <3>2 DEF Say, TypeOK
  <2>4. CASE Leave(c)
    BY <2>4 DEF Leave, TypeOK, Failed
  <2>5. CASE Reset(c)
    <3>1. PICK left \in {0, unread[c]} : unread' = [unread EXCEPT ![c] = left]
      BY <2>5 DEF Reset
    <3>2. left \in 0 .. MaxUnread
      BY <2>1
    <3> QED BY <2>5, <3>1, <3>2 DEF Reset, TypeOK, Failed
  <2>6. CASE Drain(c)
    BY <2>6 DEF Drain, TypeOK
  <2> QED BY <2>2, <2>3, <2>4, <2>5, <2>6 DEF ClientStep
<1>3. TypeOK'
  BY <1>1, <1>2 DEF TypeOK, server
<1>4. KernelSync' /\ Roles'
  BY <1>1, SameSync DEF Roles, server, Live
<1>5. \A d \in Clients :
        /\ link[d] # "none" => link'[d] # "none"
        /\ link[d] # "none" /\ link'[d] = "up" =>
             link[d] = "up" /\ (unread[d] > 0 => unread'[d] > 0) /\ (room[d] => room'[d])
  <2>1. CASE Connect(c)
    BY <2>1 DEF Connect, TypeOK
  <2>2. CASE Say(c)
    <3>1. unread[c] \in Nat
      BY DEF TypeOK, ReactorAssumption
    <3>2. PICK n \in unread[c] + 1 .. MaxUnread : unread' = [unread EXCEPT ![c] = n]
      BY <2>2 DEF Say
    <3>3. n > 0
      BY <3>1
    <3> QED BY <2>2, <3>2, <3>3 DEF Say, TypeOK
  <2>3. CASE Leave(c)
    BY <2>3 DEF Leave, TypeOK
  <2>4. CASE Reset(c)
    BY <2>4 DEF Reset, TypeOK
  <2>5. CASE Drain(c)
    BY <2>5 DEF Drain, TypeOK
  <2> QED BY <2>1, <2>2, <2>3, <2>4, <2>5 DEF ClientStep
<1>6. Once'
  <2>1. CASE backlog' = backlog
    BY <1>1, <1>5, <2>1, BacklogKept
  <2>2. CASE link[c] = "none" /\ link' = [link EXCEPT ![c] = "up"] /\ backlog' = Append(backlog, c)
    <3>1. /\ Queued' = Queued \cup {c}
          /\ \A k, m \in DOMAIN backlog' : backlog'[k] = backlog'[m] => k = m
      BY <2>2, AppendQueue
    <3>2. Queued \subseteq Clients /\ c \notin Queued
      BY <2>2 DEF Queued, TypeOK, Once
    <3>3. owner' = owner /\ \A f \in Fds : owner[f] \in Clients => owner[f] # c
      BY <1>1, <2>2 DEF Once
    <3> QED BY <1>5, <2>2, <3>1, <3>2, <3>3 DEF Once, TypeOK
  <2> QED BY <1>1, <2>1, <2>2
<1>7. BatchFresh' /\ Reported'
  <2>1. backlog # <<>> => backlog' # <<>>
    BY <1>1 DEF TypeOK
  <2> QED BY <1>1, <1>5, <2>1, AllKept DEF server
<1> QED BY <1>3, <1>4, <1>6, <1>7

(* The clock.                                                              *)
LEMMA TickKeeps ==
  ASSUME ReactorAssumption, IInv, Tick
  PROVE  IInv'
<1> USE DEF IInv
<1>1. DOMAIN g_events = 0 .. MAX_EVENTS /\ \A s \in 0 .. MAX_EVENTS : g_events[s] \in Myevent
  BY DEF TypeOK
<1>2. \A s \in 0 .. MAX_EVENTS :
        g_events'[s] = [g_events[s] EXCEPT !.age = Smaller(@ + 1, TIMEOUT)]
  BY <1>1 DEF Tick
<1>3. \A s \in 0 .. MAX_EVENTS : /\ g_events'[s] \in Myevent
                                 /\ g_events'[s].fd = g_events[s].fd
                                 /\ g_events'[s].events = g_events[s].events
                                 /\ g_events'[s].status = g_events[s].status
                                 /\ g_events'[s].call_back = g_events[s].call_back
  <2> SUFFICES ASSUME NEW s \in 0 .. MAX_EVENTS
               PROVE  /\ g_events'[s] \in Myevent
                      /\ g_events'[s].fd = g_events[s].fd
                      /\ g_events'[s].events = g_events[s].events
                      /\ g_events'[s].status = g_events[s].status
                      /\ g_events'[s].call_back = g_events[s].call_back
    OBVIOUS
  <2>1. g_events[s].age \in 0 .. TIMEOUT /\ TIMEOUT \in Nat
    BY <1>1 DEF Myevent, ReactorAssumption
  <2>2. Smaller(g_events[s].age + 1, TIMEOUT) \in 0 .. TIMEOUT
    BY <2>1 DEF Smaller
  <2>3. PICK a \in 0 .. TIMEOUT : g_events'[s] = [g_events[s] EXCEPT !.age = a]
    BY <1>2, <2>2
  <2> QED BY <1>1, <2>3 DEF Myevent
<1>4. UNCHANGED <<pc, checkpos, batch, interest, owner, link, backlog, unread, room>>
  BY DEF Tick, net
<1>5. g_events' \in [0 .. MAX_EVENTS -> Myevent]
  BY <1>1, <1>3 DEF Tick
<1>6. TypeOK'
  BY <1>4, <1>5 DEF TypeOK
<1>7. KernelSync'
  BY <1>3, <1>4, SameSync
<1>8. BatchFresh' /\ Reported'
  BY <1>3, <1>4, AllKept
<1>9. Roles'
  BY <1>3, Basics DEF Roles, Live
<1>10. Once'
  BY <1>4, BacklogKept
<1> QED BY <1>6, <1>7, <1>8, <1>9, <1>10

(* Closing keeps the types of what it changes, gives no descriptor to a    *)
(* client, and leaves every connection that stays up as it was.            *)
LEMMA CloseShape ==
  ASSUME ReactorAssumption, TypeOK, NEW F, Close(F)
  PROVE  /\ owner' \in [AllFds -> Clients \cup {NoClient, Listener, Other}]
         /\ link' \in [Clients -> {"none", "up", "fin", "closed"} \cup Failed]
         /\ unread' \in [Clients -> 0 .. MaxUnread] /\ room' \in [Clients -> BOOLEAN]
         /\ \A f \in Fds : owner'[f] = owner[f] \/ owner'[f] \notin Clients
         /\ \A c \in Clients : link[c] # "none" => link'[c] # "none"
         /\ \A c \in Clients : link'[c] = "up" =>
              link[c] = "up" /\ unread'[c] = unread[c] /\ room'[c] = room[c]
<1>1. MaxUnread \in Nat
  BY DEF ReactorAssumption
<1>2. /\ owner' \in [AllFds -> Clients \cup {NoClient, Listener, Other}]
      /\ \A f \in Fds : owner'[f] = owner[f] \/ owner'[f] \notin Clients
  BY Basics DEF Close, TypeOK
<1>3. \A c \in Clients : link'[c] = IF c \in ClientsOf(F) THEN "closed" ELSE link[c]
  BY DEF Close
<1>4. link' \in [Clients -> {"none", "up", "fin", "closed"} \cup Failed]
  BY DEF Close, TypeOK
<1>5. unread' \in [Clients -> 0 .. MaxUnread]
  BY <1>1 DEF Close, TypeOK
<1>6. room' \in [Clients -> BOOLEAN]
  <2>1. \A c \in Clients : (c \in ClientsOf(F) \/ room[c]) \in BOOLEAN
    OBVIOUS
  <2> QED BY <2>1 DEF Close
<1>7. \A c \in Clients : c \notin ClientsOf(F) => unread'[c] = unread[c] /\ room'[c] = room[c]
  <2>1. \A c \in Clients : room[c] \in BOOLEAN
    BY DEF TypeOK
  <2>2. \A c \in Clients : unread'[c] = IF c \in ClientsOf(F) THEN 0 ELSE unread[c]
    BY DEF Close
  <2>3. \A c \in Clients : room'[c] = (c \in ClientsOf(F) \/ room[c])
    BY DEF Close
  <2> QED BY <2>1, <2>2, <2>3
<1> QED BY <1>2, <1>3, <1>4, <1>5, <1>6, <1>7

(* The timeout test closes the silent slots among those it visits.         *)
LEMMA TimeoutShape ==
  ASSUME ReactorAssumption, IInv, CheckTimeouts
  PROVE  /\ checkpos' \in 0 .. MAX_EVENTS /\ pc' = "wait" /\ batch' = {} /\ backlog' = backlog
         /\ \E S \in SUBSET Slots, F \in SUBSET Fds :
              Closes(S, F) /\ \A s \in S : g_events[s].age = TIMEOUT
<1> DEFINE start == IF checkpos = MAX_EVENTS THEN 0 ELSE checkpos
           visited == {(start + k) % MAX_EVENTS : k \in 0 .. SCAN - 1}
           silent == {s \in visited : g_events[s].status = 1 /\ g_events[s].age >= TIMEOUT}
           closed == {g_events[s].fd : s \in silent}
<1>1. /\ pc' = "wait" /\ batch' = {} /\ backlog' = backlog
      /\ Close(closed) /\ interest' = Dropped(interest, closed)
      /\ g_events' = [s \in DOMAIN g_events |->
                        IF s \in silent THEN [eventdel(g_events[s]) EXCEPT !.len = 0]
                                        ELSE g_events[s]]
      /\ checkpos' = ((start + SCAN - 1) % MAX_EVENTS) + 1
  BY DEF CheckTimeouts, Scan
<1>2. MAX_EVENTS \in Nat \ {0} /\ SCAN \in Nat \ {0} /\ start \in Nat
  BY DEF ReactorAssumption, IInv, TypeOK
<1> HIDE DEF start
<1>3. \A k \in Nat : (start + k) % MAX_EVENTS \in 0 .. MAX_EVENTS - 1
  BY <1>2
<1>4. visited \subseteq Slots
  BY <1>2, <1>3 DEF Slots
<1>5. checkpos' \in 0 .. MAX_EVENTS
  <2>1. SCAN - 1 \in Nat /\ start + SCAN - 1 = start + (SCAN - 1)
    BY <1>2
  <2>2. (start + SCAN - 1) % MAX_EVENTS \in 0 .. MAX_EVENTS - 1
    BY <1>3, <2>1
  <2> HIDE DEF visited, silent, closed
  <2> QED BY <1>1, <1>2, <2>2
<1> HIDE DEF visited
<1>6. silent \subseteq Slots /\ \A s \in silent : Live(s)
  BY <1>4 DEF Live
<1>7. closed \subseteq Fds
  BY <1>6, SyncForm DEF IInv, SlotsKept
<1>8. \A s \in silent : g_events[s].age = TIMEOUT
  <2> SUFFICES ASSUME NEW s \in silent
               PROVE  g_events[s].age = TIMEOUT
    OBVIOUS
  <2>1. g_events[s].age \in 0 .. TIMEOUT /\ TIMEOUT \in Nat
    BY <1>6, Basics DEF IInv, TypeOK, Myevent, ReactorAssumption
  <2> QED BY <2>1
<1>9. Closes(silent, closed)
  BY <1>1, <1>6 DEF Closes
<1> HIDE DEF silent, closed
<1> QED BY <1>1, <1>5, <1>6, <1>7, <1>8, <1>9

(* Closing a slot leaves every other slot's callback.                      *)
LEMMA ClosesRoles ==
  ASSUME ReactorAssumption, TypeOK, KernelSync, Roles, NEW S, NEW F, Closes(S, F)
  PROVE  Roles'
<1>1. /\ S \subseteq Slots /\ S \subseteq 0 .. MAX_EVENTS /\ MAX_EVENTS \notin S
  BY Basics DEF Closes
<1>2. /\ \A s \in S : ~Live(s)' /\ g_events'[s].call_back = g_events[s].call_back
      /\ \A s \in 0 .. MAX_EVENTS : s \notin S => g_events'[s] = g_events[s]
  BY ClosesSync
<1>3. \A s \in 0 .. MAX_EVENTS : s \notin S => (Live(s)' <=> Live(s))
  BY <1>2 DEF Live
<1> QED BY <1>1, <1>2, <1>3, Basics DEF Roles

(* The timeout test keeps the invariant.                                   *)
LEMMA TimeoutsKeep ==
  ASSUME ReactorAssumption, IInv, CheckTimeouts
  PROVE  IInv'
<1> USE DEF IInv
<1>1. PICK S \in SUBSET Slots, F \in SUBSET Fds : Closes(S, F)
  BY TimeoutShape
<1>2. Close(F)
  BY <1>1 DEF Closes
<1>3. TypeOK'
  BY <1>1, <1>2, TimeoutShape, CloseShape, ClosesSync, SMTT(30) DEF TypeOK
<1>4. KernelSync'
  BY <1>1, ClosesSync
<1>5. Once'
  BY <1>2, TimeoutShape, CloseShape, BacklogKept
<1>6. Roles'
  BY <1>1, ClosesRoles
<1>7. BatchFresh' /\ Reported'
  BY TimeoutShape DEF BatchFresh, Reported
<1> QED BY <1>3, <1>4, <1>5, <1>6, <1>7

(* epoll_wait reports what is ready of what is registered.                 *)
LEMMA WaitKeeps ==
  ASSUME ReactorAssumption, IInv, Wait
  PROVE  IInv'
<1> USE DEF IInv
<1>1. /\ batch' = {[ptr |-> r.ptr, events |-> r.events, of |-> owner[r.fd]] :
                     r \in {reg \in interest : Ready(reg)}}
      /\ pc' = "dispatch"
      /\ UNCHANGED <<g_events, checkpos, interest, owner, link, backlog, unread, room>>
  BY DEF Wait, net
<1>2. ASSUME NEW e \in batch'
      PROVE  /\ e \in Event /\ Live(e.ptr) /\ g_events[e.ptr].events = e.events
             /\ owner[g_events[e.ptr].fd] = e.of /\ StillReady(e)
  <2>1. PICK r \in interest : Ready(r) /\ e = [ptr |-> r.ptr, events |-> r.events, of |-> owner[r.fd]]
    BY <1>1, <1>2
  <2>2. r \in Registration /\ r.ptr \in 0 .. MAX_EVENTS /\ Live(r.ptr) /\ r = Reg(r.ptr)
    BY SyncForm DEF Synced, TypeOK
  <2>3. r.fd = g_events[r.ptr].fd /\ r.events = g_events[r.ptr].events
    BY <2>2 DEF Reg
  <2>4. /\ r.ptr \in 0 .. MAX_EVENTS /\ r.events \in {"IN", "OUT"} /\ r.fd \in AllFds
        /\ owner[r.fd] \in Clients \cup {NoClient, Listener, Other}
    BY <2>2 DEF Registration, TypeOK
  <2>5. /\ e.ptr = r.ptr /\ e.events = r.events /\ e.of = owner[r.fd]
        /\ e \in Event
    BY <2>1, <2>4 DEF Event
  <2>6. owner[r.fd] = Listener => backlog # <<>>
    BY <2>1 DEF Ready
  <2>7. ASSUME owner[r.fd] \in Clients, link[owner[r.fd]] = "up"
        PROVE  IF r.events = "IN" THEN unread[owner[r.fd]] > 0 ELSE room[owner[r.fd]]
    BY <2>1, <2>4, <2>7, Basics DEF Ready, Failed
  <2> QED BY <2>2, <2>3, <2>5, <2>6, <2>7 DEF StillReady
<1>3. TypeOK'
  BY <1>1, <1>2 DEF TypeOK
<1>4. KernelSync' /\ Roles'
  BY <1>1, SameSync DEF Roles, Live
<1>5. Once'
  BY <1>1, BacklogKept
<1>6. BatchFresh' /\ Reported'
  BY <1>1, <1>2 DEF BatchFresh, Reported, StillReady, Live
<1> QED BY <1>3, <1>4, <1>5, <1>6

(* A failed epoll_wait ends the server.                                    *)
LEMMA RestKeeps ==
  ASSUME ReactorAssumption, IInv, pc' = "exit",
         UNCHANGED <<g_events, checkpos, batch, interest, net>>
  PROVE  IInv'
<1> USE DEF IInv
<1>1. TypeOK'
  BY DEF TypeOK, net
<1>2. KernelSync' /\ Roles'
  BY SameSync DEF Roles, Live, net
<1>3. Once'
  BY BacklogKept DEF net
<1>4. BatchFresh' /\ Reported'
  BY DEF BatchFresh, Reported
<1> QED BY <1>1, <1>2, <1>3, <1>4

-----------------------------------------------------------------------------
(* The callbacks.                                                          *)

(* A failing accept takes at most a reset connection from the backlog.     *)
LEMMA AcceptFailsKeeps ==
  ASSUME ReactorAssumption, IInv, NEW e \in batch, AcceptFails(e)
  PROVE  IInv'
<1> USE DEF IInv
<1>1. /\ pc = "dispatch" /\ g_events[e.ptr].call_back = "acceptconn"
      /\ batch' = batch \ {e}
      /\ UNCHANGED <<pc, g_events, checkpos, interest, owner, unread, room>>
      /\ \/ backlog' = backlog /\ link' = link
         \/ /\ link[Head(backlog)] \in Failed
            /\ link' = [link EXCEPT ![Head(backlog)] = "closed"]
            /\ backlog' = Tail(backlog)
  BY DEF AcceptFails, Called
<1>2. e.of = Listener /\ backlog # <<>>
  BY <1>1, EventSlot
<1>3. link' \in [Clients -> {"none", "up", "fin", "closed"} \cup Failed] /\ backlog' \in Seq(Clients)
  BY <1>1, <1>2, TailQueue, ZenonT(60) DEF TypeOK
<1>4. TypeOK'
  BY <1>1, <1>3 DEF TypeOK
<1>5. KernelSync' /\ Roles'
  BY <1>1, SameSync DEF Roles, Live
<1>6. \A c \in Clients : /\ link[c] # "none" => link'[c] # "none"
                         /\ link'[c] = "up" => link[c] = "up"
  BY <1>1 DEF TypeOK
<1>7. Once'
  BY <1>1, <1>2, <1>6, BacklogKept
<1>8. BatchFresh' /\ Reported'
  BY <1>1, <1>2, <1>6, OthersKept
<1> QED BY <1>4, <1>5, <1>7, <1>8

(* accept takes the head of the backlog and the lowest free descriptor,    *)
(* which no slot holds.                                                    *)
LEMMA AcceptedShape ==
  ASSUME ReactorAssumption, IInv, NEW e \in batch, NEW cfd \in Fds, Accepted(e, cfd)
  PROVE  /\ pc = "dispatch" /\ batch' = batch \ {e} /\ UNCHANGED <<pc, checkpos, link, unread, room>>
         /\ e.ptr = MAX_EVENTS /\ e.of = Listener
         /\ owner[cfd] = NoClient /\ owner'[cfd] \in Clients
         /\ \A f \in AllFds : f # cfd => owner'[f] = owner[f]
         /\ \A s \in 0 .. MAX_EVENTS : Live(s) =>
              g_events[s].fd # cfd /\ owner'[g_events[s].fd] = owner[g_events[s].fd]
         /\ owner' \in [AllFds -> Clients \cup {NoClient, Listener, Other}]
         /\ backlog' \in Seq(Clients)
         /\ Once'
<1> USE DEF IInv
<1>1. /\ pc = "dispatch" /\ g_events[e.ptr].call_back = "acceptconn"
      /\ batch' = batch \ {e} /\ UNCHANGED <<pc, checkpos, link, unread, room>>
      /\ FreeFds # {} /\ cfd = Lowest(FreeFds)
      /\ owner' = [owner EXCEPT ![cfd] = Head(backlog)]
      /\ backlog' = Tail(backlog)
  BY DEF Accepted, Called
<1>2. e.ptr = MAX_EVENTS /\ e.of = Listener /\ backlog # <<>>
  BY <1>1, EventSlot, Basics
<1>3. owner[cfd] = NoClient
  <2>1. FreeFds \subseteq Nat
    BY Basics DEF FreeFds
  <2> QED BY <1>1, <2>1, LowestIn DEF FreeFds
<1>4. /\ Head(backlog) \in Clients /\ Head(backlog) \in Queued
      /\ backlog' \in Seq(Clients)
      /\ Queued' \subseteq Queued \ {Head(backlog)}
      /\ \A k, m \in DOMAIN backlog' : backlog'[k] = backlog'[m] => k = m
  BY <1>1, <1>2, TailQueue
<1>5. /\ owner' \in [AllFds -> Clients \cup {NoClient, Listener, Other}]
      /\ owner'[cfd] = Head(backlog)
      /\ \A f \in AllFds : f # cfd => owner'[f] = owner[f]
  BY <1>1, <1>4, Basics DEF TypeOK
<1>6. \A s \in 0 .. MAX_EVENTS : Live(s) =>
        g_events[s].fd # cfd /\ owner'[g_events[s].fd] = owner[g_events[s].fd]
  BY <1>3, <1>5, LiveSlot, Basics
<1>7. Once'
  <2>1. \A f \in Fds : owner[f] # Head(backlog)
    BY <1>4 DEF Once
  <2>2. \A f, g \in Fds : owner'[f] = owner'[g] /\ owner'[f] \in Clients => f = g
    BY <1>5, <2>1, Basics DEF Once
  <2>3. \A f \in Fds : owner'[f] \in Clients => link[owner'[f]] # "none" /\ owner'[f] \notin Queued'
    BY <1>4, <1>5, Basics DEF Once
  <2>4. \A c \in Queued' : link[c] # "none"
    BY <1>4 DEF Once
  <2> QED BY <1>1, <1>4, <2>2, <2>3, <2>4 DEF Once
<1> QED BY <1>1, <1>2, <1>3, <1>4, <1>5, <1>6, <1>7

(* A free slot is set up for the connection accepted.                      *)
LEMMA InstallShape ==
  ASSUME ReactorAssumption, IInv, NEW e \in batch, NEW cfd \in Fds, Accepted(e, cfd),
         FreeSlots # {}, Installs(Lowest(FreeSlots), cfd)
  PROVE  \E s \in Slots, ev \in Myevent :
           /\ ~Live(s) /\ Puts(s, ev)
           /\ ev.fd = cfd /\ ev.events = "IN" /\ ev.call_back = "recvdata"
<1> DEFINE s == Lowest(FreeSlots)
           set == eventset(g_events[s], cfd, "recvdata")
           ev == eventadd(set, "IN")
<1>1. s \in FreeSlots
  <2>1. FreeSlots \subseteq Nat
    BY Basics DEF FreeSlots, Slots
  <2> QED BY <2>1, LowestIn
<1>2. g_events' = [g_events EXCEPT ![s] = ev] /\ interest' = epollAdd(interest, set, s, "IN")
  BY DEF Installs
<1> HIDE DEF s
<1>3. s \in Slots /\ ~Live(s) /\ g_events[s] \in Myevent
  BY <1>1, Basics DEF FreeSlots, Live, IInv, TypeOK
<1>4. /\ ev \in Myevent /\ ev.status = 1 /\ ev.events = "IN" /\ ev.fd = cfd
      /\ ev.call_back = "recvdata" /\ set.fd = cfd /\ set.status = 0
  <2>1. 0 \in 0 .. TIMEOUT /\ cfd \in AllFds \cup {0}
    BY Basics DEF ReactorAssumption
  <2>2. /\ set \in Myevent /\ set.fd = cfd /\ set.status = 0 /\ set.call_back = "recvdata"
    BY <1>3, <2>1 DEF Myevent, eventset
  <2> HIDE DEF set
  <2> QED BY <2>2 DEF Myevent, eventadd
<1>5. ~\E r \in interest : r.fd = cfd
  <2>1. \A r \in interest : r.ptr \in 0 .. MAX_EVENTS /\ Live(r.ptr) /\ r = Reg(r.ptr)
    BY SyncForm DEF IInv, Synced
  <2>2. \A r \in interest : r.fd = g_events[r.ptr].fd
    BY <2>1 DEF Reg
  <2> QED BY <2>1, <2>2, AcceptedShape
<1> HIDE DEF set, ev
<1>6. interest' = {r \in interest : r.fd # ev.fd}
                    \cup {[fd |-> ev.fd, ptr |-> s, events |-> ev.events]}
  <2>1. set.status # 1 /\ ~\E r \in interest : r.fd = set.fd
    BY <1>4, <1>5
  <2>2. interest' = {r \in interest : r.fd # set.fd}
                      \cup {[fd |-> set.fd, ptr |-> s, events |-> "IN"]}
    BY <1>2, <2>1 DEF epollAdd
  <2> QED BY <1>4, <2>2
<1>7. Puts(s, ev)
  BY <1>2, <1>4, <1>6 DEF Puts
<1> QED BY <1>3, <1>4, <1>7

(* The connection accepted is watched by the slot found for it.            *)
LEMMA AcceptConnKeeps ==
  ASSUME ReactorAssumption, IInv, NEW e \in batch, AcceptConn(e)
  PROVE  IInv'
<1> USE DEF IInv
<1>1. PICK cfd \in Fds : /\ Accepted(e, cfd) /\ FreeSlots # {}
                         /\ Installs(Lowest(FreeSlots), cfd)
  BY DEF AcceptConn
<1>2. PICK s \in Slots, ev \in Myevent :
           /\ ~Live(s) /\ Puts(s, ev)
           /\ ev.fd = cfd /\ ev.events = "IN" /\ ev.call_back = "recvdata"
  BY <1>1, InstallShape
<1>3. /\ KernelSync' /\ interest' \subseteq Registration
      /\ g_events' \in [0 .. MAX_EVENTS -> Myevent]
  <2>1. /\ owner'[ev.fd] \in Clients
        /\ \A t \in 0 .. MAX_EVENTS : t # s /\ Live(t) =>
             g_events[t].fd # ev.fd /\ owner'[g_events[t].fd] = owner[g_events[t].fd]
    BY <1>1, <1>2, AcceptedShape
  <2> QED BY <1>2, <2>1, PutSync
<1>4. TypeOK' /\ Once'
  BY <1>1, <1>3, AcceptedShape, SMTT(20) DEF TypeOK
<1>5. /\ DOMAIN g_events = 0 .. MAX_EVENTS /\ g_events'[s] = ev
      /\ \A t \in 0 .. MAX_EVENTS : t # s => g_events'[t] = g_events[t]
  BY <1>2, Basics DEF TypeOK, Puts
<1>6. Roles'
  BY <1>2, <1>5, Basics DEF Roles, Live
<1>7. BatchFresh' /\ Reported'
  <2>1. \A t \in 0 .. MAX_EVENTS : t # e.ptr /\ Live(t) =>
          g_events'[t] = g_events[t] /\ owner'[g_events[t].fd] = owner[g_events[t].fd]
    BY <1>1, <1>2, <1>5, AcceptedShape
  <2>2. /\ pc = "dispatch" /\ batch' = batch \ {e} /\ e.of = Listener
        /\ link' = link /\ unread' = unread /\ room' = room
    BY <1>1, AcceptedShape
  <2> QED BY <2>1, <2>2, OthersKept
<1> QED BY <1>3, <1>4, <1>6, <1>7

(* The connection accepted is left without a slot.                         *)
LEMMA AcceptLeaksKeeps ==
  ASSUME ReactorAssumption, IInv, NEW e \in batch, AcceptLeaks(e) \/ NonblockFails(e)
  PROVE  IInv'
<1> USE DEF IInv
<1>1. PICK cfd \in Fds : Accepted(e, cfd) /\ UNCHANGED <<g_events, interest>>
  BY DEF AcceptLeaks, NonblockFails
<1>2. TypeOK' /\ Once'
  BY <1>1, AcceptedShape DEF TypeOK
<1>3. KernelSync' /\ Roles'
  BY <1>1, AcceptedShape, SameSync DEF Roles, Live
<1>4. BatchFresh' /\ Reported'
  <2>1. \A t \in 0 .. MAX_EVENTS : Live(t) => owner'[g_events[t].fd] = owner[g_events[t].fd]
    BY <1>1, AcceptedShape
  <2>2. /\ pc = "dispatch" /\ batch' = batch \ {e} /\ e.of = Listener
        /\ link' = link /\ unread' = unread /\ room' = room /\ g_events' = g_events
    BY <1>1, AcceptedShape
  <2> QED BY <2>1, <2>2, OthersKept
<1> QED BY <1>2, <1>3, <1>4

(* recvdata and senddata set their slot up again for the other event.      *)
LEMMA TurnShape ==
  ASSUME ReactorAssumption, NEW e, NEW ev \in Myevent, NEW call_back, NEW events,
         ev.status = 1, ev.fd \in Fds, call_back \in {"recvdata", "senddata"},
         events \in {"IN", "OUT"}, Turn(e, ev, call_back, events)
  PROVE  \E new \in Myevent : /\ Puts(e.ptr, new) /\ new.fd = ev.fd
                              /\ new.call_back = call_back /\ new.events = events
<1> DEFINE gone == eventdel(ev)
           set == eventset(gone, ev.fd, call_back)
           new == eventadd(set, events)
           rest == epollDel(interest, ev)
<1>1. g_events' = [g_events EXCEPT ![e.ptr] = new] /\ interest' = epollAdd(rest, set, e.ptr, events)
  BY DEF Turn
<1>2. 0 \in 0 .. TIMEOUT /\ TIMEOUT \in 0 .. TIMEOUT /\ ev.fd \in AllFds \cup {0}
  <2>1. TIMEOUT \in Nat
    BY DEF ReactorAssumption
  <2>2. ev.fd \in AllFds
    BY Basics
  <2> QED BY <2>1, <2>2
<1>3. gone \in Myevent
  BY <1>2 DEF eventdel, Myevent
<1> HIDE DEF gone
<1>4. /\ set \in Myevent /\ set.fd = ev.fd /\ set.status = 0 /\ set.call_back = call_back
  BY <1>2, <1>3 DEF eventset, Myevent
<1> HIDE DEF set
<1>5. /\ new \in Myevent /\ new.fd = ev.fd /\ new.status = 1
      /\ new.call_back = call_back /\ new.events = events
  BY <1>4 DEF eventadd, Myevent
<1> HIDE DEF new
<1>6. \A r : r \in rest <=> r \in interest /\ r.fd # ev.fd
  BY DEF epollDel
<1> HIDE DEF rest
<1>7. interest' = {r \in rest : r.fd # set.fd}
                    \cup {[fd |-> set.fd, ptr |-> e.ptr, events |-> events]}
  <2>1. set.status # 1 /\ ~\E r \in rest : r.fd = set.fd
    BY <1>4, <1>6
  <2> QED BY <1>1, <2>1 DEF epollAdd
<1>8. {r \in rest : r.fd # set.fd} = {r \in interest : r.fd # new.fd}
  BY <1>4, <1>5, <1>6
<1>9. Puts(e.ptr, new)
  BY <1>1, <1>4, <1>5, <1>7, <1>8 DEF Puts
<1> QED BY <1>5, <1>9

(* What both have in common keeps the invariant.                           *)
LEMMA TurnKeeps ==
  ASSUME ReactorAssumption, IInv, NEW e \in batch, NEW len \in 0 .. BUFLEN,
         NEW call_back, NEW events,
         \/ call_back = "recvdata" /\ events = "IN"
         \/ call_back = "senddata" /\ events = "OUT",
         pc = "dispatch", e.ptr \in Slots,
         Turn(e, [g_events[e.ptr] EXCEPT !.len = len], call_back, events),
         batch' = batch \ {e}, UNCHANGED <<pc, checkpos, owner, link, backlog>>,
         unread' \in [Clients -> 0 .. MaxUnread], room' \in [Clients -> BOOLEAN],
         \A c \in Clients : c # e.of => unread'[c] = unread[c] /\ room'[c] = room[c]
  PROVE  /\ IInv'
         /\ Live(e.ptr)' /\ g_events'[e.ptr].fd = g_events[e.ptr].fd
         /\ \A s \in 0 .. MAX_EVENTS : s # e.ptr => g_events'[s] = g_events[s]
<1> USE DEF IInv
<1> DEFINE p == e.ptr
           ev == [g_events[p] EXCEPT !.len = len]
<1>1. /\ p \in 0 .. MAX_EVENTS /\ p # MAX_EVENTS /\ Live(p)
      /\ g_events[p].fd \in Fds /\ owner[g_events[p].fd] \in Clients
      /\ e.of = owner[g_events[p].fd]
  BY EventSlot, LiveSlot, Basics
<1>2. ev \in Myevent /\ ev.status = 1 /\ ev.fd \in Fds /\ ev.fd = g_events[p].fd
  <2>1. g_events[p] \in Myevent /\ g_events[p].status = 1
    BY <1>1 DEF TypeOK, Live
  <2> QED BY <1>1, <2>1 DEF Myevent
<1> HIDE DEF ev
<1>3. PICK new \in Myevent : /\ Puts(p, new) /\ new.fd = ev.fd
                             /\ new.call_back = call_back /\ new.events = events
  <2>1. Turn(e, ev, call_back, events)
    BY DEF ev
  <2>2. call_back \in {"recvdata", "senddata"} /\ events \in {"IN", "OUT"}
    OBVIOUS
  <2> QED BY <1>2, <2>1, <2>2, TurnShape
<1>4. /\ KernelSync' /\ interest' \subseteq Registration
      /\ g_events' \in [0 .. MAX_EVENTS -> Myevent]
  <2>1. \A s \in 0 .. MAX_EVENTS : s # p /\ Live(s) =>
          g_events[s].fd # new.fd /\ owner'[g_events[s].fd] = owner[g_events[s].fd]
    BY <1>1, <1>2, <1>3, SyncForm DEF SlotsKept
  <2>2. owner'[new.fd] \in Clients
    BY <1>1, <1>2, <1>3
  <2> HIDE DEF p
  <2>3. p \in Slots
    BY DEF p
  <2> QED BY <1>2, <1>3, <2>1, <2>2, <2>3, PutSync
<1>5. /\ DOMAIN g_events = 0 .. MAX_EVENTS /\ g_events'[p] = new
      /\ \A t \in 0 .. MAX_EVENTS : t # p => g_events'[t] = g_events[t]
  BY <1>1, <1>3 DEF TypeOK, Puts
<1>6. TypeOK'
  BY <1>4 DEF TypeOK
<1>7. Once'
  BY BacklogKept
<1>8. Live(p)' /\ g_events'[p].fd = g_events[p].fd
  BY <1>2, <1>3, <1>5 DEF Live, Puts
<1>9. Roles'
  <2>1. \A s \in 0 .. MAX_EVENTS : s # p => (Live(s)' <=> Live(s))
    BY <1>5 DEF Live
  <2>2. /\ g_events'[p].call_back # "acceptconn"
        /\ IF g_events'[p].events = "IN" THEN g_events'[p].call_back = "recvdata"
                                         ELSE g_events'[p].call_back = "senddata"
    BY <1>3, <1>5
  <2>3. /\ g_events'[MAX_EVENTS].call_back = "acceptconn" /\ g_events'[MAX_EVENTS].events = "IN"
    BY <1>1, <1>5, Basics DEF Roles
  <2>4. ASSUME NEW s \in Slots
        PROVE  /\ g_events'[s].call_back # "acceptconn"
               /\ Live(s)' => IF g_events'[s].events = "IN"
                              THEN g_events'[s].call_back = "recvdata"
                              ELSE g_events'[s].call_back = "senddata"
    <3>1. CASE s = p
      BY <2>2, <3>1
    <3>2. CASE s # p
      <4>1. g_events'[s] = g_events[s] /\ (Live(s)' <=> Live(s))
        BY <1>5, <2>1, <3>2, Basics
      <4> QED BY <4>1 DEF Roles
    <3> QED BY <3>1, <3>2
  <2> QED BY <2>3, <2>4 DEF Roles
<1>10. BatchFresh' /\ Reported'
  <2>1. \A s \in 0 .. MAX_EVENTS : s # e.ptr /\ Live(s) =>
          g_events'[s] = g_events[s] /\ owner'[g_events[s].fd] = owner[g_events[s].fd]
    BY <1>5
  <2>2. \A c \in Clients : c # e.of /\ link'[c] = "up" =>
          link[c] = "up" /\ unread'[c] = unread[c] /\ room'[c] = room[c]
    OBVIOUS
  <2> QED BY <2>1, <2>2, OthersKept
<1> QED BY <1>4, <1>5, <1>6, <1>7, <1>8, <1>9, <1>10

(* recvdata takes what it can hold, and the length it stores is one, or is *)
(* overwritten.                                                            *)
LEMMA RecvShape ==
  ASSUME ReactorAssumption, IInv, NEW e \in batch, RecvData(e)
  PROVE  /\ IInv' /\ owner' = owner /\ link' = link
         /\ e.ptr \in Slots /\ Live(e.ptr)' /\ g_events'[e.ptr].fd = g_events[e.ptr].fd
         /\ \A s \in 0 .. MAX_EVENTS : s # e.ptr => g_events'[s] = g_events[s]
<1> DEFINE c == owner[g_events[e.ptr].fd]
           n == Smaller(unread[c], BUFLEN)
<1>1. /\ pc = "dispatch" /\ g_events[e.ptr].call_back = "recvdata"
      /\ unread' = [unread EXCEPT ![c] = @ - n] /\ n > 0
      /\ \E len \in StoredLen(n) :
           Turn(e, [g_events[e.ptr] EXCEPT !.len = len], "senddata", "OUT")
      /\ batch' = batch \ {e}
      /\ UNCHANGED <<pc, checkpos, owner, link, backlog, room>>
  BY DEF RecvData, Called
<1>2. e.ptr \in Slots /\ c = e.of /\ c \in Clients
  BY <1>1, EventSlot
<1> HIDE DEF c
<1>3. unread[c] \in Nat /\ unread[c] <= MaxUnread /\ MaxUnread \in Nat /\ BUFLEN \in Nat
  BY <1>2 DEF IInv, TypeOK, ReactorAssumption
<1>4. n \in 0 .. BUFLEN /\ unread[c] - n \in 0 .. MaxUnread
  BY <1>3 DEF Smaller
<1> HIDE DEF n
<1>5. PICK len \in StoredLen(n) :
        Turn(e, [g_events[e.ptr] EXCEPT !.len = len], "senddata", "OUT")
  BY <1>1
<1>6. len \in 0 .. BUFLEN
  BY <1>3, <1>4 DEF StoredLen
<1>7. /\ unread' \in [Clients -> 0 .. MaxUnread] /\ room' \in [Clients -> BOOLEAN]
      /\ \A d \in Clients : d # e.of => unread'[d] = unread[d] /\ room'[d] = room[d]
  BY <1>1, <1>2, <1>4 DEF IInv, TypeOK
<1> QED BY <1>1, <1>2, <1>5, <1>6, <1>7, TurnKeeps

(* senddata sends, forgets the length, and waits for input again.          *)
LEMMA SendShape ==
  ASSUME ReactorAssumption, IInv, NEW e \in batch, SendData(e)
  PROVE  /\ IInv' /\ owner' = owner /\ link' = link
         /\ e.ptr \in Slots /\ Live(e.ptr)' /\ g_events'[e.ptr].fd = g_events[e.ptr].fd
         /\ \A s \in 0 .. MAX_EVENTS : s # e.ptr => g_events'[s] = g_events[s]
<1> DEFINE c == owner[g_events[e.ptr].fd]
<1>1. /\ pc = "dispatch" /\ g_events[e.ptr].call_back = "senddata"
      /\ \E more \in BOOLEAN : room' = [room EXCEPT ![c] = more]
      /\ Turn(e, [g_events[e.ptr] EXCEPT !.len = 0], "recvdata", "IN")
      /\ batch' = batch \ {e}
      /\ UNCHANGED <<pc, checkpos, owner, link, backlog, unread>>
  BY DEF SendData, Called
<1>2. e.ptr \in Slots /\ c = e.of /\ c \in Clients /\ 0 \in 0 .. BUFLEN
  BY <1>1, EventSlot DEF ReactorAssumption
<1> HIDE DEF c
<1>3. /\ unread' \in [Clients -> 0 .. MaxUnread] /\ room' \in [Clients -> BOOLEAN]
      /\ \A d \in Clients : d # e.of => unread'[d] = unread[d] /\ room'[d] = room[d]
  BY <1>1, <1>2 DEF IInv, TypeOK
<1> QED BY <1>1, <1>2, <1>3, TurnKeeps

(* A callback that closes its connection.                                  *)
LEMMA CloseSlotShape ==
  ASSUME ReactorAssumption, IInv, NEW e \in batch, e.ptr \in Slots, pc = "dispatch", CloseSlot(e)
  PROVE  Closes({e.ptr}, {g_events[e.ptr].fd})
<1> DEFINE p == e.ptr
           F == {g_events[p].fd}
<1>1. Live(p) /\ p \in 0 .. MAX_EVENTS
  BY EventSlot
<1>2. /\ Close(F) /\ interest' = Dropped(epollDel(interest, g_events[p]), F)
      /\ g_events' = [g_events EXCEPT ![p] = [eventdel(g_events[p]) EXCEPT !.len = 0]]
  BY DEF CloseSlot
<1>3. Dropped(epollDel(interest, g_events[p]), F) = Dropped(interest, F)
  BY <1>1 DEF Dropped, epollDel, Live
<1>4. g_events' = [s \in DOMAIN g_events |->
                     IF s \in {p} THEN [eventdel(g_events[s]) EXCEPT !.len = 0] ELSE g_events[s]]
  BY <1>1, <1>2 DEF IInv, TypeOK
<1>5. F = {g_events[s].fd : s \in {p}}
  OBVIOUS
<1> QED BY <1>1, <1>2, <1>3, <1>4, <1>5, ZenonT(60) DEF Closes

(* Closing one slot's connection keeps the invariant.                      *)
LEMMA CloseSlotKeeps ==
  ASSUME ReactorAssumption, IInv, NEW e \in batch, e.ptr \in Slots, pc = "dispatch", CloseSlot(e),
         batch' = batch \ {e}, UNCHANGED <<pc, checkpos, backlog>>
  PROVE  IInv'
<1> USE DEF IInv
<1> DEFINE S == {e.ptr}
           F == {g_events[e.ptr].fd}
<1>1. Closes(S, F)
  BY CloseSlotShape
<1> HIDE DEF S, F
<1>2. Close(F)
  BY <1>1 DEF Closes
<1>3. TypeOK'
  BY <1>1, <1>2, CloseShape, ClosesSync DEF TypeOK
<1>4. KernelSync' /\ Roles'
  BY <1>1, ClosesSync, ClosesRoles
<1>5. Once'
  BY <1>2, CloseShape, BacklogKept
<1>6. BatchFresh' /\ Reported'
  <2>1. \A s \in 0 .. MAX_EVENTS : s # e.ptr /\ Live(s) =>
          g_events'[s] = g_events[s] /\ owner'[g_events[s].fd] = owner[g_events[s].fd]
    BY <1>1, ClosesSync DEF S
  <2>2. \A c \in Clients : link'[c] = "up" =>
          link[c] = "up" /\ unread'[c] = unread[c] /\ room'[c] = room[c]
    BY <1>2, CloseShape
  <2> QED BY <2>1, <2>2, OthersKept
<1> QED BY <1>3, <1>4, <1>5, <1>6

-----------------------------------------------------------------------------
(* The inductive invariant.                                                *)

(* main sets the invariant up.                                             *)
LEMMA InitInv ==
  ASSUME ReactorAssumption, Init
  PROVE  IInv
<1> DEFINE zero == [fd |-> 0, events |-> "none", call_back |-> "NULL",
                    status |-> 0, len |-> 0, age |-> TIMEOUT]
           ev == eventset(zero, lfd, "acceptconn")
           slot == [eventadd(ev, "IN") EXCEPT !.age = TIMEOUT]
<1>1. /\ pc = "dispatch" /\ checkpos = 0 /\ batch = {} /\ backlog = <<>>
      /\ g_events = [s \in 0 .. MAX_EVENTS |-> IF s = MAX_EVENTS THEN slot ELSE zero]
      /\ interest = epollAdd({}, ev, MAX_EVENTS, "IN")
      /\ \E taken \in Inherited :
           owner = [f \in AllFds |-> IF f = lfd THEN Listener
                                     ELSE IF f \in taken THEN Other ELSE NoClient]
      /\ link = [c \in Clients |-> "none"] /\ unread = [c \in Clients |-> 0]
      /\ room = [c \in Clients |-> TRUE]
  BY DEF Init
<1>2. 0 \in 0 .. BUFLEN /\ 0 \in 0 .. TIMEOUT /\ TIMEOUT \in 0 .. TIMEOUT /\ 0 \in 0 .. MaxUnread
  BY DEF ReactorAssumption
<1>3. zero \in Myevent /\ zero.status = 0 /\ zero.call_back = "NULL"
  BY <1>2 DEF Myevent
<1> HIDE DEF zero
<1>4. ev \in Myevent /\ ev.status = 0 /\ ev.fd = lfd /\ ev.call_back = "acceptconn"
  BY <1>2, <1>3, Basics DEF eventset, Myevent
<1> HIDE DEF ev
<1>5. /\ slot \in Myevent /\ slot.status = 1 /\ slot.fd = lfd
      /\ slot.call_back = "acceptconn" /\ slot.events = "IN"
  BY <1>2, <1>4 DEF eventadd, Myevent
<1> HIDE DEF slot
<1>6. /\ g_events[MAX_EVENTS] = slot /\ \A s \in Slots : g_events[s] = zero
  BY <1>1, Basics
<1>7. interest = {[fd |-> lfd, ptr |-> MAX_EVENTS, events |-> "IN"]}
  <2>1. interest = epollAdd({}, ev, MAX_EVENTS, "IN")
    BY <1>1
  <2>2. ~(ev.status = 1) /\ ~(\E r \in {} : r.fd = ev.fd) /\ {r \in {} : r.fd # ev.fd} = {}
    BY <1>4
  <2>3. interest = {} \cup {[fd |-> ev.fd, ptr |-> MAX_EVENTS, events |-> "IN"]}
    BY <2>1, <2>2, Zenon DEF epollAdd
  <2> QED BY <1>4, <2>3
<1>8. /\ owner \in [AllFds -> Clients \cup {NoClient, Listener, Other}]
      /\ owner[lfd] = Listener /\ \A f \in Fds : owner[f] \notin Clients
  BY <1>1, Basics
<1>9. TypeOK
  <2>1. g_events \in [0 .. MAX_EVENTS -> Myevent]
    BY <1>1, <1>3, <1>5
  <2>2. interest \subseteq Registration /\ checkpos \in 0 .. MAX_EVENTS
    BY <1>1, <1>7, Basics DEF Registration
  <2>3. backlog \in Seq(Clients)
    BY <1>1
  <2> QED BY <1>1, <1>2, <1>8, <2>1, <2>2, <2>3 DEF TypeOK
<1>10. Live(MAX_EVENTS) /\ \A s \in Slots : ~Live(s)
  BY <1>3, <1>5, <1>6 DEF Live
<1>11. KernelSync
  <2>1. SlotsKept
    BY <1>5, <1>6, <1>8, <1>10, Basics DEF SlotsKept
  <2>2. Reg(MAX_EVENTS) = [fd |-> lfd, ptr |-> MAX_EVENTS, events |-> "IN"]
    BY <1>5, <1>6 DEF Reg
  <2>3. Synced
    BY <1>7, <1>10, <2>2, Basics DEF Synced
  <2> QED BY <2>1, <2>3, SyncForm
<1>12. Queued = {}
  BY <1>1 DEF Queued
<1>13. Once
  BY <1>1, <1>8, <1>12 DEF Once
<1>14. Roles
  BY <1>3, <1>5, <1>6, <1>10 DEF Roles
<1> QED BY <1>1, <1>9, <1>11, <1>13, <1>14 DEF IInv, BatchFresh, Reported

(* Which callback ends in close, and what for.                             *)
Cause(s) == \/ g_events[s].age = TIMEOUT
            \/ g_events[s].call_back = "senddata" /\ g_events[s].len = 0

(* recvdata closes only what its client no longer uses.                    *)
LEMMA RecvEndsShape ==
  ASSUME ReactorAssumption, IInv, NEW e \in batch, RecvEnds(e)
  PROVE  /\ IInv' /\ Closes({e.ptr}, {g_events[e.ptr].fd})
         /\ link[owner[g_events[e.ptr].fd]] # "up"
<1> DEFINE c == owner[g_events[e.ptr].fd]
<1>1. /\ pc = "dispatch" /\ g_events[e.ptr].call_back = "recvdata" /\ unread[c] = 0
      /\ CloseSlot(e) /\ batch' = batch \ {e} /\ UNCHANGED <<pc, checkpos, backlog>>
  BY DEF RecvEnds, Called
<1>2. e.ptr \in Slots /\ c = e.of /\ c \in Clients /\ e.events = "IN"
  BY <1>1, EventSlot
<1>3. link[c] # "up"
  BY <1>1, <1>2 DEF IInv, Reported, StillReady
<1> QED BY <1>1, <1>2, <1>3, CloseSlotShape, CloseSlotKeeps

(* senddata closes what its client still uses only for a length of 0.      *)
LEMMA SendEndsShape ==
  ASSUME ReactorAssumption, IInv, NEW e \in batch, SendEnds(e)
  PROVE  /\ IInv' /\ Closes({e.ptr}, {g_events[e.ptr].fd})
         /\ link[owner[g_events[e.ptr].fd]] = "up" => Cause(e.ptr)
<1> DEFINE c == owner[g_events[e.ptr].fd]
<1>1. /\ pc = "dispatch" /\ g_events[e.ptr].call_back = "senddata"
      /\ link[c] = "rst" \/ g_events[e.ptr].len = 0 \/ ~room[c]
      /\ CloseSlot(e) /\ batch' = batch \ {e} /\ UNCHANGED <<pc, checkpos, backlog>>
  BY DEF SendEnds, Called
<1>2. e.ptr \in Slots /\ c = e.of /\ c \in Clients /\ e.events = "OUT"
  BY <1>1, EventSlot
<1>3. link[c] = "up" => room[c]
  BY <1>1, <1>2 DEF IInv, Reported, StillReady
<1>4. link[c] = "up" => Cause(e.ptr)
  BY <1>1, <1>3 DEF Cause
<1> QED BY <1>1, <1>2, <1>4, CloseSlotShape, CloseSlotKeeps

(* Whatever the callback, it keeps the invariant.                          *)
LEMMA CallbackKeeps ==
  ASSUME ReactorAssumption, IInv, NEW e \in batch, Callback(e)
  PROVE  IInv'
<1>1. CASE SendKills(e)
  BY <1>1, RestKeeps DEF SendKills
<1>2. CASE AcceptFails(e) \/ AcceptConn(e) \/ AcceptLeaks(e)
  BY <1>2, AcceptFailsKeeps, AcceptConnKeeps, AcceptLeaksKeeps
<1>3. CASE RecvData(e) \/ RecvEnds(e)
  BY <1>3, RecvShape, RecvEndsShape
<1>4. CASE SendData(e) \/ SendEnds(e)
  BY <1>4, SendShape, SendEndsShape
<1> QED BY <1>1, <1>2, <1>3, <1>4 DEF Callback

(* Whatever the step, it keeps the invariant.                              *)
LEMMA NextInv ==
  ASSUME ReactorAssumption, IInv, [Next]_vars
  PROVE  IInv'
<1>1. CASE CheckTimeouts
  BY <1>1, TimeoutsKeep
<1>2. CASE Wait
  BY <1>2, WaitKeeps
<1>3. CASE WaitFails
  BY <1>3, RestKeeps DEF WaitFails
<1>4. CASE \E e \in batch : Callback(e) \/ NonblockFails(e)
  BY <1>4, CallbackKeeps, AcceptLeaksKeeps
<1>5. CASE Tick
  BY <1>5, TickKeeps
<1>6. CASE \E c \in Clients : ClientStep(c)
  BY <1>6, ClientKeeps
<1>7. CASE vars' = vars
  <2>1. TypeOK'
    BY <1>7 DEF vars, IInv, TypeOK
  <2>2. KernelSync' /\ Roles'
    BY <1>7, SameSync DEF vars, IInv, Roles, Live
  <2>3. Once'
    BY <1>7, BacklogKept DEF vars, IInv
  <2>4. BatchFresh' /\ Reported'
    BY <1>7, AllKept DEF vars
  <2> QED BY <2>1, <2>2, <2>3, <2>4 DEF IInv
<1> QED BY <1>1, <1>2, <1>3, <1>4, <1>5, <1>6, <1>7 DEF Next, ServerStep

(* The invariant holds in every reachable state.                           *)
THEOREM Invariance == Spec => []IInv
<1>1. ReactorAssumption
  BY ReactorAssumption
<1>2. Init => IInv
  BY <1>1, InitInv
<1>3. IInv /\ [Next]_vars => IInv'
  BY <1>1, NextInv
<1> QED BY <1>2, <1>3, PTL DEF Spec

(* Every variable keeps its type: no index leaves g_events, and no length  *)
(* exceeds BUFLEN.                                                         *)
THEOREM Typing == Spec => []TypeOK
BY Invariance, PTL DEF IInv

(* status says what epoll knows: every live slot is registered under its   *)
(* own address, for the event it waits for and a descriptor of its own,    *)
(* and nothing else is registered.                                         *)
THEOREM Agreement == Spec => []KernelSync
BY Invariance, PTL DEF IInv

(* No event of a batch is made stale by the callbacks before it.           *)
THEOREM Fresh == Spec => []BatchFresh
BY Invariance, PTL DEF IInv

-----------------------------------------------------------------------------
(* What becomes of connections.                                            *)

(* No descriptor changes hands, and every live slot keeps its own.         *)
Keeps == owner' = owner /\ \A s \in Slots : Live(s) =>
                             Live(s)' /\ g_events'[s].fd = g_events[s].fd

(* Connections are closed, each that was up for a cause.                   *)
Shuts == \E S \in SUBSET Slots, F \in SUBSET Fds :
           Closes(S, F) /\ \A s \in S : link[owner[g_events[s].fd]] = "up" => Cause(s)

(* A descriptor is opened, and watched unless every slot is taken or fcntl *)
(* fails.                                                                  *)
Opens == \E cfd \in Fds :
           /\ owner[cfd] = NoClient /\ \A f \in AllFds : f # cfd => owner'[f] = owner[f]
           /\ \A s \in Slots : Live(s) => /\ g_events[s].fd # cfd
                                         /\ Live(s)' /\ g_events'[s].fd = g_events[s].fd
           /\ \/ \A s \in Slots : Live(s)
              \/ \E e \in batch : NonblockFails(e)
              \/ \E s \in Slots : Live(s)' /\ g_events'[s].fd = cfd

(* Each callback does one of the three, and so does one in which fcntl     *)
(* fails.                                                                  *)
LEMMA CallbackShape ==
  ASSUME ReactorAssumption, IInv, NEW e \in batch, Callback(e) \/ NonblockFails(e)
  PROVE  Keeps \/ Shuts \/ Opens
<1>1. CASE SendKills(e) \/ AcceptFails(e)
  <2>1. owner' = owner /\ g_events' = g_events
    BY <1>1 DEF SendKills, AcceptFails, net
  <2> QED BY <2>1 DEF Keeps, Live
<1>2. CASE RecvData(e) \/ SendData(e)
  <2>1. /\ owner' = owner /\ Live(e.ptr)' /\ g_events'[e.ptr].fd = g_events[e.ptr].fd
        /\ \A s \in 0 .. MAX_EVENTS : s # e.ptr => g_events'[s] = g_events[s]
    BY <1>2, RecvShape, SendShape
  <2>2. ASSUME NEW s \in Slots, Live(s)
        PROVE  Live(s)' /\ g_events'[s].fd = g_events[s].fd
    <3>1. CASE s = e.ptr
      BY <2>1, <3>1
    <3>2. CASE s # e.ptr
      BY <2>1, <2>2, <3>2, Basics DEF Live
    <3> QED BY <3>1, <3>2
  <2> QED BY <2>1, <2>2 DEF Keeps
<1>3. CASE RecvEnds(e) \/ SendEnds(e)
  <2>1. /\ Closes({e.ptr}, {g_events[e.ptr].fd})
        /\ link[owner[g_events[e.ptr].fd]] = "up" => Cause(e.ptr)
    BY <1>3, RecvEndsShape, SendEndsShape
  <2>2. {e.ptr} \in SUBSET Slots
    BY <2>1 DEF Closes
  <2>3. {g_events[e.ptr].fd} \in SUBSET Fds
    <3>1. e.ptr \in Slots /\ Live(e.ptr)
      BY <2>1 DEF Closes
    <3> QED BY <3>1, SyncForm DEF SlotsKept, IInv
  <2>4. \A s \in {e.ptr} : link[owner[g_events[s].fd]] = "up" => Cause(s)
    BY <2>1
  <2> QED BY <2>1, <2>2, <2>3, <2>4 DEF Shuts
<1>4. CASE AcceptConn(e)
  <2>1. PICK cfd \in Fds : /\ Accepted(e, cfd) /\ FreeSlots # {}
                           /\ Installs(Lowest(FreeSlots), cfd)
    BY <1>4 DEF AcceptConn
  <2>2. PICK p \in Slots, ev \in Myevent :
           /\ ~Live(p) /\ Puts(p, ev)
           /\ ev.fd = cfd /\ ev.events = "IN" /\ ev.call_back = "recvdata"
    BY <2>1, InstallShape
  <2>3. /\ g_events'[p] = ev /\ ev.status = 1
        /\ \A s \in Slots : s # p => g_events'[s] = g_events[s]
    BY <2>2, Basics DEF IInv, TypeOK, Puts
  <2>4. Live(p)' /\ g_events'[p].fd = cfd
    BY <2>2, <2>3 DEF Live
  <2>5. \A s \in Slots : Live(s) => Live(s)' /\ g_events'[s].fd = g_events[s].fd
    BY <2>2, <2>3 DEF Live
  <2>6. /\ owner[cfd] = NoClient /\ \A f \in AllFds : f # cfd => owner'[f] = owner[f]
        /\ \A s \in 0 .. MAX_EVENTS : Live(s) => g_events[s].fd # cfd
    BY <2>1, AcceptedShape, ZenonT(60)
  <2> QED BY <2>4, <2>5, <2>6, Basics DEF Opens
<1>5. CASE AcceptLeaks(e)
  <2>1. PICK cfd \in Fds : Accepted(e, cfd) /\ FreeSlots = {} /\ g_events' = g_events
    BY <1>5 DEF AcceptLeaks
  <2>2. \A s \in Slots : Live(s)
    BY <2>1, Basics DEF FreeSlots, Live, IInv, TypeOK, Myevent
  <2>3. /\ owner[cfd] = NoClient /\ \A f \in AllFds : f # cfd => owner'[f] = owner[f]
        /\ \A s \in 0 .. MAX_EVENTS : Live(s) => g_events[s].fd # cfd
    BY <2>1, AcceptedShape, ZenonT(60)
  <2> QED BY <2>1, <2>2, <2>3, Basics DEF Opens, Live
<1>6. CASE NonblockFails(e)
  <2>1. PICK cfd \in Fds : Accepted(e, cfd) /\ g_events' = g_events
    BY <1>6 DEF NonblockFails
  <2>2. /\ owner[cfd] = NoClient /\ \A f \in AllFds : f # cfd => owner'[f] = owner[f]
        /\ \A s \in 0 .. MAX_EVENTS : Live(s) => g_events[s].fd # cfd
    BY <2>1, AcceptedShape, ZenonT(60)
  <2>3. \A s \in Slots : Live(s) => /\ g_events[s].fd # cfd
                                     /\ Live(s)' /\ g_events'[s].fd = g_events[s].fd
    BY <2>1, <2>2, Basics DEF Live
  <2> QED BY <1>6, <2>2, <2>3 DEF Opens
<1> QED BY <1>1, <1>2, <1>3, <1>4, <1>5, <1>6 DEF Callback

(* Each step does one of the three.                                        *)
LEMMA StepShape ==
  ASSUME ReactorAssumption, IInv, [Next]_vars
  PROVE  Keeps \/ Shuts \/ Opens
<1>1. CASE CheckTimeouts
  <2>1. PICK S \in SUBSET Slots, F \in SUBSET Fds :
          Closes(S, F) /\ \A s \in S : g_events[s].age = TIMEOUT
    BY <1>1, TimeoutShape
  <2> QED BY <2>1 DEF Shuts, Cause
<1>2. CASE \E e \in batch : Callback(e) \/ NonblockFails(e)
  BY <1>2, CallbackShape
<1>3. CASE Wait \/ WaitFails \/ (\E c \in Clients : ClientStep(c)) \/ vars' = vars
  <2>1. owner' = owner /\ g_events' = g_events
    BY <1>3 DEF Wait, WaitFails, ClientStep, Connect, Say, Leave, Reset, Drain,
                vars, server, net
  <2> QED BY <2>1 DEF Keeps, Live
<1>4. CASE Tick
  <2>1. \A s \in Slots : g_events'[s] = [g_events[s] EXCEPT !.age = Smaller(@ + 1, TIMEOUT)]
    BY <1>4, Basics, ZenonT(60) DEF Tick, IInv, TypeOK
  <2>2. \A s \in Slots : g_events[s] \in Myevent
    BY Basics DEF IInv, TypeOK
  <2>3. \A s \in Slots : /\ g_events'[s].fd = g_events[s].fd
                         /\ g_events'[s].status = g_events[s].status
    <3> SUFFICES ASSUME NEW s \in Slots
                 PROVE  /\ g_events'[s].fd = g_events[s].fd
                        /\ g_events'[s].status = g_events[s].status
      OBVIOUS
    <3>1. \E a : g_events'[s] = [g_events[s] EXCEPT !.age = a]
      BY <2>1
    <3> QED BY <2>2, <3>1 DEF Myevent
  <2> QED BY <1>4, <2>3 DEF Keeps, Live, Tick, net
<1> QED BY <1>1, <1>2, <1>3, <1>4 DEF Next, ServerStep

(* A connection stops being watched only by being closed, and is accepted  *)
(* without being watched only when every slot is taken or fcntl fails      *)
(* (NoneForgotten; lines 96-136).                                          *)
THEOREM Remembered == Spec => NoneForgotten
<1>1. ReactorAssumption
  BY ReactorAssumption
<1>2. ASSUME IInv, [Next]_vars
      PROVE  \A f \in Fds : owner'[f] # NoClient /\ ~Watched(f)' =>
                \/ owner[f] # NoClient /\ ~Watched(f)
                \/ /\ owner[f] = NoClient
                   /\ (\A s \in Slots : Live(s)) \/ \E e \in batch : NonblockFails(e)
  <2> SUFFICES ASSUME NEW f \in Fds, owner'[f] # NoClient, ~Watched(f)'
               PROVE  \/ owner[f] # NoClient /\ ~Watched(f)
                      \/ /\ owner[f] = NoClient
                         /\ (\A s \in Slots : Live(s)) \/ \E e \in batch : NonblockFails(e)
    OBVIOUS
  <2>1. CASE Keeps
    BY <2>1 DEF Keeps, Watched
  <2>2. CASE Shuts
    <3>1. PICK S \in SUBSET Slots, F \in SUBSET Fds : Closes(S, F)
      BY <2>2 DEF Shuts
    <3>2. f \notin F /\ owner[f] # NoClient
      BY <3>1, Basics, <1>1 DEF Closes, Close
    <3>3. \A s \in Slots : Live(s) /\ g_events[s].fd = f => s \notin S
      BY <3>1, <3>2 DEF Closes
    <3>4. \A s \in Slots : Live(s) /\ s \notin S => g_events'[s] = g_events[s]
      BY <1>1, <1>2, <3>1, ClosesSync, Basics DEF IInv
    <3> QED BY <3>2, <3>3, <3>4 DEF Watched, Live
  <2>3. CASE Opens
    <3>1. PICK cfd \in Fds :
           /\ owner[cfd] = NoClient /\ \A g \in AllFds : g # cfd => owner'[g] = owner[g]
           /\ \A s \in Slots : Live(s) => /\ g_events[s].fd # cfd
                                         /\ Live(s)' /\ g_events'[s].fd = g_events[s].fd
           /\ \/ \A s \in Slots : Live(s)
              \/ \E e \in batch : NonblockFails(e)
              \/ \E s \in Slots : Live(s)' /\ g_events'[s].fd = cfd
      BY <2>3 DEF Opens
    <3>2. CASE f = cfd
      BY <3>1, <3>2 DEF Watched
    <3>3. CASE f # cfd
      <4>1. owner[f] # NoClient
        BY <1>1, <3>1, <3>3, Basics
      <4> QED BY <3>1, <4>1 DEF Watched
    <3> QED BY <3>2, <3>3
  <2> QED BY <1>1, <1>2, <2>1, <2>2, <2>3, StepShape
<1> QED BY <1>2, Invariance, PTL DEF Spec, NoneForgotten

(* A connection whose client still uses it is closed only for a silence of *)
(* TIMEOUT or an overwritten length.                                       *)
THEOREM Cautious == Spec => ClosedForCause
<1>1. ReactorAssumption
  BY ReactorAssumption
<1>2. ASSUME IInv, [Next]_vars, NEW s \in Slots, Live(s),
             link[owner[g_events[s].fd]] = "up", owner'[g_events[s].fd] = NoClient
      PROVE  Cause(s)
  <2>1. s \in 0 .. MAX_EVENTS /\ g_events[s].fd \in Fds /\ owner[g_events[s].fd] # NoClient
    BY <1>1, <1>2, LiveSlot, Basics DEF IInv
  <2>2. CASE Keeps
    BY <1>2, <2>1, <2>2 DEF Keeps
  <2>3. CASE Opens
    BY <1>1, <1>2, <2>1, <2>3, Basics DEF Opens
  <2>4. CASE Shuts
    <3>1. PICK S \in SUBSET Slots, F \in SUBSET Fds :
            Closes(S, F) /\ \A t \in S : link[owner[g_events[t].fd]] = "up" => Cause(t)
      BY <2>4 DEF Shuts
    <3>2. s \in S
      BY <1>1, <1>2, <2>1, <3>1, ClosesSync DEF IInv
    <3> QED BY <1>2, <3>1, <3>2
  <2> QED BY <1>1, <1>2, <2>2, <2>3, <2>4, StepShape
<1>3. ASSUME IInv, [Next]_vars
      PROVE  \A s \in Slots :
               LET ev == g_events[s]
               IN  Live(s) /\ link[owner[ev.fd]] = "up" /\ owner'[ev.fd] = NoClient =>
                     ev.age = TIMEOUT \/ (ev.call_back = "senddata" /\ ev.len = 0)
  BY <1>2, <1>3 DEF Cause
<1> QED BY <1>3, Invariance, PTL DEF Spec, ClosedForCause
=============================================================================
