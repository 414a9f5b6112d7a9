------------------------------- MODULE OneShot -------------------------------
(***************************************************************************)
(* test_epoll_epolloneshot.c: a main thread that waits for events and      *)
(* starts a thread for each readable connection, and the threads, which    *)
(* read a connection until it is empty and then ask for its next event.    *)
(* EPOLLONESHOT is there so that no two threads work on one connection.    *)
(*                                                                         *)
(* A thread finds its descriptor through the address of a variable of the  *)
(* main thread's loop, the same one for every thread, and reads it when it *)
(* first runs.                                                             *)
(***************************************************************************)
EXTENDS Integers, Sequences, FiniteSets

CONSTANTS
  Clients,      \* the connections clients may open, each of them once
  NoClient,     \* marks a descriptor that is not open
  Fds,          \* the descriptors accept may return
  listenfd,
  Workers,      \* the threads the process may have at a time
  MaxUnread     \* bound: receives' worth of data waiting in a socket

ASSUME OneShotAssumption ==
  /\ NoClient \notin Clients
  /\ Fds \subseteq Nat /\ IsFiniteSet(Fds)
  /\ listenfd \in Nat \ Fds
  /\ MaxUnread \in Nat \ {0}

VARIABLES
  batch,      \* the events of the last epoll_wait not yet handled
  cell,       \* fds_for_new_worker.sockfd
  thread,     \* the threads: [at, sock], and (not in the code) the socket each is for
  armed,      \* the descriptors whose next event epoll will report
  lready,     \* whether listenfd is in epoll's ready list
  owner,      \* the kernel's descriptor table: whose connection an fd is
  link,       \* "none", "up", "fin", "rst", "dead" (rst reported), "closed"
  backlog,    \* connections waiting for accept
  unread,     \* data in a connection's receive buffer
  running,    \* whether main has not returned, which ends the threads as well
  raced,      \* (not in the code) a thread has read another thread's cell
  lost        \* (not in the code) connections whose thread was not created

main == <<batch, cell>>
kernel == <<armed, lready, owner, backlog>>
others == <<running, raced, lost>>
vars == <<batch, cell, thread, armed, lready, owner, link, backlog, unread, running, raced, lost>>

NULL == -1   \* no descriptor, or none that is open: what else the cell may hold

Ended == {"fin", "rst", "dead"}

Init ==
  /\ batch = {}
  /\ cell = NULL
  /\ thread = [w \in Workers |-> [at |-> "none", sock |-> NULL, for |-> NULL]]
  /\ armed = {}
  /\ lready = FALSE
  /\ owner = [f \in Fds |-> NoClient]
  /\ link = [c \in Clients |-> "none"]
  /\ backlog = <<>>
  /\ unread = [c \in Clients |-> 0]
  /\ running = TRUE
  /\ raced = FALSE
  /\ lost = {}

-----------------------------------------------------------------------------
(* The clients.                                                            *)

(* listenfd is watched with EPOLLET: an arrival makes it ready, once.      *)
Connect(c) ==
  /\ link[c] = "none"
  /\ link' = [link EXCEPT ![c] = "up"]
  /\ backlog' = Append(backlog, c)
  /\ lready' = TRUE
  /\ UNCHANGED <<main, thread, armed, owner, unread, others>>

Say(c) ==
  /\ link[c] = "up" /\ unread[c] < MaxUnread
  /\ unread' = [unread EXCEPT ![c] = @ + 1]
  /\ UNCHANGED <<main, thread, kernel, link, others>>

Leave(c) ==
  /\ link[c] = "up"
  /\ link' = [link EXCEPT ![c] = "fin"]
  /\ UNCHANGED <<main, thread, kernel, unread, others>>

(* What waits to be read may or may not survive a reset.                   *)
Reset(c) ==
  /\ link[c] \in {"up", "fin"}
  /\ link' = [link EXCEPT ![c] = "rst"]
  /\ \E left \in {0, unread[c]} : unread' = [unread EXCEPT ![c] = left]
  /\ UNCHANGED <<main, thread, kernel, others>>

-----------------------------------------------------------------------------
(* The main thread.                                                        *)

Readable(f) == owner[f] # NoClient /\ (unread[owner[f]] > 0 \/ link[owner[f]] \in Ended)

(* An event of a connection is reported once and then not again until the  *)
(* connection is registered anew; listenfd leaves the ready list.          *)
Reported(ready) ==
  /\ batch = {}
  /\ batch' = ready \cup IF lready /\ backlog # <<>> THEN {listenfd} ELSE {}
  /\ batch' # {}
  /\ lready' = FALSE
  /\ UNCHANGED <<cell, thread, owner, link, backlog, unread, others>>

(* Mutant of Wait: connections watched without EPOLLONESHOT.               *)
Wait_NoOneShot == LET ready == {f \in armed : Readable(f)} IN Reported(ready) /\ UNCHANGED armed

Wait == LET ready == {f \in armed : Readable(f)} IN Reported(ready) /\ armed' = armed \ ready

(* epoll_wait fails, of a signal or a debugger's stop: main returns.        *)
WaitFails ==
  /\ running /\ batch = {}
  /\ running' = FALSE
  /\ UNCHANGED <<main, thread, kernel, link, unread, raced, lost>>

FreeFds == {f \in Fds : owner[f] = NoClient}

(* One accept for one event, however many wait.  The variable passed to    *)
(* the threads is out of scope here, and its place may be used otherwise.  *)
AcceptConn ==
  /\ listenfd \in batch
  /\ backlog # <<>> /\ FreeFds # {}
  /\ LET connfd == CHOOSE f \in FreeFds : \A g \in FreeFds : f <= g
     IN  /\ owner' = [owner EXCEPT ![connfd] = Head(backlog)]
         /\ armed' = armed \cup {connfd}
  /\ backlog' = Tail(backlog)
  /\ batch' = batch \ {listenfd}
  /\ cell' \in {cell, NULL}
  /\ UNCHANGED <<thread, lready, link, unread, others>>

(* Mutant of AcceptFails: what accept returned is registered all the same. *)
AcceptFails_Registers ==
  /\ listenfd \in batch
  /\ armed' = armed \cup {NULL}
  /\ batch' = batch \ {listenfd}
  /\ UNCHANGED <<cell, thread, lready, owner, backlog, link, unread, others>>

(* accept fails, for want of a descriptor in the process or in the system, *)
(* and addfd(epollfd, -1) does nothing.                                    *)
AcceptFails ==
  /\ listenfd \in batch
  /\ batch' = batch \ {listenfd}
  /\ UNCHANGED <<cell, thread, kernel, link, unread, others>>

StartWorker(f, w) ==
  /\ f \in batch \ {listenfd}
  /\ thread[w].at = "none"
  /\ cell' = f
  /\ thread' = [thread EXCEPT ![w] = [at |-> "start", sock |-> NULL, for |-> f]]
  /\ batch' = batch \ {f}
  /\ UNCHANGED <<kernel, link, unread, others>>

(* pthread_create fails, and nobody looks.  It may at any time: a thread   *)
(* that ended was neither joined nor detached, and keeps its memory.       *)
StartFails(f) ==
  /\ f \in batch \ {listenfd}
  /\ cell' = f
  /\ batch' = batch \ {f}
  /\ lost' = lost \cup ({owner[f]} \ {NoClient})
  /\ UNCHANGED <<thread, kernel, link, unread, running, raced>>

-----------------------------------------------------------------------------
(* A thread.                                                               *)

ReadArgument(w) ==
  /\ thread[w].at = "start"
  /\ thread' = [thread EXCEPT ![w].at = "recv", ![w].sock = cell]
  /\ raced' = (raced \/ cell # thread[w].for)
  /\ UNCHANGED <<main, kernel, link, unread, running, lost>>

At(w) == thread[w].at = "recv" /\ thread[w].sock \in Fds /\ owner[thread[w].sock] # NoClient
Of(w) == owner[thread[w].sock]
Finish(w) == thread' = [thread EXCEPT ![w] = [at |-> "none", sock |-> NULL, for |-> NULL]]

RecvData(w) ==
  /\ At(w) /\ unread[Of(w)] > 0
  /\ unread' = [unread EXCEPT ![Of(w)] = @ - 1]
  /\ UNCHANGED <<main, thread, kernel, link, others>>

(* Mutant of RecvAgain: the thread ends without reset_onshot.              *)
RecvAgain_NoReset(w) ==
  /\ At(w) /\ unread[Of(w)] = 0 /\ link[Of(w)] = "up"
  /\ Finish(w)
  /\ UNCHANGED <<main, kernel, link, unread, others>>

(* Nothing more to read.  More may come before the next step.              *)
RecvAgain(w) ==
  /\ At(w) /\ unread[Of(w)] = 0 /\ link[Of(w)] = "up"
  /\ thread' = [thread EXCEPT ![w].at = "reset"]
  /\ UNCHANGED <<main, kernel, link, unread, others>>

(* reset_onshot, which has no effect on a descriptor closed meanwhile, and *)
(* the thread ends.                                                        *)
ResetOneshot(w) ==
  /\ thread[w].at = "reset"
  /\ armed' = armed \cup {f \in {thread[w].sock} : owner[f] # NoClient}
  /\ Finish(w)
  /\ UNCHANGED <<main, lready, owner, link, backlog, unread, others>>

(* The error of a reset is reported once, and the loop goes on.            *)
RecvError(w) ==
  /\ At(w) /\ unread[Of(w)] = 0 /\ link[Of(w)] = "rst"
  /\ link' = [link EXCEPT ![Of(w)] = "dead"]
  /\ UNCHANGED <<main, thread, kernel, unread, others>>

(* Mutant of RecvEnds: an empty receive buffer is taken for the end.       *)
RecvEnds_Empty(w) ==
  /\ At(w) /\ unread[Of(w)] = 0
  /\ thread' = [thread EXCEPT ![w].at = "close"]
  /\ UNCHANGED <<main, kernel, link, unread, others>>

(* recv returns 0; the close is a call of its own.                         *)
RecvEnds(w) ==
  /\ At(w) /\ unread[Of(w)] = 0 /\ link[Of(w)] \in {"fin", "dead"}
  /\ thread' = [thread EXCEPT ![w].at = "close"]
  /\ UNCHANGED <<main, kernel, link, unread, others>>

(* close hits whatever connection has the number by now: the one that      *)
(* ended or, if another thread has closed that, none, or the next one.     *)
CloseEnded(w) ==
  LET f == thread[w].sock
  IN  /\ thread[w].at = "close"
      /\ owner' = [owner EXCEPT ![f] = NoClient]
      /\ armed' = armed \ {f}
      /\ link' = [c \in Clients |-> IF c = owner[f] THEN "closed" ELSE link[c]]
      /\ unread' = [c \in Clients |-> IF c = owner[f] THEN 0 ELSE unread[c]]
      /\ Finish(w)
      /\ UNCHANGED <<main, lready, backlog, others>>

(* On a descriptor that is not open recv fails for ever, and the thread    *)
(* spins: no step is left to it until accept opens the descriptor again.   *)
Spinning(w) == thread[w].at = "recv" /\ ~At(w)

-----------------------------------------------------------------------------
MainStep ==
  /\ running
  /\ \/ Wait \/ AcceptConn \/ AcceptFails
     \/ \E f \in batch : StartFails(f) \/ \E w \in Workers : StartWorker(f, w)

WorkerStep(w) ==
  /\ running
  /\ \/ ReadArgument(w) \/ RecvData(w) \/ RecvAgain(w) \/ ResetOneshot(w)
     \/ RecvError(w) \/ RecvEnds(w) \/ CloseEnded(w)

ClientStep(c) == running /\ (Connect(c) \/ Say(c) \/ Leave(c) \/ Reset(c))

Next ==
  \/ MainStep \/ WaitFails
  \/ \E w \in Workers : WorkerStep(w)
  \/ \E c \in Clients : ClientStep(c)

Spec == Init /\ [][Next]_vars

(* Each thread keeps running.                                              *)
FairSpec == Spec /\ WF_vars(MainStep) /\ \A w \in Workers : WF_vars(WorkerStep(w))
-----------------------------------------------------------------------------
(* Correctness.                                                            *)

(* Every variable has its type: what is registered with epoll, or reported *)
(* by it, is a descriptor.                                                 *)
TypeOK ==
  /\ batch \subseteq Fds \cup {listenfd}
  /\ cell \in Fds \cup {NULL}
  /\ thread \in [Workers -> [at : {"none", "start", "recv", "reset", "close"}, sock : Fds \cup {NULL}, for : Fds \cup {NULL}]]
  /\ armed \subseteq Fds
  /\ lready \in BOOLEAN
  /\ owner \in [Fds -> Clients \cup {NoClient}]
  /\ link \in [Clients -> {"none", "up", "fin", "rst", "dead", "closed"}]
  /\ backlog \in Seq(Clients)
  /\ unread \in [Clients -> 0 .. MaxUnread]
  /\ running \in BOOLEAN
  /\ raced \in BOOLEAN
  /\ lost \subseteq Clients

Working(f) == {w \in Workers : thread[w].for = f}

(* The four places the responsibility for a descriptor can be: with epoll, *)
(* with the main thread, with one thread, or (its thread was not created)  *)
(* with nobody.                                                            *)
Places(f) ==
  {<<"epoll", f>> : x \in armed \cap {f}} \cup {<<"main", f>> : x \in batch \cap {f}}
    \cup {<<"thread", w>> : w \in Working(f)} \cup {<<"nobody", f>> : x \in lost \cap {owner[f]}}

(* What EPOLLONESHOT and reset_onshot promise together, until a thread     *)
(* reads another's cell: an open connection is in exactly one place, a     *)
(* closed descriptor in none, and a thread works on its own descriptor.    *)
HandedOver ==
  ~raced =>
    /\ \A f \in Fds : Cardinality(Places(f)) = IF owner[f] = NoClient THEN 0 ELSE 1
    /\ \A w \in Workers : thread[w].at \in {"recv", "reset", "close"} =>
                             thread[w].sock = thread[w].for /\ owner[thread[w].for] # NoClient

(* The server implements the abstract room of the chat servers: it takes   *)
(* arrivals in order, and closes whoever has ended the connection.  Once a *)
(* thread has read another's cell, two threads may hold a 0 for the same   *)
(* number, and the second close may strike whom accept gave it in between  *)
(* (lines 94-96); nothing else than that goes wrong with the room.         *)
Members == {owner[f] : f \in Fds} \ {NoClient}
Hung == {c \in Clients : link[c] \in Ended}
Room == INSTANCE ChatRoom WITH
          Limit <- Cardinality(Fds), members <- Members, queue <- backlog, hung <- Hung

Struck ==
  \E c \in Members : Members' = Members \ {c} /\ Hung' = Hung \ {c} /\ backlog' = backlog

ImplementsRoom == Room!RoomInit /\ [][Room!RoomNext \/ (raced /\ Struck)]_(Room!roomVars)

Accepted(c) == \E f \in Fds : owner[f] = c

Excused(c) == raced \/ c \in lost \/ ~running

(* What an accepted client sends is read, however its arrival falls among  *)
(* the steps of a thread that is about to return (lines 90-109); and one   *)
(* that leaves or resets is closed (lines 94-99), the event of its leaving *)
(* being neither lost nor left to a thread that has ended, while the       *)
(* process lives.                                                          *)
Attended ==
  \A c \in Clients :
    /\ Accepted(c) /\ unread[c] > 0 ~> unread[c] = 0 \/ Excused(c)
    /\ Accepted(c) /\ link[c] \in Ended ~> link[c] = "closed" \/ Excused(c)
=============================================================================
