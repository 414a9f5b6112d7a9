------------------------------- MODULE ShmChild -------------------------------
(***************************************************************************)
(* run_child of shmget_chat_room_server.c: the process that serves one     *)
(* client.  It reads the client's text into its own segment of the shared  *)
(* memory and tells the main process, through a pipe, that it has.  Both   *)
(* its sockets are non-blocking and watched with EPOLLET.                  *)
(*                                                                         *)
(* The branch for the main process's answers is not here: "sockfd =        *)
(* connfd" assigns, so that every event is taken for one of the client's.  *)
(* Nothing in the file forks a child, so the main process is whatever may  *)
(* hold the pipe's other end.                                              *)
(***************************************************************************)
EXTENDS Naturals

CONSTANTS
  RecvMax,      \* what one recv takes: BUFFER_SIZE - 1
  MaxUnread,    \* bound: bytes of the client waiting in its socket
  PipeCap       \* the notices the pipe holds

ASSUME ChildAssumption == {RecvMax, MaxUnread, PipeCap} \subseteq Nat \ {0}

VARIABLES
  at,           \* "setup", "test" (of stop_child), "enter" and "wait" (epoll_wait), "handle", "closed"
  stop_child,
  ready,        \* child_epollfd's ready list
  batch,        \* the events of the last epoll_wait not yet handled
  segment,      \* bytes of text at share_mem + idx * BUFFER_SIZE
  notices,      \* indices in the pipe that the main process has not read
  link,         \* the connection: "up", "fin" or "rst"
  unread        \* bytes in its receive buffer

vars == <<at, stop_child, ready, batch, segment, notices, link, unread>>

Sources == {"connfd", "pipefd"}

Init ==
  /\ at = "setup" /\ stop_child = FALSE
  /\ ready = {} /\ batch = {}
  /\ segment = 0 /\ notices = 0
  /\ link = "up" /\ unread = 0

-----------------------------------------------------------------------------
(* The client and the main process.                                        *)

Say(n) ==
  /\ at # "closed" /\ link = "up" /\ unread + n <= MaxUnread
  /\ unread' = unread + n
  /\ ready' = ready \cup {"connfd"}
  /\ UNCHANGED <<at, stop_child, batch, segment, notices, link>>

Leave ==
  /\ at # "closed" /\ link = "up"
  /\ link' = "fin"
  /\ ready' = ready \cup {"connfd"}
  /\ UNCHANGED <<at, stop_child, batch, segment, notices, unread>>

(* What waits to be read may or may not survive a reset.                   *)
Reset ==
  /\ at # "closed" /\ link # "rst"
  /\ link' = "rst"
  /\ unread' \in {0, unread}
  /\ ready' = ready \cup {"connfd"}
  /\ UNCHANGED <<at, stop_child, batch, segment, notices>>

(* The main process writes an index into the pipe, or closes its end: the  *)
(* pipe is readable from then on, because the child never reads it.        *)
Notify ==
  /\ at # "closed"
  /\ ready' = ready \cup {"pipefd"}
  /\ UNCHANGED <<at, stop_child, batch, segment, notices, link, unread>>

TakeNotice ==
  /\ notices > 0
  /\ notices' = notices - 1
  /\ UNCHANGED <<at, stop_child, ready, batch, segment, link, unread>>

-----------------------------------------------------------------------------
(* The child.                                                              *)

(* What has become ready is reported if it still is.                       *)
Reportable == {s \in ready : s = "connfd" => unread > 0 \/ link # "up"}
Asleep == at = "wait" /\ Reportable = {}

(* Until its own handler is installed the child has the main process's,    *)
(* which stops nobody.                                                     *)
Setup ==
  /\ at = "setup"
  /\ at' = "test"
  /\ UNCHANGED <<stop_child, ready, batch, segment, notices, link, unread>>

(* It ends epoll_wait with EINTR only when the process is asleep there.    *)
child_term_handler ==
  /\ at \notin {"setup", "closed"}
  /\ stop_child' = TRUE
  /\ at' = IF Asleep THEN "test" ELSE at
  /\ UNCHANGED <<ready, batch, segment, notices, link, unread>>

(* Mutant of Loop: while(1).                                               *)
Loop_Forever ==
  /\ at = "test"
  /\ at' = "enter"
  /\ UNCHANGED <<stop_child, ready, batch, segment, notices, link, unread>>

Loop ==
  /\ at = "test"
  /\ at' = IF stop_child THEN "closed" ELSE "enter"
  /\ UNCHANGED <<stop_child, ready, batch, segment, notices, link, unread>>

Enter ==
  /\ at = "enter"
  /\ at' = "wait"
  /\ UNCHANGED <<stop_child, ready, batch, segment, notices, link, unread>>

Wait ==
  /\ at = "wait" /\ ~Asleep
  /\ batch' = Reportable
  /\ ready' = {}
  /\ at' = "handle"
  /\ UNCHANGED <<stop_child, segment, notices, link, unread>>

WaitFails ==
  /\ at = "wait"
  /\ at' = "closed"
  /\ UNCHANGED <<stop_child, ready, batch, segment, notices, link, unread>>

(* Whichever socket an event is for, the segment is cleared and connfd is  *)
(* read once.                                                              *)
Handle(s) ==
  /\ at = "handle" /\ s \in batch
  /\ batch' = batch \ {s}
  /\ at' = IF batch' = {} THEN "test" ELSE "handle"

Least(a, b) == IF a < b THEN a ELSE b

(* A notice that finds the pipe full is lost.                              *)
RecvText(s) ==
  /\ Handle(s) /\ unread > 0
  /\ segment' = Least(unread, RecvMax)
  /\ unread' = unread - segment'
  /\ notices' = Least(notices + 1, PipeCap)
  /\ UNCHANGED <<stop_child, ready, link>>

(* EAGAIN.                                                                 *)
RecvAgain(s) ==
  /\ Handle(s) /\ unread = 0 /\ link = "up"
  /\ segment' = 0
  /\ UNCHANGED <<stop_child, ready, notices, link, unread>>

(* Mutants of RecvStops: the end, or an error, is not looked at.           *)
RecvStops_NoEnd(s) ==
  /\ Handle(s) /\ unread = 0 /\ link # "up"
  /\ segment' = 0
  /\ stop_child' = (stop_child \/ link = "rst")
  /\ UNCHANGED <<ready, notices, link, unread>>
RecvStops_NoError(s) ==
  /\ Handle(s) /\ unread = 0 /\ link # "up"
  /\ segment' = 0
  /\ stop_child' = (stop_child \/ link = "fin")
  /\ UNCHANGED <<ready, notices, link, unread>>
(* Mutant of RecvStops: the rest of the batch is left.                     *)
RecvStops_Breaks(s) ==
  /\ at = "handle" /\ s \in batch /\ unread = 0 /\ link # "up"
  /\ at' = "closed"
  /\ segment' = 0
  /\ UNCHANGED <<stop_child, ready, batch, notices, link, unread>>

(* The end, or an error other than EAGAIN.                                 *)
RecvStops(s) ==
  /\ Handle(s) /\ unread = 0 /\ link # "up"
  /\ segment' = 0
  /\ stop_child' = TRUE
  /\ UNCHANGED <<ready, notices, link, unread>>

-----------------------------------------------------------------------------
ChildStep ==
  \/ Setup \/ Loop \/ Enter \/ Wait
  \/ \E s \in Sources : RecvText(s) \/ RecvAgain(s) \/ RecvStops(s)

Next ==
  \/ ChildStep \/ WaitFails \/ child_term_handler
  \/ \E n \in 1 .. MaxUnread : Say(n)
  \/ Leave \/ Reset \/ Notify \/ TakeNotice

Spec == Init /\ [][Next]_vars
FairSpec == Spec /\ WF_vars(ChildStep)

-----------------------------------------------------------------------------
(* Correctness.                                                            *)

(* Every variable has its type; events are left to handle only while the   *)
(* loop over a batch runs, and what one recv took fits into the segment.   *)
TypeOK ==
  /\ at \in {"setup", "test", "enter", "wait", "handle", "closed"}
  /\ stop_child \in BOOLEAN
  /\ ready \in SUBSET Sources /\ batch \in SUBSET Sources
  /\ at = "handle" <=> batch # {}
  /\ segment \in 0 .. RecvMax
  /\ notices \in 0 .. PipeCap
  /\ link \in {"up", "fin", "rst"}
  /\ unread \in 0 .. MaxUnread

(* One recv for one edge leaves something behind in one case only, however *)
(* text, hang-up and the main process's notices interleave: a child that   *)
(* sleeps on bytes has just filled its segment, and one that sleeps on the *)
(* end of its client has just read a text that came with it.               *)
LeftBehind ==
  Asleep => /\ unread > 0 => segment = RecvMax
            /\ link # "up" => segment > 0

(* A child whose client has gone ends, unless a text hid the end from it;  *)
(* and so does one that SIGTERM reaches, unless it comes between the test  *)
(* of stop_child and the sleep in epoll_wait (149-151).                    *)
Ends ==
  /\ link # "up" ~> at = "closed" \/ (Asleep /\ segment > 0)
  /\ stop_child /\ at # "enter" /\ ~Asleep ~> at = "closed"
=============================================================================
