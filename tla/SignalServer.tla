----------------------------- MODULE SignalServer -----------------------------
(***************************************************************************)
(* test_signal.c: a server that turns signals into bytes of a socket pair, *)
(* which its epoll loop reads with everything else, and that stops when    *)
(* one of them is SIGTERM or SIGINT.  What clients send is never read.     *)
(***************************************************************************)
EXTENDS Integers, Sequences

CONSTANTS
  PipeCap,      \* the bytes the socket pair holds (fewer than a recv takes)
  MaxBacklog,   \* bound: connections waiting for accept
  MaxConns      \* the connections the process may have open

ASSUME SignalAssumption == {PipeCap, MaxBacklog, MaxConns} \subseteq Nat \ {0}

VARIABLES
  at,           \* main: "setup", "loop", "wait", "handle", "exited", "killed"
  handled,      \* how many of the four handlers are installed
  pending,      \* the signals raised and not yet delivered
  pipe,         \* the bytes in the socket pair
  ready,        \* epoll's ready list
  batch,        \* the events of the last epoll_wait not yet handled
  stop_server,
  backlog,      \* connections waiting for accept
  conns,        \* connections accepted; none is ever closed
  asked,        \* (not in the code) SIGTERM or SIGINT has been raised
  dropped       \* (not in the code) a byte of theirs found the pipe full

net == <<backlog, conns>>
ghosts == <<asked, dropped>>
vars == <<at, handled, pending, pipe, ready, batch, stop_server, backlog, conns, asked, dropped>>

(* In the order in which main installs their handlers.                     *)
Handlers == <<"SIGHUP", "SIGCHLD", "SIGTERM", "SIGINT">>
Signals == {Handlers[i] : i \in 1 .. 4}
Stopping == {"SIGTERM", "SIGINT"}
Installed(sig) == \E i \in 1 .. handled : Handlers[i] = sig

Init ==
  /\ at = "setup"
  /\ handled = 0
  /\ pending = {}
  /\ pipe = <<>>
  /\ ready = {} /\ batch = {}
  /\ stop_server = FALSE
  /\ backlog = 0 /\ conns = 0
  /\ asked = FALSE /\ dropped = FALSE

Running == at \notin {"exited", "killed"}

-----------------------------------------------------------------------------
(* The world outside.                                                      *)

(* A signal that is pending is not queued a second time.                   *)
Raise(sig) ==
  /\ Running
  /\ pending' = pending \cup {sig}
  /\ asked' = (asked \/ sig \in Stopping)
  /\ UNCHANGED <<at, handled, pipe, ready, batch, stop_server, net, dropped>>

(* Descriptors are watched with EPOLLET: ready once for what arrives.      *)
Connect ==
  /\ Running /\ backlog < MaxBacklog
  /\ backlog' = backlog + 1
  /\ ready' = ready \cup {"listenfd"}
  /\ UNCHANGED <<at, handled, pending, pipe, batch, stop_server, conns, ghosts>>

(* A client that is connected sends something or leaves.                   *)
ClientActs ==
  /\ Running /\ conns > 0
  /\ ready' = ready \cup {"connfd"}
  /\ UNCHANGED <<at, handled, pending, pipe, batch, stop_server, net, ghosts>>

-----------------------------------------------------------------------------
(* Signal handling.  All signals are blocked while a handler runs.         *)

(* Before its handler is installed SIGCHLD is ignored and the others kill. *)
DefaultAction(sig) ==
  /\ Running /\ sig \in pending /\ ~Installed(sig)
  /\ pending' = pending \ {sig}
  /\ at' = IF sig = "SIGCHLD" THEN at ELSE "killed"
  /\ UNCHANGED <<handled, pipe, ready, batch, stop_server, net, ghosts>>

(* epoll_wait looks at its ready list before it looks for signals.  One    *)
(* that finds it asleep makes it fail with EINTR, SA_RESTART or not, and   *)
(* main leaves its loop and returns.                                       *)
Awake == at = "wait" => ready = {}

sig_handler(sig) ==
  /\ Running /\ sig \in pending /\ Installed(sig) /\ Awake
  /\ pending' = pending \ {sig}
  /\ IF Len(pipe) < PipeCap
     THEN pipe' = Append(pipe, sig) /\ ready' = ready \cup {"pipefd"} /\ dropped' = dropped
     ELSE dropped' = (dropped \/ sig \in Stopping) /\ UNCHANGED <<pipe, ready>>
  /\ at' = IF at = "wait" THEN "exited" ELSE at
  /\ UNCHANGED <<handled, batch, stop_server, net, asked>>

-----------------------------------------------------------------------------
(* The main loop.                                                          *)

(* Mutant of addsig: main goes one past the last of its signals.           *)
addsig_TooMany ==
  /\ at = "setup"
  /\ handled' = handled + 1
  /\ at' = IF handled' = 5 THEN "loop" ELSE "setup"
  /\ UNCHANGED <<pending, pipe, ready, batch, stop_server, net, ghosts>>

addsig ==
  /\ at = "setup"
  /\ handled' = handled + 1
  /\ at' = IF handled' = 4 THEN "loop" ELSE "setup"
  /\ UNCHANGED <<pending, pipe, ready, batch, stop_server, net, ghosts>>

Loop ==
  /\ at = "loop"
  /\ at' = IF stop_server THEN "exited" ELSE "wait"
  /\ UNCHANGED <<handled, pending, pipe, ready, batch, stop_server, net, ghosts>>

(* What has become ready is reported if it still is.                       *)
Wait ==
  /\ at = "wait" /\ ready # {}
  /\ batch' = ready \ ({r \in {"listenfd"} : backlog = 0} \cup {r \in {"pipefd"} : pipe = <<>>})
  /\ ready' = {}
  /\ at' = IF batch' = {} THEN "wait" ELSE "handle"
  /\ UNCHANGED <<handled, pending, pipe, stop_server, net, ghosts>>

Handle(event) ==
  /\ at = "handle" /\ event \in batch
  /\ batch' = batch \ {event}
  /\ at' = IF batch' = {} THEN "loop" ELSE "handle"

(* One accept; it may fail for want of descriptors, and nobody notices.    *)
AcceptConn ==
  /\ Handle("listenfd")
  /\ backlog > 0 /\ conns < MaxConns
  /\ backlog' = backlog - 1 /\ conns' = conns + 1
  /\ ready' \in {ready, ready \cup {"connfd"}}
  /\ UNCHANGED <<handled, pending, pipe, stop_server, ghosts>>

AcceptFails ==
  /\ Handle("listenfd")
  /\ UNCHANGED <<handled, pending, pipe, ready, stop_server, net, ghosts>>

(* Mutant of ReadSignals: one byte is read for one event.                  *)
ReadSignals_One ==
  /\ Handle("pipefd")
  /\ stop_server' = (stop_server \/ Head(pipe) \in Stopping)
  /\ pipe' = Tail(pipe)
  /\ UNCHANGED <<handled, pending, ready, net, ghosts>>

(* Mutant of ReadSignals: the last byte decides.                           *)
ReadSignals_Last ==
  /\ Handle("pipefd")
  /\ stop_server' = (pipe[Len(pipe)] \in Stopping)
  /\ pipe' = <<>>
  /\ UNCHANGED <<handled, pending, ready, net, ghosts>>

(* recv takes all there is, and each byte is looked at.                    *)
ReadSignals ==
  /\ Handle("pipefd")
  /\ stop_server' = (stop_server \/ \E i \in DOMAIN pipe : pipe[i] \in Stopping)
  /\ pipe' = <<>>
  /\ UNCHANGED <<handled, pending, ready, net, ghosts>>

Ignore ==
  /\ Handle("connfd")
  /\ UNCHANGED <<handled, pending, pipe, ready, stop_server, net, ghosts>>

-----------------------------------------------------------------------------
MainStep == addsig \/ Loop \/ Wait \/ AcceptConn \/ AcceptFails \/ ReadSignals \/ Ignore
SignalStep(sig) == DefaultAction(sig) \/ sig_handler(sig)

Next ==
  \/ MainStep
  \/ \E sig \in Signals : SignalStep(sig) \/ Raise(sig)
  \/ Connect \/ ClientActs

Spec == Init /\ [][Next]_vars

(* The process runs, and the kernel delivers a signal when one of its      *)
(* system calls returns, which happens again and again.                    *)
FairSpec == Spec /\ WF_vars(MainStep) /\ \A sig \in Signals : SF_vars(SignalStep(sig))

-----------------------------------------------------------------------------
(* Correctness.                                                            *)

(* Every variable has its type: the socket pair holds no more than it can. *)
TypeOK ==
  /\ at \in {"setup", "loop", "wait", "handle", "exited", "killed"}
  /\ handled \in 0 .. 4
  /\ pending \subseteq Signals
  /\ pipe \in Seq(Signals) /\ Len(pipe) <= PipeCap
  /\ ready \subseteq {"listenfd", "pipefd", "connfd"} /\ batch \subseteq {"listenfd", "pipefd", "connfd"}
  /\ stop_server \in BOOLEAN
  /\ backlog \in 0 .. MaxBacklog /\ conns \in 0 .. MaxConns
  /\ asked \in BOOLEAN /\ dropped \in BOOLEAN

(* No byte is left where no event will lead main to it: what is in the     *)
(* pair has been announced and its announcement not yet used (238-240).    *)
ByteAnnounced == Running /\ pipe # <<>> => "pipefd" \in ready \cup batch

(* A request to stop is neither lost nor made up: while the process runs,  *)
(* a SIGTERM or SIGINT that was raised is pending, a byte of the pair or   *)
(* stop_server itself, unless its byte was dropped, and nothing else ever  *)
(* is (lines 70-79, 240-269).                                              *)
Requested ==
  \/ Stopping \cap pending # {}
  \/ \E i \in DOMAIN pipe : pipe[i] \in Stopping
  \/ stop_server

RequestKept ==
  /\ Requested => asked
  /\ Running /\ asked /\ ~dropped => Requested

(* A SIGTERM or SIGINT is the end of the process, wherever it finds it,    *)
(* unless its byte found the socket pair full (lines 71-79, 192, 263).     *)
TermStops == asked ~> (~Running \/ dropped)
=============================================================================
