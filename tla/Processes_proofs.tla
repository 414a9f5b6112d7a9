-------------------------- MODULE Processes_proofs --------------------------
(***************************************************************************)
(* The two programs about processes and signals.  First the inductive      *)
(* invariant of SignalServer, and what follows from it for any size of the *)
(* socket pair and any number of connections; then that of Semaphore, from *)
(* which conservation, exclusion and the order of removal follow.          *)
(***************************************************************************)
EXTENDS SignalServer, Semaphore, TLAPS

(***************************************************************************)
(* SignalServer.                                                           *)
(***************************************************************************)

(* Events are left over only while a batch is handled (or the process is   *)
(* gone), and main installs no more handlers than it has.                  *)
Between ==
  /\ at \in {"setup", "loop", "wait"} => batch = {}
  /\ at = "setup" => handled < 4

IInv == TypeOK /\ Between /\ ByteAnnounced

Events == {"listenfd", "pipefd", "connfd"}

LEMMA Sizes == PipeCap \in Nat \ {0} /\ MaxBacklog \in Nat \ {0} /\ MaxConns \in Nat \ {0}
BY SignalAssumption

LEMMA EmptyPipe == <<>> \in Seq(Signals) /\ Len(<<>>) <= PipeCap
<1>1. Len(<<>>) = 0 /\ <<>> \in Seq(Signals)
  OBVIOUS
<1>. QED
  BY <1>1, Sizes

LEMMA InitInv == Init => IInv
<1>. SUFFICES ASSUME Init PROVE IInv
  OBVIOUS
<1>1. 0 \in 0 .. MaxBacklog /\ 0 \in 0 .. MaxConns
  BY Sizes
<1>2. TypeOK
  <2>1. pipe \in Seq(Signals) /\ Len(pipe) <= PipeCap
    <3>1. pipe = <<>>
      BY DEF Init
    <3>. QED
      BY ONLY <3>1, EmptyPipe
  <2>2. backlog \in 0 .. MaxBacklog /\ conns \in 0 .. MaxConns
    BY <1>1 DEF Init
  <2>3. at = "setup" /\ handled \in 0 .. 4 /\ pending \subseteq Signals
    BY DEF Init
  <2>4. ready = {} /\ batch = {}
    BY DEF Init
  <2>5. stop_server \in BOOLEAN /\ asked \in BOOLEAN /\ dropped \in BOOLEAN
    BY DEF Init
  <2>. QED
    BY <2>1, <2>2, <2>3, <2>4, <2>5 DEF TypeOK
<1>3. Between /\ ByteAnnounced
  BY DEF Init, Between, ByteAnnounced
<1>. QED
  BY <1>2, <1>3 DEF IInv

(* The world outside.                                                      *)
LEMMA WorldKeeps ==
  ASSUME IInv, (\E sig \in Signals : Raise(sig)) \/ Connect \/ ClientActs
  PROVE  IInv'
<1>1. ASSUME NEW sig \in Signals, Raise(sig) PROVE IInv'
  <2>1. /\ pending' = pending \cup {sig} /\ asked' \in BOOLEAN
        /\ UNCHANGED <<at, handled, pipe, ready, batch, stop_server, backlog, conns, dropped>>
    BY <1>1 DEF IInv, TypeOK, Raise, net
  <2>2. TypeOK'
    BY <2>1 DEF IInv, TypeOK
  <2>. QED
    BY <2>1, <2>2 DEF IInv, Between, ByteAnnounced, Running
<1>2. CASE Connect \/ ClientActs
  <2>1. /\ backlog' \in 0 .. MaxBacklog /\ ready \subseteq ready' /\ ready' \subseteq Events
        /\ UNCHANGED <<at, handled, pending, pipe, batch, stop_server, conns, asked, dropped>>
    <3>1. backlog \in 0 .. MaxBacklog /\ ready \subseteq Events
      BY DEF IInv, TypeOK, Events
    <3>2. CASE Connect
      BY <3>1, <3>2, Sizes DEF Connect, Events, ghosts
    <3>3. CASE ClientActs
      BY <3>1, <3>3, Sizes DEF ClientActs, Events, net, ghosts
    <3>. QED
      BY <1>2, <3>2, <3>3
  <2>2. TypeOK'
    BY <2>1 DEF IInv, TypeOK, Events
  <2>. QED
    BY <2>1, <2>2 DEF IInv, Between, ByteAnnounced, Running
<1>. QED
  BY <1>1, <1>2

(* A signal that is not handled yet, and one that is.                      *)
LEMMA SignalKeeps ==
  ASSUME IInv, NEW sig \in Signals, SignalStep(sig)
  PROVE  IInv'
<1>1. CASE DefaultAction(sig)
  <2>1. /\ pending' = pending \ {sig} /\ at' \in {at, "killed"}
        /\ UNCHANGED <<handled, pipe, ready, batch, stop_server, backlog, conns, asked, dropped>>
        /\ Running
    BY <1>1 DEF DefaultAction, net, ghosts
  <2>2. TypeOK'
    BY <2>1 DEF IInv, TypeOK
  <2>. QED
    BY <2>1, <2>2 DEF IInv, Between, ByteAnnounced, Running
<1>2. CASE sig_handler(sig)
  <2>1. /\ pending' = pending \ {sig} /\ at' \in {at, "exited"} /\ Running
        /\ UNCHANGED <<handled, batch, stop_server, backlog, conns, asked>>
    BY <1>2 DEF sig_handler, net
  <2>2. CASE Len(pipe) < PipeCap
    <3>1. pipe' = Append(pipe, sig) /\ ready' = ready \cup {"pipefd"} /\ dropped' = dropped
      BY <1>2, <2>2 DEF sig_handler
    <3>2. pipe' \in Seq(Signals) /\ Len(pipe') <= PipeCap
      BY <2>2, <3>1, Sizes DEF IInv, TypeOK
    <3>3. TypeOK'
      BY <2>1, <3>1, <3>2 DEF IInv, TypeOK
    <3>. QED
      BY <2>1, <3>1, <3>3 DEF IInv, Between, ByteAnnounced
  <2>3. CASE ~(Len(pipe) < PipeCap)
    <3>1. dropped' \in BOOLEAN /\ UNCHANGED <<pipe, ready>>
      BY <1>2, <2>3 DEF IInv, TypeOK, sig_handler
    <3>2. TypeOK'
      BY <2>1, <3>1 DEF IInv, TypeOK
    <3>. QED
      BY <2>1, <3>1, <3>2 DEF IInv, Between, ByteAnnounced
  <2>. QED
    BY <2>2, <2>3
<1>. QED
  BY <1>1, <1>2 DEF SignalStep

(* main up to the loop over a batch.                                       *)
LEMMA LoopKeeps ==
  ASSUME IInv, addsig \/ Loop \/ Wait
  PROVE  IInv'
<1>1. CASE addsig
  <2>1. /\ handled' \in 0 .. 4 /\ at' \in {"setup", "loop"} /\ (at' = "setup" => handled' < 4)
        /\ batch = {} /\ at = "setup"
        /\ UNCHANGED <<pending, pipe, ready, batch, stop_server, backlog, conns, asked, dropped>>
    BY <1>1 DEF IInv, TypeOK, Between, addsig, net, ghosts
  <2>2. TypeOK'
    BY <2>1 DEF IInv, TypeOK
  <2>. QED
    BY <2>1, <2>2 DEF IInv, Between, ByteAnnounced, Running
<1>2. CASE Loop
  <2>1. /\ at = "loop" /\ at' \in {"exited", "wait"} /\ batch = {}
        /\ UNCHANGED <<handled, pending, pipe, ready, batch, stop_server, backlog, conns, asked, dropped>>
    BY <1>2 DEF IInv, Between, Loop, net, ghosts
  <2>2. TypeOK'
    BY <2>1 DEF IInv, TypeOK
  <2>. QED
    BY <2>1, <2>2 DEF IInv, Between, ByteAnnounced, Running
<1>3. CASE Wait
  <2>1. /\ at = "wait" /\ batch = {} /\ ready' = {}
        /\ batch' \subseteq ready /\ ("pipefd" \in ready /\ pipe # <<>> => "pipefd" \in batch')
        /\ at' = IF batch' = {} THEN "wait" ELSE "handle"
        /\ UNCHANGED <<handled, pending, pipe, stop_server, backlog, conns, asked, dropped>>
    BY <1>3 DEF IInv, Between, Wait, net, ghosts
  <2>2. TypeOK'
    BY <2>1 DEF IInv, TypeOK
  <2>. QED
    BY <2>1, <2>2 DEF IInv, Between, ByteAnnounced, Running
<1>. QED
  BY <1>1, <1>2, <1>3

(* An event of a batch.                                                    *)
LEMMA HandleKeeps ==
  ASSUME IInv, AcceptConn \/ AcceptFails \/ ReadSignals \/ Ignore
  PROVE  IInv'
<1>1. PICK event \in Events : Handle(event) /\ (event = "pipefd" => pipe' = <<>>)
  BY DEF AcceptConn, AcceptFails, ReadSignals, Ignore, Events
<1>2. /\ at = "handle" /\ batch' = batch \ {event}
      /\ at' = IF batch' = {} THEN "loop" ELSE "handle"
  BY <1>1 DEF Handle
<1>3. /\ pipe' = pipe \/ pipe' = <<>>
      /\ ready \subseteq ready' /\ ready' \subseteq Events
      /\ UNCHANGED <<handled, pending, asked, dropped>>
  BY DEF IInv, TypeOK, Events, AcceptConn, AcceptFails, ReadSignals, Ignore, net, ghosts
<1>4. backlog' \in 0 .. MaxBacklog /\ conns' \in 0 .. MaxConns
  BY Sizes DEF IInv, TypeOK, AcceptConn, AcceptFails, ReadSignals, Ignore, net
<1>5. stop_server' \in BOOLEAN
  BY DEF IInv, TypeOK, AcceptConn, AcceptFails, ReadSignals, Ignore
<1>6. pipe' \in Seq(Signals) /\ Len(pipe') <= PipeCap
  <2>1. pipe \in Seq(Signals) /\ Len(pipe) <= PipeCap
    BY DEF IInv, TypeOK
  <2>. QED
    BY <1>3, <2>1, EmptyPipe
<1>7. TypeOK'
  BY <1>2, <1>3, <1>4, <1>5, <1>6 DEF IInv, TypeOK, Events
<1>8. Between'
  BY <1>2 DEF Between
<1>9. ByteAnnounced'
  BY <1>1, <1>2, <1>3 DEF IInv, ByteAnnounced, Running
<1>. QED
  BY <1>7, <1>8, <1>9 DEF IInv

(* The types and the announcement hold together in every reachable state.  *)
THEOREM Invariance == Spec => []IInv
<1>1. IInv /\ [Next]_vars => IInv'
  <2>. SUFFICES ASSUME IInv, [Next]_vars PROVE IInv'
    OBVIOUS
  <2>1. CASE UNCHANGED vars
    BY <2>1 DEF IInv, TypeOK, Between, ByteAnnounced, Running, vars
  <2>2. CASE Next
    BY <2>2, WorldKeeps, SignalKeeps, LoopKeeps, HandleKeeps DEF Next, MainStep
  <2>. QED
    BY <2>1, <2>2
<1>. QED
  BY InitInv, <1>1, PTL DEF Spec

(* Every variable keeps its type: the socket pair is never overfilled, and *)
(* no handler is installed twice.                                          *)
THEOREM Typing == Spec => []TypeOK
<1>1. IInv => TypeOK
  BY DEF IInv
<1>. QED
  BY Invariance, <1>1, PTL

(* No byte of a signal waits in the socket pair without an event for it,   *)
(* wherever the signal finds main (ByteAnnounced; lines 238-240).          *)
THEOREM Announcement == Spec => []ByteAnnounced
<1>1. IInv => ByteAnnounced
  BY DEF IInv
<1>. QED
  BY Invariance, <1>1, PTL

(* What is asked of the process stays with it: a signal moves from pending *)
(* to the pair and from there to stop_server.                              *)
LEMMA RequestMoves ==
  ASSUME TypeOK, RequestKept, [Next]_vars
  PROVE  RequestKept'
<1>1. CASE UNCHANGED vars
  BY <1>1 DEF RequestKept, Requested, Running, vars
<1>2. ASSUME NEW sig \in Signals, Raise(sig) PROVE RequestKept'
  BY <1>2 DEF RequestKept, Requested, Running, Raise
<1>3. CASE Connect \/ ClientActs
  BY <1>3 DEF RequestKept, Requested, Running, Connect, ClientActs, ghosts
<1>4. ASSUME NEW sig \in Signals, DefaultAction(sig) PROVE RequestKept'
  <2>1. /\ pending' = pending \ {sig} /\ UNCHANGED <<pipe, stop_server, asked, dropped>>
        /\ Running /\ (Running' => sig = "SIGCHLD")
    BY <1>4 DEF DefaultAction, ghosts, Running
  <2>. QED
    BY <2>1 DEF RequestKept, Requested, Stopping
<1>5. ASSUME NEW sig \in Signals, sig_handler(sig) PROVE RequestKept'
  <2>1. /\ pending' = pending \ {sig} /\ sig \in pending /\ UNCHANGED <<stop_server, asked>>
        /\ Running
    BY <1>5 DEF sig_handler
  <2>2. CASE Len(pipe) < PipeCap
    <3>1. pipe' = Append(pipe, sig) /\ dropped' = dropped
      BY <1>5, <2>2 DEF sig_handler
    <3>2. pipe \in Seq(Signals)
      BY DEF TypeOK
    <3>3. (\E i \in DOMAIN pipe' : pipe'[i] \in Stopping)
            <=> (\E i \in DOMAIN pipe : pipe[i] \in Stopping) \/ sig \in Stopping
      BY <3>1, <3>2
    <3>. QED
      BY <2>1, <3>1, <3>3 DEF RequestKept, Requested
  <2>3. CASE ~(Len(pipe) < PipeCap)
    <3>1. dropped' = (dropped \/ sig \in Stopping) /\ pipe' = pipe
      BY <1>5, <2>3 DEF sig_handler
    <3>. QED
      BY <2>1, <3>1 DEF RequestKept, Requested
  <2>. QED
    BY <2>2, <2>3
<1>6. CASE ReadSignals
  <2>1. /\ stop_server' = (stop_server \/ \E i \in DOMAIN pipe : pipe[i] \in Stopping)
        /\ pipe' = <<>> /\ UNCHANGED <<pending, asked, dropped>> /\ Running
    BY <1>6 DEF ReadSignals, Handle, Running, ghosts
  <2>2. DOMAIN pipe' = {}
    BY <2>1
  <2>. QED
    BY <2>1, <2>2 DEF RequestKept, Requested
<1>7. CASE addsig \/ Loop \/ Wait \/ AcceptConn \/ AcceptFails \/ Ignore
  <2>1. UNCHANGED <<pending, pipe, stop_server, asked, dropped>> /\ Running
    BY <1>7 DEF addsig, Loop, Wait, AcceptConn, AcceptFails, Ignore, Handle, Running, ghosts
  <2>. QED
    BY <2>1 DEF RequestKept, Requested
<1>. QED
  BY <1>1, <1>2, <1>3, <1>4, <1>5, <1>6, <1>7 DEF Next, MainStep, SignalStep

(* A SIGTERM or SIGINT is not lost on its way from the handler to          *)
(* stop_server, except where the pair was full, and nothing else stops the *)
(* server (RequestKept; lines 70-79, 240-269).                             *)
THEOREM NoRequestLost == Spec => []RequestKept
<1>1. Init => RequestKept
  BY DEF Init, RequestKept, Requested
<1>. QED
  BY <1>1, Typing, RequestMoves, PTL DEF Spec

(***************************************************************************)
(* Semaphore.                                                              *)
(***************************************************************************)

(* What the kernel owes a process that ends: it takes back a P that was    *)
(* not followed by its V, and a V that no P preceded.                      *)
Owed(p) ==
  IF place[p] = "critical" /\ p \notin failed THEN 1
  ELSE IF place[p] \in {"exit", "waitpid", "remove"} /\ p \in failed THEN -1 ELSE 0

BeforeFork == {"semget", "setval", "fork"}
Spots == {"unborn", "semget", "setval", "fork", "p", "blocked", "critical", "waitpid", "exit",
          "remove"} \cup Dead
BeforeP == BeforeFork \cup {"unborn", "p", "blocked"}

(* Where each process may be when, and that a P has failed only of one     *)
(* that has passed it.                                                     *)
Places ==
  /\ place["parent"] \in BeforeFork \cup {"p", "blocked", "critical", "waitpid", "remove"} \cup Dead
  /\ place["child"] \in {"unborn", "p", "blocked", "critical", "exit"} \cup Dead
  /\ place["child"] = "unborn" => place["parent"] \in BeforeFork \cup Dead
  /\ place["parent"] \in BeforeFork => place["child"] = "unborn"
  /\ place["parent"] = "semget" => sem = "none"
  /\ place["parent"] = "remove" => place["child"] \in Dead
  /\ sem = "removed" => place["parent"] = "done" /\ place["child"] \in Dead
  /\ \A p \in Procs : p \in failed => place[p] \notin BeforeP

(* The undo values are what is owed, and without a set there is nothing.   *)
Undo ==
  /\ sem = "up" => \A p \in Procs : semadj[p] = Owed(p)
  /\ sem # "up" => semval = 0 /\ \A p \in Procs : semadj[p] = 0
  /\ sem = "up" /\ place["child"] = "unborn" => semval \in 0 .. 1
  /\ sem = "up" /\ place["parent"] = "fork" => semval = 1

(* Who waits, waits for one who was let in; and who was not let in has     *)
(* waited for such a one, so that of two Ps at most one fails.             *)
Turns ==
  /\ sem # "up" =>
       \A p \in Procs : place[p] # "blocked" /\ (place[p] = "critical" => p \in failed)
  /\ sem = "up" => \A p, q \in Procs : p # q =>
       /\ place[p] = "blocked" => place[q] = "critical" /\ q \notin failed
       /\ p \in failed => place[q] \notin {"p", "blocked"} /\ q \notin failed

SemIInv == SemTypeOK /\ Places /\ Undo /\ Conserved /\ Turns

LEMMA SemInitInv == SemInit => SemIInv
<1>. SUFFICES ASSUME SemInit PROVE SemIInv
  OBVIOUS
<1>. USE DEF SemInit, Procs, Dead, BeforeFork, BeforeP
<1>1. SemTypeOK
  BY DEF SemTypeOK
<1>2. Places
  BY DEF Places
<1>3. Undo /\ Conserved /\ Turns
  BY DEF Undo, Conserved, Turns
<1>. QED
  BY <1>1, <1>2, <1>3 DEF SemIInv

(* The end of a process gives back what it owed, which lets in who waits.   *)
LEMMA EndKeeps ==
  ASSUME SemIInv, NEW p \in Procs, NEW how \in Dead, place[p] \notin Dead \cup {"unborn"},
         End(p, how), stopped' \in [Procs -> BOOLEAN], UNCHANGED <<sem, failed>>
  PROVE  SemIInv'
<1>1. PICK q \in Procs : q # p /\ Procs = {p, q}
  BY DEF Procs
<1>2. (p = "parent" /\ q = "child") \/ (p = "child" /\ q = "parent")
  BY <1>1 DEF Procs
<1>3. sem # "removed"
  BY DEF SemIInv, Places, Procs, Dead
<1>. DEFINE undone == IF semval + semadj[p] > 0 THEN semval + semadj[p] ELSE 0
<1>4. semval \in 0 .. 2 /\ semadj[p] \in -1 .. 1 /\ semadj[q] \in -1 .. 1 /\ undone \in Nat
  BY <1>1 DEF SemIInv, SemTypeOK
<1>5. sem = "up" /\ place["child"] # "unborn" => undone = 1 - semadj[q] /\ undone \in 0 .. 2
  BY <1>1, <1>4 DEF SemIInv, Conserved, Undo, Turns, Owed, Procs
<1>6. sem # "up" => undone = 0
  BY <1>1 DEF SemIInv, Undo
<1>7. sem = "up" /\ place["child"] = "unborn" => undone \in 0 .. 1
  BY <1>1, <1>2, <1>4 DEF SemIInv, Undo, Owed, Places, BeforeFork, Dead
<1>8. Settle(undone, [semadj EXCEPT ![p] = 0], [place EXCEPT ![p] = how])
  BY DEF End
<1>9. place \in [Procs -> Spots] /\ semadj \in [Procs -> -1 .. 1]
  BY DEF SemIInv, SemTypeOK, Spots
<1>10. CASE place[q] = "blocked"
  <2>1. sem = "up" /\ place[p] = "critical" /\ p \notin failed
    BY <1>1, <1>10 DEF SemIInv, Turns
  <2>2. q \notin failed /\ semadj[q] = 0 /\ place["child"] # "unborn"
    BY <1>1, <1>2, <1>10, <2>1 DEF SemIInv, Undo, Owed, Places, BeforeP
  <2>3. undone = 1
    BY <1>5, <2>1, <2>2
  <2>4. /\ semval' = 0
        /\ semadj' = [[semadj EXCEPT ![p] = 0] EXCEPT ![q] = @ + 1]
        /\ place' = [[place EXCEPT ![p] = how] EXCEPT ![q] = "critical"]
    BY <1>1, <1>8, <1>9, <1>10, <2>2, <2>3 DEF Settle, Dead
  <2>5. /\ semval' = 0 /\ semadj'[p] = 0 /\ semadj'[q] = 1
        /\ place'[p] = how /\ place'[q] = "critical"
    BY <1>1, <1>9, <2>2, <2>4
  <2>6. SemTypeOK'
    BY <1>1, <1>9, <2>1, <2>2, <2>4, <2>5 DEF SemIInv, SemTypeOK, Dead
  <2>7. Places'
    BY <1>1, <1>2, <1>10, <2>1, <2>2, <2>5 DEF SemIInv, Places, Dead, BeforeP, BeforeFork
  <2>8. Undo' /\ Conserved'
    BY <1>1, <1>2, <1>10, <2>1, <2>2, <2>5
    DEF SemIInv, Undo, Conserved, Owed, Procs, Dead, Places, BeforeFork
  <2>9. Turns'
    BY <1>1, <1>2, <1>10, <2>1, <2>2, <2>5 DEF SemIInv, Turns, Procs, Dead
  <2>. QED
    BY <2>6, <2>7, <2>8, <2>9 DEF SemIInv
<1>11. CASE place[q] # "blocked"
  <2>1. /\ semval' = undone
        /\ semadj' = [semadj EXCEPT ![p] = 0]
        /\ place' = [place EXCEPT ![p] = how]
    BY <1>1, <1>8, <1>9, <1>11 DEF Settle, Dead
  <2>2. /\ semval' = undone /\ semadj'[p] = 0 /\ semadj'[q] = semadj[q]
        /\ place'[p] = how /\ place'[q] = place[q]
    BY <1>1, <1>9, <2>1
  <2>3. undone \in 0 .. 2
    BY <1>5, <1>6, <1>7
  <2>4. SemTypeOK'
    BY <1>1, <1>9, <2>1, <2>2, <2>3 DEF SemIInv, SemTypeOK, Dead
  <2>5. Places'
    BY <1>1, <1>2, <1>3, <1>11, <2>2 DEF SemIInv, Places, Procs, Dead, BeforeP, BeforeFork
  <2>6. Undo' /\ Conserved'
    BY <1>1, <1>2, <1>3, <1>5, <1>6, <1>7, <1>11, <2>2
    DEF SemIInv, Undo, Conserved, Owed, Procs, Dead, Places, BeforeFork, BeforeP
  <2>7. Turns'
    BY <1>1, <1>2, <1>3, <1>11, <2>2 DEF SemIInv, Turns, Procs, Dead
  <2>. QED
    BY <2>4, <2>5, <2>6, <2>7 DEF SemIInv
<1>. QED
  BY <1>10, <1>11

(* P: a process that finds the semaphore taken finds it taken by one who   *)
(* was let in.                                                             *)
LEMMA PKeeps ==
  ASSUME SemIInv, NEW p \in Procs, P(p)
  PROVE  SemIInv'
<1>1. PICK q \in Procs : q # p /\ Procs = {p, q}
  BY DEF Procs
<1>2. (p = "parent" /\ q = "child") \/ (p = "child" /\ q = "parent")
  BY <1>1 DEF Procs
<1>3. place \in [Procs -> Spots] /\ semadj \in [Procs -> -1 .. 1] /\ semval \in 0 .. 2
  BY DEF SemIInv, SemTypeOK, Spots
<1>4. place[p] = "p" /\ sem' = sem /\ stopped' = stopped
  BY DEF P, At
<1>5. p \notin failed /\ place["child"] # "unborn" /\ place[q] # "blocked" /\ sem # "removed"
  BY <1>1, <1>2, <1>4 DEF SemIInv, Places, Turns, BeforeP, BeforeFork, Dead
<1>6. CASE sem = "up"
  <2>1. failed' = failed /\ Settle(semval, semadj, [place EXCEPT ![p] = "blocked"])
    BY <1>6 DEF P
  <2>2. semadj[p] = 0 /\ semval = 1 - semadj[q]
    BY <1>1, <1>2, <1>3, <1>4, <1>5, <1>6 DEF SemIInv, Undo, Owed, Conserved
  <2>3. CASE semval > 0
    <3>1. /\ semval' = semval - 1
          /\ semadj' = [semadj EXCEPT ![p] = @ + 1]
          /\ place' = [[place EXCEPT ![p] = "blocked"] EXCEPT ![p] = "critical"]
      BY <1>1, <1>3, <1>5, <2>1, <2>3 DEF Settle
    <3>2. /\ semadj'[p] = 1 /\ semadj'[q] = semadj[q]
          /\ place'[p] = "critical" /\ place'[q] = place[q]
      BY <1>1, <1>3, <2>2, <3>1
    <3>3. SemTypeOK'
      BY <1>1, <1>3, <1>4, <2>1, <2>3, <3>1, <3>2 DEF SemIInv, SemTypeOK
    <3>4. Places'
      BY <1>1, <1>2, <1>4, <1>5, <2>1, <3>2 DEF SemIInv, Places, BeforeP, BeforeFork, Dead
    <3>5. Undo' /\ Conserved'
      BY <1>1, <1>2, <1>3, <1>4, <1>5, <1>6, <2>1, <2>2, <3>1, <3>2
         DEF SemIInv, Undo, Conserved, Owed
    <3>6. Turns'
      BY <1>1, <1>4, <1>5, <1>6, <2>1, <3>2 DEF SemIInv, Turns
    <3>. QED
      BY <3>3, <3>4, <3>5, <3>6 DEF SemIInv
  <2>4. CASE semval = 0
    <3>1. semval' = semval /\ semadj' = semadj /\ place' = [place EXCEPT ![p] = "blocked"]
      BY <2>1, <2>4 DEF Settle
    <3>2. place'[p] = "blocked" /\ place'[q] = place[q]
      BY <1>1, <1>3, <3>1
    <3>3. place[q] = "critical" /\ q \notin failed
      <4>1. semadj[q] = 1
        BY <1>1, <1>3, <2>2, <2>4
      <4>. QED
        BY <4>1, <1>1, <1>6 DEF SemIInv, Undo, Owed
    <3>4. SemTypeOK'
      BY <1>1, <1>3, <1>4, <2>1, <3>1, <3>2 DEF SemIInv, SemTypeOK
    <3>5. Places'
      BY <1>1, <1>2, <1>4, <1>5, <2>1, <3>2 DEF SemIInv, Places, BeforeP, BeforeFork, Dead
    <3>6. Undo' /\ Conserved'
      BY <1>1, <1>2, <1>4, <1>5, <1>6, <2>1, <3>1, <3>2 DEF SemIInv, Undo, Conserved, Owed
    <3>7. Turns'
      BY <1>1, <1>4, <1>5, <1>6, <2>1, <3>2, <3>3 DEF SemIInv, Turns
    <3>. QED
      BY <3>4, <3>5, <3>6, <3>7 DEF SemIInv
  <2>. QED
    BY <1>3, <2>3, <2>4
<1>7. CASE sem # "up"
  <2>1. /\ failed' = failed \cup {p} /\ semval' = semval /\ semadj' = semadj
        /\ place' = [place EXCEPT ![p] = "critical"]
    BY <1>7 DEF P, Goto
  <2>2. place'[p] = "critical" /\ place'[q] = place[q]
    BY <1>1, <1>3, <2>1
  <2>3. SemTypeOK'
    BY <1>1, <1>3, <1>4, <2>1, <2>2 DEF SemIInv, SemTypeOK
  <2>4. Places'
    BY <1>1, <1>2, <1>4, <1>5, <2>1, <2>2 DEF SemIInv, Places, BeforeP, BeforeFork, Dead
  <2>5. Undo' /\ Conserved' /\ Turns'
    BY <1>1, <1>4, <1>7, <2>1, <2>2 DEF SemIInv, Undo, Conserved, Turns
  <2>. QED
    BY <2>3, <2>4, <2>5 DEF SemIInv
<1>. QED
  BY <1>6, <1>7

(* V: it adds what the process owed, and lets in who waits.                *)
LEMMA VKeeps ==
  ASSUME SemIInv, NEW p \in Procs, V(p)
  PROVE  SemIInv'
<1>1. PICK q \in Procs : q # p /\ Procs = {p, q}
  BY DEF Procs
<1>2. (p = "parent" /\ q = "child") \/ (p = "child" /\ q = "parent")
  BY <1>1 DEF Procs
<1>3. place \in [Procs -> Spots] /\ semadj \in [Procs -> -1 .. 1] /\ semval \in 0 .. 2
  BY DEF SemIInv, SemTypeOK, Spots
<1>4. place[p] = "critical" /\ sem' = sem /\ stopped' = stopped /\ failed' = failed
  BY DEF V, At
<1>5. place["child"] # "unborn" /\ sem # "removed"
  BY <1>1, <1>2, <1>4 DEF SemIInv, Places, BeforeFork, Dead
<1>6. AfterV(p) = IF p = "parent" THEN "waitpid" ELSE "exit"
  BY DEF AfterV
<1>7. CASE sem = "up" /\ place[q] = "blocked"
  <2>1. Settle(semval + 1, [semadj EXCEPT ![p] = @ - 1], [place EXCEPT ![p] = AfterV(p)])
    BY <1>7 DEF V
  <2>2. p \notin failed /\ q \notin failed
    BY <1>1, <1>2, <1>7 DEF SemIInv, Turns, Places, BeforeP
  <2>3. semadj[p] = 1 /\ semadj[q] = 0
    BY <1>1, <1>4, <1>7, <2>2 DEF SemIInv, Undo, Owed
  <2>4. semval = 0
    BY <1>2, <1>3, <1>5, <1>7, <2>3 DEF SemIInv, Conserved
  <2>5. /\ semval' = 0
        /\ semadj' = [[semadj EXCEPT ![p] = @ - 1] EXCEPT ![q] = @ + 1]
        /\ place' = [[place EXCEPT ![p] = AfterV(p)] EXCEPT ![q] = "critical"]
    BY <1>1, <1>3, <1>6, <1>7, <2>1, <2>4 DEF Settle
  <2>6. /\ semval' = 0 /\ semadj'[p] = 0 /\ semadj'[q] = 1
        /\ place'[p] = AfterV(p) /\ place'[q] = "critical"
    BY <1>1, <1>3, <2>3, <2>5
  <2>7. SemTypeOK'
    <3>1. semadj' \in [Procs -> -1 .. 1]
      BY <1>1, <1>3, <2>5, <2>6
    <3>2. place' \in [Procs -> Spots]
      BY <1>1, <1>3, <1>6, <2>5 DEF Spots
    <3>. QED
      BY <1>4, <2>5, <3>1, <3>2 DEF SemIInv, SemTypeOK, Spots
  <2>8. Places'
    BY <1>1, <1>2, <1>4, <1>6, <1>7, <2>2, <2>6 DEF SemIInv, Places, BeforeP, BeforeFork, Dead
  <2>9. Undo' /\ Conserved'
    <3>1. Owed(p)' = 0 /\ Owed(q)' = 1
      BY <1>4, <1>6, <2>2, <2>6 DEF Owed
    <3>2. Undo'
      BY <1>1, <1>2, <1>4, <1>6, <1>7, <2>6, <3>1 DEF Undo
    <3>3. Conserved'
      BY <1>2, <2>6 DEF Conserved
    <3>. QED
      BY <3>2, <3>3
  <2>10. Turns'
    BY <1>1, <1>4, <1>6, <1>7, <2>2, <2>6 DEF SemIInv, Turns
  <2>. QED
    BY <2>7, <2>8, <2>9, <2>10 DEF SemIInv
<1>8. CASE sem = "up" /\ place[q] # "blocked"
  <2>1. Settle(semval + 1, [semadj EXCEPT ![p] = @ - 1], [place EXCEPT ![p] = AfterV(p)])
    BY <1>8 DEF V
  <2>2. /\ semval' = semval + 1
        /\ semadj' = [semadj EXCEPT ![p] = @ - 1]
        /\ place' = [place EXCEPT ![p] = AfterV(p)]
    BY <1>1, <1>3, <1>6, <1>8, <2>1 DEF Settle
  <2>3. /\ semadj'[p] = semadj[p] - 1 /\ semadj'[q] = semadj[q]
        /\ place'[p] = AfterV(p) /\ place'[q] = place[q]
    BY <1>1, <1>3, <2>2
  <2>4. semadj[p] = IF p \in failed THEN 0 ELSE 1
    BY <1>4, <1>8 DEF SemIInv, Undo, Owed
  <2>5. semadj[q] = -1 => q \in failed
    BY <1>8 DEF SemIInv, Undo, Owed
  <2>6. semval + semadj[p] + semadj[q] = 1
    BY <1>2, <1>3, <1>5, <1>8 DEF SemIInv, Conserved
  <2>7. semval <= 1
    <3>1. CASE p \in failed
      <4>1. q \notin failed
        BY <1>1, <1>8, <3>1 DEF SemIInv, Turns
      <4>. QED
        BY <1>1, <1>3, <2>4, <2>5, <2>6, <3>1, <4>1
    <3>2. CASE p \notin failed
      BY <1>1, <1>3, <2>4, <2>6, <3>2
    <3>. QED
      BY <3>1, <3>2
  <2>8. SemTypeOK'
    <3>1. semadj'[p] \in -1 .. 1
      BY <2>3, <2>4
    <3>2. semadj' \in [Procs -> -1 .. 1]
      BY <1>1, <1>3, <2>2, <2>3, <3>1
    <3>3. place' \in [Procs -> Spots]
      BY <1>1, <1>3, <1>6, <2>2 DEF Spots
    <3>4. semval' \in 0 .. 2
      BY <1>3, <2>2, <2>7
    <3>. QED
      BY <1>4, <3>2, <3>3, <3>4 DEF SemIInv, SemTypeOK, Spots
  <2>9. Places'
    BY <1>1, <1>2, <1>4, <1>6, <1>8, <2>3 DEF SemIInv, Places, BeforeP, BeforeFork, Dead
  <2>10. Undo'
    <3>1. semadj'[p] = Owed(p)'
      BY <1>2, <1>4, <1>6, <2>3, <2>4 DEF Owed
    <3>2. semadj'[q] = Owed(q)'
      BY <1>4, <1>8, <2>3 DEF SemIInv, Undo, Owed
    <3>. QED
      BY <1>1, <1>2, <1>4, <1>5, <1>6, <1>8, <2>3, <3>1, <3>2 DEF SemIInv, Places, Undo, BeforeFork
  <2>11. Conserved'
    BY <1>2, <1>3, <2>2, <2>3, <2>6 DEF Conserved
  <2>12. Turns'
    BY <1>1, <1>4, <1>6, <1>8, <2>3 DEF SemIInv, Turns
  <2>. QED
    BY <2>8, <2>9, <2>10, <2>11, <2>12 DEF SemIInv
<1>9. CASE sem # "up"
  <2>1. semval' = semval /\ semadj' = semadj /\ place' = [place EXCEPT ![p] = AfterV(p)]
    BY <1>9 DEF V, Goto
  <2>2. place'[p] = AfterV(p) /\ place'[q] = place[q]
    BY <1>1, <1>3, <2>1
  <2>3. SemTypeOK'
    BY <1>1, <1>3, <1>4, <1>6, <2>1 DEF SemIInv, SemTypeOK
  <2>4. Places'
    BY <1>1, <1>2, <1>4, <1>5, <1>6, <2>2 DEF SemIInv, Places, BeforeP, BeforeFork, Dead
  <2>5. Undo' /\ Conserved' /\ Turns'
    BY <1>1, <1>4, <1>6, <1>9, <2>1, <2>2 DEF SemIInv, Undo, Conserved, Turns
  <2>. QED
    BY <2>3, <2>4, <2>5 DEF SemIInv
<1>. QED
  BY <1>7, <1>8, <1>9

(* The rest of main, and signals that do not kill.                         *)
LEMMA MainKeeps ==
  ASSUME SemIInv, Semget \/ Setval \/ Fork \/ Waitpid \/ Remove
  PROVE  SemIInv'
<1>. USE DEF Procs
<1>1. /\ place \in [Procs -> Spots] /\ semadj \in [Procs -> -1 .. 1] /\ semval \in 0 .. 2
      /\ sem \in {"none", "up", "removed"}
  BY DEF SemIInv, SemTypeOK, Spots
<1>2. CASE Semget \/ Setval
  <2>1. /\ place["child"] = "unborn" /\ sem # "removed" /\ sem' \in {"up", "none"}
        /\ (Setval => sem' = sem) /\ (Semget => sem = "none") /\ place'["child"] = place["child"]
        /\ semadj' = semadj /\ stopped' = stopped /\ failed' = failed
        /\ place["parent"] \in {"semget", "setval"}
    BY <1>1, <1>2 DEF SemIInv, Places, Semget, Setval, At, Goto, BeforeFork, Dead
  <2>2. place' \in [Procs -> Spots] /\ place'["parent"] \in {"setval", "fork"}
        /\ (place'["parent"] = "fork" => Setval)
    BY <1>1, <1>2 DEF Semget, Setval, Goto, Spots
  <2>3. failed = {} /\ semadj["parent"] = 0 /\ semadj["child"] = 0
    BY <1>1, <2>1 DEF SemIInv, SemTypeOK, Places, Undo, Owed, BeforeP, BeforeFork
  <2>4. /\ semval' \in 0 .. 1 /\ (sem' # "up" => semval' = 0)
        /\ (Setval /\ sem' = "up" => semval' = 1)
    BY <1>2, <2>1 DEF SemIInv, Undo, Semget, Setval
  <2>5. SemTypeOK'
    BY <2>1, <2>2, <2>4 DEF SemIInv, SemTypeOK, Spots
  <2>6. Places' /\ Conserved'
    BY <2>1, <2>2, <2>3 DEF Places, Conserved, BeforeFork, BeforeP
  <2>7. Undo' /\ Turns'
    BY <2>1, <2>2, <2>3, <2>4 DEF Undo, Turns, Owed
  <2>. QED
    BY <2>5, <2>6, <2>7 DEF SemIInv
<1>3. CASE Fork
  <2>1. /\ place["parent"] = "fork" /\ place["child"] = "unborn" /\ sem # "removed"
        /\ UNCHANGED <<sem, semval, semadj, stopped, failed>>
    BY <1>3 DEF SemIInv, Places, Fork, At, BeforeFork, Dead
  <2>2. place' = [p \in Procs |-> "p"]
    BY <1>3 DEF Fork
  <2>3. failed = {} /\ semadj["parent"] = 0 /\ semadj["child"] = 0
    BY <1>1, <2>1 DEF SemIInv, SemTypeOK, Places, Undo, Owed, BeforeP, BeforeFork
  <2>4. sem = "up" => semval = 1
    BY <2>1 DEF SemIInv, Undo
  <2>5. SemTypeOK'
    BY <2>1, <2>2 DEF SemIInv, SemTypeOK
  <2>6. Places'
    BY <2>1, <2>2, <2>3 DEF Places, BeforeP, BeforeFork, Dead
  <2>7. Undo' /\ Conserved' /\ Turns'
    BY <2>1, <2>2, <2>3, <2>4 DEF SemIInv, Undo, Conserved, Turns, Owed
  <2>. QED
    BY <2>5, <2>6, <2>7 DEF SemIInv
<1>4. CASE Waitpid
  <2>1. /\ place["parent"] = "waitpid" /\ place["child"] \in Dead
        /\ UNCHANGED <<sem, semval, semadj, stopped, failed>>
        /\ place' = [place EXCEPT !["parent"] = "remove"]
    BY <1>4 DEF Waitpid, At, Goto
  <2>2. place'["parent"] = "remove" /\ place'["child"] = place["child"]
    BY <1>1, <2>1
  <2>3. SemTypeOK'
    BY <1>1, <2>1 DEF SemIInv, SemTypeOK
  <2>4. Places'
    BY <2>1, <2>2 DEF SemIInv, Places, BeforeP, BeforeFork, Dead
  <2>5. Undo' /\ Conserved' /\ Turns'
    BY <2>1, <2>2 DEF SemIInv, Undo, Conserved, Turns, Owed, Dead
  <2>. QED
    BY <2>3, <2>4, <2>5 DEF SemIInv
<1>5. CASE Remove
  <2>1. /\ place["parent"] = "remove" /\ place["child"] \in Dead
        /\ place' = [place EXCEPT !["parent"] = "done"] /\ semval' = 0
        /\ semadj' = [semadj EXCEPT !["parent"] = 0]
        /\ stopped' = stopped /\ failed' = failed
    BY <1>5 DEF SemIInv, Places, Remove, At, Goto
  <2>2. sem' \in {"none", "removed"} /\ (sem' = "none" => sem = "none")
    BY <1>1, <1>5 DEF Remove
  <2>3. place'["parent"] = "done" /\ place'["child"] = place["child"]
    BY <1>1, <2>1
  <2>4. semadj'["parent"] = 0 /\ semadj'["child"] = 0
    BY <1>1, <2>1 DEF SemIInv, Undo, Owed, Dead
  <2>5. SemTypeOK'
    BY <1>1, <2>1, <2>2 DEF SemIInv, SemTypeOK, Dead
  <2>6. Places'
    BY <2>1, <2>2, <2>3 DEF SemIInv, Places, BeforeP, BeforeFork, Dead
  <2>7. Undo' /\ Conserved' /\ Turns'
    BY <2>1, <2>2, <2>3, <2>4 DEF Undo, Conserved, Turns, Dead
  <2>. QED
    BY <2>5, <2>6, <2>7 DEF SemIInv
<1>. QED
  BY <1>2, <1>3, <1>4, <1>5

(* A stop that ends a wait is one P that fails, and no other has.          *)
LEMMA StopKeeps ==
  ASSUME SemIInv, NEW p \in Procs, Stop(p) \/ Continue(p)
  PROVE  SemIInv'
<1>1. PICK q \in Procs : q # p /\ Procs = {p, q}
  BY DEF Procs
<1>2. (p = "parent" /\ q = "child") \/ (p = "child" /\ q = "parent")
  BY <1>1 DEF Procs
<1>3. place \in [Procs -> Spots] /\ failed \subseteq Procs
  BY DEF SemIInv, SemTypeOK, Spots
<1>4. /\ UNCHANGED <<sem, semval, semadj>> /\ stopped' \in [Procs -> BOOLEAN]
  BY DEF SemIInv, SemTypeOK, Stop, Continue
<1>5. CASE Continue(p) \/ place[p] # "blocked"
  <2>1. place' = place /\ failed' = failed
    BY <1>3, <1>5 DEF Stop, Continue
  <2>. QED
    BY <1>4, <2>1 DEF SemIInv, SemTypeOK, Places, Undo, Conserved, Turns, Owed
<1>6. CASE Stop(p) /\ place[p] = "blocked"
  <2>1. place' = [place EXCEPT ![p] = "critical"] /\ failed' = failed \cup {p}
    BY <1>3, <1>6 DEF Stop
  <2>2. place'[p] = "critical" /\ place'[q] = place[q]
    BY <1>1, <1>3, <2>1
  <2>3. sem = "up" /\ place[q] = "critical" /\ p \notin failed /\ q \notin failed
    BY <1>1, <1>6 DEF SemIInv, Places, Turns, BeforeP
  <2>4. SemTypeOK'
    BY <1>1, <1>3, <1>4, <2>1 DEF SemIInv, SemTypeOK
  <2>5. Places'
    BY <1>1, <1>2, <1>4, <1>6, <2>1, <2>2, <2>3 DEF SemIInv, Places, BeforeP, BeforeFork, Dead
  <2>6. Undo' /\ Conserved'
    BY <1>1, <1>2, <1>4, <1>6, <2>1, <2>2, <2>3 DEF SemIInv, Undo, Conserved, Owed
  <2>7. Turns'
    BY <1>1, <1>4, <2>1, <2>2, <2>3 DEF Turns
  <2>. QED
    BY <2>4, <2>5, <2>6, <2>7 DEF SemIInv
<1>. QED
  BY <1>5, <1>6

(* What waits, what is owed and who was let in fit together, wherever the  *)
(* two processes are and whatever the signals have done to them.           *)
THEOREM SemInvariance == SemSpec => []SemIInv
<1>1. SemIInv /\ [SemNext]_semvars => SemIInv'
  <2>. SUFFICES ASSUME SemIInv, [SemNext]_semvars PROVE SemIInv'
    OBVIOUS
  <2>1. CASE UNCHANGED semvars
    BY <2>1 DEF semvars, SemIInv, SemTypeOK, Places, Undo, Conserved, Turns, Owed
  <2>2. ASSUME NEW p \in Procs, Kill(p) PROVE SemIInv'
    <3>1. stopped' \in [Procs -> BOOLEAN]
      BY <2>2 DEF SemIInv, SemTypeOK, Kill
    <3>. QED
      BY <2>2, <3>1, EndKeeps DEF Kill, Dead
  <2>3. CASE ForkFails \/ Exit
    <3>1. stopped' \in [Procs -> BOOLEAN]
      BY <2>3 DEF SemIInv, SemTypeOK, ForkFails, Exit
    <3>. QED
      BY <2>3, <3>1, EndKeeps DEF ForkFails, Exit, At, Procs, Dead
  <2>4. CASE SemNext
    BY <2>2, <2>3, <2>4, PKeeps, VKeeps, MainKeeps, StopKeeps DEF SemNext, Step, Main, Signal
  <2>. QED
    BY <2>1, <2>4
<1>. QED
  BY SemInitInv, <1>1, PTL DEF SemSpec

(* Every variable keeps its type: the value is never negative nor above 2. *)
THEOREM SemTyping == SemSpec => []SemTypeOK
<1>1. SemIInv => SemTypeOK
  BY DEF SemIInv
<1>. QED
  BY SemInvariance, <1>1, PTL

(* Value and undo values make one, whatever failed, was interrupted or     *)
(* died (Conserved; lines 31-39, SEM_UNDO).                                *)
THEOREM Conservation == SemSpec => []Conserved
<1>1. SemIInv => Conserved
  BY DEF SemIInv
<1>. QED
  BY SemInvariance, <1>1, PTL

(* The critical section has two processes in it only after a P that failed *)
(* (ExclusiveUnlessFailed; lines 31-39, 66-79).                            *)
THEOREM Exclusion == SemSpec => []ExclusiveUnlessFailed
<1>1. SemIInv => ExclusiveUnlessFailed
  <2>. SUFFICES ASSUME SemIInv, place["parent"] = "critical", place["child"] = "critical",
                       failed = {}
                PROVE  FALSE
    BY DEF ExclusiveUnlessFailed, Procs
  <2>1. CASE sem = "up"
    <3>1. semadj["parent"] = 1 /\ semadj["child"] = 1 /\ semval \in 0 .. 2
      BY <2>1 DEF SemIInv, SemTypeOK, Undo, Owed, Procs
    <3>. QED
      BY <2>1, <3>1 DEF SemIInv, Conserved
  <2>2. CASE sem # "up"
    BY <2>2 DEF SemIInv, Turns, Procs
  <2>. QED
    BY <2>1, <2>2
<1>. QED
  BY SemInvariance, <1>1, PTL

(* The set is not removed under a child that may use it (RemovedLast;      *)
(* lines 81-82).                                                           *)
THEOREM LastRemoved == SemSpec => []RemovedLast
<1>1. SemIInv => RemovedLast
  BY DEF SemIInv, Places, RemovedLast
<1>. QED
  BY SemInvariance, <1>1, PTL
=============================================================================
