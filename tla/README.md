# A verification project for c_jiajia_network

The repository is a collection of independent Linux network programs in C and
C++: servers built on poll and epoll, a client for one of them, and small
programs about semaphores, signals, threads, asynchronous reads and timers.
There is no library and no build: each file is a program. What is hard in them
is what is hard in every event-driven server: tables that must stay in step
with the kernel's, decisions taken on a snapshot that is out of date when they
are carried out, descriptors that are closed and reused within one round, and
threads, processes and signals that interleave with all of it.

The modules here model the nine programs with state that lives across events:
three chat servers and their client, an echo server as a reactor, one with
threads, one stopped by signals, one on libevent, a file cache behind HTTP, and
two processes with a semaphore. `PROJECT.json` lists every module, run, mutant,
theorem, hazard and the source lines each definition stands for.

## Inventory

| component | source | state | operations | hard behaviour | what makes it correct |
|---|---|---|---|---|---|
| chat server | `chat_room_server.c`, `test_poll.c` | `fds[]`, `users[]`, `user_counter`, the loop index | poll, accept, refuse, close with swap, read and pass on, write | handlers run on a snapshot; the closing swap reorders slots; descriptors are reused | slots = open connections; no handler finds less than its branch supposes; leavers removed, arrivals served, texts sent; it implements a room with a limit |
| reactor | `test_epoll_reactor.c` | `g_events[]`, `checkpos`, epoll's table | the timeout test, accept, recv, send, re-registering | a batch of events outlives closes and accepts; timeouts race with activity | slot, registration and descriptor agree; events reach the slot they were meant for; closed only when silent; silent ones are closed |
| one-shot server | `test_epoll_epolloneshot.c` | epoll's one-shot state, one variable shared with all threads | wait, accept, start a thread, read, re-arm, close | main and the threads interleave; the argument is a reused variable | a connection has one owner; what is sent is read |
| semaphore pair | `test_semaphore.c` | the semaphore, its undo values | P, V, fork, wait, remove | stops, kills, a forgotten error code | exclusion; nobody waits for the dead; removed last |
| signal server | `test_signal.c` | the socket pair, `stop_server`, epoll's ready list | handlers, the loop | a signal anywhere in main; the pair full; edge-triggering | SIGTERM and SIGINT stop it; no byte stays behind |
| shared-memory chat server | `shmget_chat_room_server.c` | `fds[]`, `users[]` as above; a child's segment, pipe and epoll table | the poll loop again; the child's loop | edge-triggered sockets read once; a signal between test and sleep; an assignment in a condition | what is left unread is bounded and known; the child ends when its client has gone |
| chat client | `chat_room_client.c` | a pipe, what poll reported | poll, recv, two splices | every call blocks; results are not looked at; the end of the input | its calls do not wait for what may never come; only what a splice cut short stays in the pipe; it ends when the server does |
| file cache | `test_libevent/basichttpfile.c` | the file's text, `lasttime`, the timer | load, reload, answer | the file changes between stat, fopen and the reads of fread; times are whole seconds | no change is missed; a newer text is served in the end |
| line server | `test_libevent/demo1.c` | a bufferevent for each connection | four callbacks | events active for what an earlier callback frees; one line a callback | no stale call; lines answered, leavers closed |
| TCP and UDP echo | `test_tcp_udp_server.c` | epoll, edge-triggered | accept, echo | `break` leaves a batch half handled | every event of a batch is handled |
| mutex pair | `pthread/test_pthread_mutex_t.c` | two mutexes | lock in opposite orders | deadlock | both threads end |
| LT/ET server | `test_epoll.c` | epoll | read once or until empty | edges | nothing is left unread |
| connect with timeout | `test_noblocking_client.c`, `timer/test_connect_timeout.c` | one socket | connect, select, getsockopt | outcomes racing the timeout | a socket is returned or closed |
| the rest | `aio/`, `test_select.c`, `test_sigurg_signal.c`, `test_wait.c`, `test_accept.c` and the other single-connection programs | none across calls | straight-line calls | none to speak of | not modelled: pure I/O |

The components do not call one another. They meet only over TCP: the chat
client talks to the chat servers, and every server talks to arbitrary clients,
which the modules model as processes that connect, say something, shut down or
reset at any moment.

## Modules

Each server's module has the same shape: the clients and the kernel (actions
such as `Connect`, `Say`, `Leave`, `Reset`), the program (one action per branch
of its loop or per callback), fairness, then the properties. Texts and bytes
are reduced to what the properties tell apart: an author, or a count.
Mutants are operators beside the one they vary; no specification uses them.

- `ChatRoom` is the abstract room: who is in it, who waits at the door, who has
  hung up. Three servers with nothing in common but a limit on their
  connections implement it: `ChatServer` (a table and a swap), `OneShot`
  (descriptors and threads) and `LineEcho` (bufferevents). The reactor does
  not: it also closes connections that are merely silent.
- `ChatServer` is the poll loop. `fds` holds slots `[fd, events, revents]`,
  `users` is indexed by descriptor, and `write_buf` is the descriptor whose
  `buf` it points into. `Poll` takes the snapshot; every later step is one
  visit of the `for` loop, `i` included, so that clients act between two
  visits. `program` says which of three sources it is, chosen in `Init`. They
  differ in how a text is passed on (`BroadcastAll` is `test_poll.c`;
  `BroadcastRoom` is the other two, where the last slot is left out and
  `fds[i]` is changed in place of `fds[j]`), in what they ask poll about the
  listening socket (`ListenEvents`), and in SIGPIPE, which
  `shmget_chat_room_server.c` alone ignores (`SigpipeKills`; the name SIG_IGN
  is misspelt there, and read as meant). `|= ~POLLIN` is
  modelled as what it does: it sets every other flag. The array of users is
  taken to be zeroed, which a fresh mapping of that size is. It `INSTANCE`s
  `ChatRoom` as `Room`.
- `Reactor` is `test_epoll_reactor.c`. `interest` is epoll's table, with the
  slot's address as `ptr`; the functions `eventset`, `eventadd` and `eventdel`
  are operators on a slot. `StoredLen` is the write of the terminating zero
  behind `buf`: undefined behaviour with two outcomes. Time is `Tick`, and
  `age` counts up to `TIMEOUT`. The end of a batch and the timeout test are one
  step, as main shares nothing with anybody between them. A connection is
  accepted and not watched in two ways, both in the model: `AcceptLeaks`, for
  want of a slot, and `NonblockFails`, when `fcntl` fails (lines 122-127).
- `OneShot` is `test_epoll_epolloneshot.c`: main, the threads, and `cell`, the
  variable whose address every thread is given. `thread[w].for`, `raced` and
  `lost` are not in the code; they name the cases that the properties excuse.
  `WaitFails` is `epoll_wait` returning an error: main returns, `running` is
  over, and with it every thread. The `recv` that returns 0 (`RecvEnds`) and
  the `close` (`CloseEnded`) are two steps. The module is a `ChatRoom` whose
  limit is the number of descriptors until a thread has read another's
  argument. From then on two threads may hold a 0 for one number; the first
  close frees it, `accept` gives it to a newcomer, and the second close strikes
  the newcomer. `ImplementsRoom` allows such a step (`Struck`) once `raced`,
  and nothing else.
- `Semaphore` is `test_semaphore.c` with the kernel's queue (`Settle`), undo
  values (`End`), stops and kills. Its `SemInit`, `SemNext`, `SemSpec` and
  `place` are so named because one proof module extends it and `SignalServer`.
- `SignalServer` is `test_signal.c`; the handler runs between any two steps of
  main, and in `epoll_wait` only when nothing is ready there.
- `ShmChild` is `run_child`, with its client and the main process around it.
  `at` is where the child is in its loop, the gap between the test of
  `stop_child` and `epoll_wait` included (`enter`). The branch for the main
  process's notices is unreachable, because line 165 assigns; a notice
  (`Notify`) only makes the child look at its client's socket. The file holds
  no fork, so that the main process may do whatever the pipe allows.
- `ChatClient` is the client, one action per blocking call. A second splice
  moves what one splice can (`SendPipe`), or is interrupted while it waits for
  more room and moves less (`SendCut`); `left`, not in the code, counts what
  such cuts left in the pipe. A first splice into a pipe that is not empty may
  find room or not, because the kernel counts buffers and not bytes. `ended`
  tells the two ways in which standard input ends apart: a file or terminal
  reports POLLIN, a pipe POLLHUP alone, which the client does not look at.
- `FileCache` is `basichttpfile.c`. `read_file` is split where the file can
  change (`Stat`, `Open`, `ReadPart`, `Read`, `Close`): one `fread` is as many
  reads as it needs, each of the file as it is by then. A text is a version, a
  length and whether it was put together from several versions (`mixed`),
  and `disk.honest` says that mtime is the second of the last change, which a
  rename or utime can falsify. An unchecked `stat` that failed leaves any time
  in `buf`; an unterminated `data` leaves anything behind the text, or a crash.
- `LineEcho` is `demo1.c`. libevent's loop is external: it collects the active
  events (`Dispatch`) and calls back for one after another, a connection's read
  before its write. A line arrives in `LineLen` pieces. Calls that fail for
  want of memory are left out. It is a `ChatRoom` of the connections that have
  a bufferevent.
- The eight `..._proofs` modules hold the theorems, `Processes_proofs` those of
  `SignalServer` and `Semaphore`; `MC...` instantiate the modules for TLC.

The clients that `ChatServer` faces are any clients, and the server that
`ChatClient` faces is any server: each is checked against an environment that
includes the other, so that the two need no module that joins them.

## Runs

| run | instance | shows |
|---|---|---|
| `chat_safe` | all three programs, 3 clients, `USER_LIMIT` 2, 3 descriptors, 1 text waiting | the type, table and snapshot invariants, that the branch commented "code should not come to here" is not reached, and that the server implements `ChatRoom` |
| `chat_live` | `test_poll.c`, 2 clients | nobody waits for ever: leavers are removed and arrivals served (`Attended`); texts are sent |
| `chat_echo` | `chat_room_server.c`, 3 clients, `USER_LIMIT` 3 | finding: a user is sent its own text |
| `reactor_safe` | 3 clients, 2 slots, 3 descriptors of which 2 may be taken already | slots and epoll agree, events are never stale, connections are left unwatched or closed only for the named causes |
| `reactor_live` | 2 clients, one slot tested a round, 2 descriptors of which 1 may be taken already | silent connections are closed; arrivals are accepted, if need be after another is closed (`Attended`) |
| `oneshot_served` | 2 clients, 2 threads | a connection is in one of four hands; what is sent is read, who leaves is closed (`Attended`); the server implements `ChatRoom`, but for what a race lets a second close strike |
| `semaphore_all` | everything; the system is finite | conservation, exclusion unless a P failed, removal last, no waiting for the dead |
| `signal_all` | a socket pair of 2 bytes, 1 queued and 1 accepted connection | no byte stranded; a request to stop is not lost on its way (`RequestKept`); SIGTERM and SIGINT end the process |
| `shm_child` | a segment of 2 bytes, 3 waiting, a pipe of 2 notices | what one recv for one edge leaves behind; the child ends |
| `chat_client` | a splice of 2, a pipe of 4, a recv of 1 | recv and the splices wait for ever only for the named causes; what stays in the pipe was cut short; the client ends when the server hangs up |
| `file_cache` | 3 texts of 2 parts, 5 seconds, a reload every 2 | no honest change is missed; a newer text is served |
| `line_echo` | 2 clients, 1 or 2 descriptors, lines of 2 pieces | no stale callback; the server implements `ChatRoom`; lines answered, arrivals accepted, leavers closed |

### Bounds

Two slots and three clients are what the chat server's and the reactor's
hazards need: a swap of two different slots, a descriptor reused in the same
round by the third client, and one client too many. Each client connects once,
so a run has at most three connections; reuse of a connection's identity adds
nothing, because the server knows clients only by descriptor. `MaxUnread`
bounds what waits in a socket (one text suffices to tell "something" from
"nothing").
`SCAN` and `TIMEOUT` stand for 100 and 60; `reactor_live` uses `SCAN = 1`, less
than the number of slots, as 100 is less than 1024. `PipeCap` is 2, so that
one signal fits and a burst does not; the module's single `recv` takes all
there is, as 1024 bytes do: a socket pair holds some hundreds of such
messages. Symmetry over clients is used only in runs without liveness.

`oneshot_served` has two clients, and a close that strikes a newcomer takes
three: two threads with a 0 for the first one's number while the second was
read by the wrong thread, and the third to be struck. The same module with
three clients, two descriptors, two threads and symmetry, for safety only, has
some 210,000 states, among them such a strike, and satisfies the same
invariants and refinement; the theorem covers any number. In the run of
`chat_live` nobody is turned away, which `chat_safe` covers. `BUFLEN` of the
reactor is one receive, so that every receive is a full one.

In `ShmChild` three bytes wait for a segment of two, so that a recv may leave
some. In `ChatClient` a splice moves two of three bytes typed and the pipe
holds two splices, as 65536 bytes hold two of 32768. `FileCache` stops its
clock at `MaxTime`, and nothing is written in or after that second: the
saturated clock never stamps a file, so the bound cannot fake two changes in
one second; five seconds hold two reloads with changes before, between and in
the same second as each, and three texts let the second be replaced before it
is served. `LineEcho` bounds the pieces of a client in its socket and in the
server together, by 4: two lines, so that two may arrive at once; `limit` makes
a process run out of descriptors with one connection open or with two.

### Fairness

Only what the scheduler provides. A server's thread keeps running (weak
fairness of its steps together) while its process lives, each thread of the
one-shot server and each process of the semaphore pair likewise, unless it is
stopped. Failures are never fair: a step such as `PollFails`, `WaitFails`,
`NonblockFails` or `SendCut` is outside the fair steps. In `ChatServer` a
client that stays connected reads what it is sent (`Drain`): a text cannot be
delivered otherwise. `SignalServer` uses strong fairness for the delivery of a
pending signal, because the kernel delivers it when a system call returns,
which happens again and again but not continuously. No client is ever obliged
to speak or to leave. The client of `ChatClient` is weakly fair in its own
steps, the failures of connect, poll and splice excepted, and so is a first
splice into a pipe that holds something, which may wait for ever; neither user
nor server is. In `FileCache` the clock ticks; in `LineEcho` clients read what
they are sent; in `ShmChild` only the child is fair. Where the code may sleep
for ever the property names the case (`Ends`, `HangupEnds`) instead of a
fairness that would hide it. Deadlock checking is off, because each of these
systems may come to rest: the clients may all have left, or the process has
ended.

## Findings

One disagreement with the repository's own words has a run, `chat_echo`:
`chat_room_server.c:181`, `206` (and `test_poll.c:193`, `211`, and
`shmget_chat_room_server.c:392`, `417`) copy a struct, which moves `buf` but not
what points to it. A user can be sent its own text, against the comment at
`chat_room_server.c:218`.

Others the models contain, each with the property that says what still holds:

- `test_epoll_reactor.c:148`: the terminating zero of a full receive is written
  over `len`; the client is closed as if its send had failed, against the
  comment at line 234. `ClosedForCause` lists this as one of two causes. It is
  the outcome where the compiler keeps the order of the two stores; the model
  also allows the other.
- `test_epoll_epolloneshot.c:222`: every thread gets the address of the same
  loop variable; two threads may serve one socket, against the comment at line
  17. `HandedOver` holds until a thread has read another's argument (`raced`).
  After that the `close` at line 96 may hit a connection that was accepted
  between it and the `recv` at line 93, and whose client has done nothing
  (`Struck`).
- `test_semaphore.c:38`: EINTR from `semop` is ignored, so that a stop and
  continue of the waiting process breaks the exclusion promised at lines 10-11
  and 20. `ExclusiveUnlessFailed` holds.
- `test_signal.c:211`: `epoll_wait` is not restarted by SA_RESTART (line 88),
  so that SIGHUP and SIGCHLD, meant to be ignored, may end the server.
  `TermStops` says only that SIGTERM and SIGINT do.
- `shmget_chat_room_server.c:165-171`: one recv for an edge-triggered event, and
  an assignment for a comparison. `LeftBehind` says what may stay unread, `Ends`
  when the end of a client goes unseen. Line 167 clears a text that was
  announced and perhaps not yet read.
- `chat_room_client.c:98`: texts that arrived before the server's FIN are not
  printed when both are seen at once; line 122 waits for ever when the input
  has ended, and line 120 when what short splices left fills the pipe (`Stuck`).
- `basichttpfile.c:26`: a change in the second of the load is not seen, nor one
  that brings an older time; `ChangeSeen` excuses these two. Line 46 copies an
  unterminated text.
- `demo1.c:35`: of two lines that arrive together one is answered; `Served`
  promises an answer only for the line that completes while none is held back.
- `chat_room_server.c:219-227` passes a text to all but the last user and sets
  the wrong slot's events, and lines 226 and 246 (`|= ~POLLOUT`) take no flag
  away, so that poll returns at once for ever. The edge-triggered listening
  sockets of `test_epoll_epolloneshot.c`, `test_signal.c` and
  `test_tcp_udp_server.c` accept one connection per event.

## Proofs

TLAPS checks all theorems from the named assumption on the constants of the
module alone (`ChatAssumption`, `ReactorAssumption`, ...): they hold for any
number of clients, descriptors, slots and threads, and for any limits and sizes.
Every type invariant, every safety invariant, every action property and every
refinement that a passing run checks is proved; only liveness is not.

`ChatServer_proofs`. The invariant is `IInv == TypeOK /\ TableInv /\
SnapshotInv`. `NeverReadsNothing`, that no `recv` finds an empty socket, is not
inductive: it needs that what `poll` reported of a slot is still true when the
loop arrives there (`SnapshotInv`: a hang-up is for ever, an error is fetched
only by the slot's own visit, data are taken only by it), and that needs
`TableInv`: no two slots share a descriptor or a connection, so that a visit
disturbs no other slot's, and the swap on closing brings a slot not yet visited
to an index not yet visited. `TableInv` in turn carries the kernel's part
(`KernelInv`) and the count of users, without which accept could write beyond
`fds`. The proof has one lemma per kind of step (`PollKeeps`, `AcceptKeeps`,
`DropKeeps`, ...), each over what the step may disturb, and `NextInv` joins
them. `Implementation` is the refinement of `ChatRoom`: `InitRoom` and
`StepRoom`, whose steps map to `Arrive`, `HangUp`, `Admit`, `Refuse`, `Abort`,
`Remove` or a stutter under the invariant; the abstract limit compares
`Cardinality(members)`, which `TableInv` equates with `user_counter`.

`Reactor_proofs`. The invariant is `IInv == TypeOK /\ KernelSync /\ BatchFresh
/\ Once /\ Roles /\ Reported`. `KernelSync` and `BatchFresh` need each other:
an event stays fresh because no two live slots share a descriptor, and slots
and epoll stay in agreement because a callback runs only for a live slot with a
client's connection. Three parts are there for the induction alone. `Roles`:
only the listening socket's slot has `acceptconn`, so that a batch holds one
event for it. `Reported`: what made an event ready is still there when its turn
comes, without which `acceptconn` could take from an empty backlog and
`senddata` could find no room. `Once`: no client is behind two descriptors or
queued while it has one, so that the callback of one event leaves what another
reported alone. `PutSync` and `ClosesSync` treat the two ways in which a slot
and epoll's table change together (set up or turned; closed), `OthersKept` and
`AllKept` what a step must leave alone for the events still waiting, and one
lemma per action applies them. The two action properties follow from
`StepShape`: every step keeps all descriptors, closes some, each for a cause,
or opens one, which is watched unless there is no slot or `fcntl` failed. That
the lowest free descriptor or slot exists is proved from the well-foundedness
of the naturals, so that the sets may be infinite.

`OneShot_proofs`. `HandedOver` counts the places of a descriptor with
`Cardinality`; the invariant says the same without counting (`Placed`: with
epoll, with main and with a thread exclude one another, and an open descriptor
is in one of them or lost). It needs `Once`, that a client waits in the backlog
or is behind one descriptor and not both: a connection just accepted could
otherwise be one that was lost. `Hired` ties a thread to the descriptor it was
started for until `raced`; that a thread that is about to re-arm or to close
has a descriptor at all, raced or not, is one of its conjuncts. Between the
`recv` that returned 0 and the close, `Ends` keeps what the `recv` found, that
the client there has ended, until `raced`: nobody else closes the descriptor,
so that nobody else gets its number. `Implementation`, the refinement of
`ChatRoom`, follows the close (`Closing`): it takes out one member, whom `Once`
puts not at the door; by `Ends` it is one who has ended, or the run has `raced`
and the step is a `Struck` or changes nothing. `accept` finds a free
descriptor, hence there are fewer members than descriptors: the other half of
the abstract limit (`PlaceLeft`), the open descriptors being mapped onto the
members.

`Processes_proofs`, on `SignalServer`. `ByteAnnounced` is inductive together
with `Between`, that no events are left over when `epoll_wait` is called,
because the wait replaces the batch and would drop an announcement.
`RequestKept` is the safety half of `TermStops`: wherever a SIGTERM or SIGINT
is on its way (pending, a byte in the pair, the flag), it is not dropped by the
step that takes it further. `ReadSignals` passes a whole buffer of bytes at
once, and must look at each of them.

`Processes_proofs`, on `Semaphore`. The module has no constants, so that its run
is exhaustive too; the proof says why. That the value and the two undo values
add up to one (`Conserved`) does not imply exclusion: a process in the critical
section whose P has failed owes nothing, and its V afterwards leaves it with an
undo value of -1. `Owed` gives the undo value a process must have from where it
is and whether its P failed, and `Undo` says that the kernel's `semadj` is that;
then two processes inside, neither with a failed P, would make the semaphore
-1. `Turns` is what keeps a P from failing twice: who waits, waits for one who
was let in, and one who was not let in has waited for such a one, who is past
its P. Without it a second V too many would take `semval` out of its range.
`Places` says who may be where when: no child before the fork, and no removal
before the child is dead, from which `RemovedLast` follows.

`ShmChild_proofs`. `LeftBehind` speaks of a child asleep; `Announced` says of
every moment what leads to it: bytes are in the ready list or the batch or
behind a full segment, an end likewise or behind a text, or seen already.

`ChatClient_proofs`. `SleepsInPoll` and `OnlyCutsStay` need `Round`: what poll
reported is still so when the branch comes to it, since the client alone takes
from the socket and from standard input, and when the second splice begins, no
more is in the pipe than one splice moves and what earlier cuts left there.

`FileCache_proofs`. `Loads` follows a load through its calls: at each, if the
stat came in a later second than the time it saw, then what was taken from the
file is good or the file has a later time by now; between two reads of `fread`,
that what it has so far is all of one text, the one on the disk. A change can
only come in the present second, and the clock has passed the one noted.
`Forward` is the action property `NeverBackwards`, which no run of the list
checks. A file truncated between two reads may well give less of the text that
is served, and one truncated and written a mixture of both; the theorem says
that then a newer text is on the disk already, and that an older one is never
served. It rests on `Behind`: what is served is no newer than the file, nor
more of the same text than the file holds or than `ftell` has seen of it, and
what `fread` has is no older than what is served and of one text if it is the
file's.

`LineEcho_proofs`. `CallsFindTheirCause` is inductive because a callback takes
from its own connection only and `buf_error_callback` takes back both events;
`NothingGrows` bounds the buffers, a product with `LineLen` that has a lemma of
its own. `Implementation` adds `Outside` to the invariant: who has not
connected is neither at the door nor inside, so that an arrival is somebody
new, and the members are finitely many, so that the limit counts them. A
callback frees a connection only for an event whose cause `CallsFindTheirCause`
shows to be an end.

Only model-checked: every liveness property, `Attended`, `PendingSent`,
`NotForever`, `TermStops`, `Ends`, `HangupEnds`, `ChangeServed` and `Served`
(liveness under fairness and ENABLED are beyond this prover), and the finding.

## Not modelled

`test_tcp_udp_server.c` and `test_epoll.c` repeat the accept, read and echo of
programs that are modelled; what is their own, a batch left by `break`, is in
the list of hazards and would be the next module (`TcpUdpServer`). The mutex
pair deadlocks by design in a handful of states. A connect with a timeout is
one call. In `shmget_chat_room_server.c` `del_resource` is never called, and
`sig_handler` writes to a socket pair that nothing reads; that a signal ends
main's loop, by EINTR from `poll`, is `PollFails`. The other programs hold no
state between two calls. Not modelled in any program: running out of memory, an
I/O error of a file's read, the contents of texts and addresses, and the set-up
calls whose failure ends the program before anything has happened.
