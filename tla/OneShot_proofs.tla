---------------------------- MODULE OneShot_proofs -----------------------------
(***************************************************************************)
(* The inductive invariant of OneShot, and what follows from it for any    *)
(* number of clients, descriptors and threads.                             *)
(***************************************************************************)
EXTENDS OneShot, FiniteSetTheorems, WellFoundedInduction, TLAPS

Queued == {backlog[k] : k \in DOMAIN backlog}

(* A client's only connection waits once to be accepted, or one descriptor *)
(* stands for it; only what was accepted can be lost.                      *)
Once ==
  /\ \A f, g \in Fds : owner[f] = owner[g] /\ owner[f] \in Clients => f = g
  /\ \A f \in Fds : owner[f] \notin Queued
  /\ \A c \in Queued : link[c] # "none" /\ c \notin lost
  /\ \A c \in Clients : link[c] = "none" => c \notin lost /\ \A f \in Fds : owner[f] # c
  /\ \A j, k \in DOMAIN backlog : backlog[j] = backlog[k] => j = k

(* Until a thread reads another's cell, a thread works on the descriptor   *)
(* it was started for.                                                     *)
Hired(w) ==
  /\ thread[w].at = "none" => thread[w].for = NULL
  /\ thread[w].at # "none" => thread[w].for \in Fds
  /\ thread[w].at \in {"reset", "close"} => thread[w].sock \in Fds
  /\ ~raced /\ thread[w].at \in {"recv", "reset", "close"} => thread[w].sock = thread[w].for

Idle(f) == \A w \in Workers : thread[w].for # f
Claimed(f) == owner[f] # NoClient /\ owner[f] \notin lost

(* The places of a descriptor exclude each other, and an open one has one. *)
Placed(f) ==
  /\ f \in armed => f \notin batch /\ Idle(f) /\ Claimed(f)
  /\ f \in batch => Idle(f) /\ Claimed(f)
  /\ \A v, w \in Workers : thread[v].for = f /\ thread[w].for = f => v = w
  /\ ~Idle(f) => Claimed(f)
  /\ owner[f] # NoClient => f \in armed \/ f \in batch \/ ~Idle(f) \/ owner[f] \in lost

Hands == \A w \in Workers : Hired(w)
Apart == ~raced => \A f \in Fds : Placed(f)

(* A thread about to close its descriptor has seen the connection's end.   *)
Ends == ~raced => \A w \in Workers :
                    thread[w].at = "close" => link[owner[thread[w].for]] \in Ended

IInv == TypeOK /\ Once /\ Hands /\ Apart /\ Ends

Threads == [at : {"none", "start", "recv", "reset", "close"}, sock : Fds \cup {NULL}, for : Fds \cup {NULL}]

(* The markers and the descriptors do not overlap.                         *)
LEMMA Basics ==
  /\ NoClient \notin Clients /\ Fds \subseteq Nat
  /\ listenfd \notin Fds /\ NULL \notin Fds
  /\ MaxUnread \in Nat /\ MaxUnread > 0
BY OneShotAssumption DEF NULL

(* accept gives the lowest descriptor that is free.                        *)
LEMMA LowestFree ==
  ASSUME FreeFds # {}
  PROVE  (CHOOSE f \in FreeFds : \A g \in FreeFds : f <= g) \in FreeFds
<1> DEFINE R == {ss \in Nat \X Nat : ss[1] < ss[2]}
<1>1. IsWellFoundedOn(R, Nat)
  BY NatLessThanWellFounded DEF OpToRel
<1>2. \A x, y \in Nat : x < y => <<x, y>> \in R
  OBVIOUS
<1>3. FreeFds \subseteq Nat
  BY Basics DEF FreeFds
<1> HIDE DEF R
<1>4. PICK x \in FreeFds : \A y \in FreeFds : <<y, x>> \notin R
  BY <1>1, <1>3, WFMin
<1>5. ASSUME NEW y \in FreeFds PROVE x <= y
  <2>1. x \in Nat /\ y \in Nat /\ ~(y < x)
    BY <1>2, <1>3, <1>4
  <2>. QED
    BY <2>1
<1>. QED
  BY <1>5

-----------------------------------------------------------------------------
(* The backlog.                                                            *)

LEMMA TailQueue ==
  ASSUME TypeOK, Once, backlog # <<>>, backlog' = Tail(backlog)
  PROVE  /\ Head(backlog) \in Queued /\ Head(backlog) \in Clients
         /\ backlog' \in Seq(Clients)
         /\ Queued' \subseteq Queued \ {Head(backlog)}
         /\ \A j, k \in DOMAIN backlog' : backlog'[j] = backlog'[k] => j = k
<1>1. /\ backlog \in Seq(Clients) /\ Len(backlog) \in Nat /\ Len(backlog) > 0
      /\ DOMAIN backlog = 1 .. Len(backlog) /\ Head(backlog) = backlog[1]
      /\ DOMAIN backlog' = 1 .. (Len(backlog) - 1)
  BY DEF TypeOK
<1>2. Head(backlog) \in Queued /\ Head(backlog) \in Clients /\ backlog' \in Seq(Clients)
  BY <1>1 DEF Queued
<1>3. ASSUME NEW k \in DOMAIN backlog'
      PROVE  k \in Int /\ k + 1 # 1 /\ k + 1 \in DOMAIN backlog /\ backlog'[k] = backlog[k + 1]
  BY <1>1
<1>4. \A k \in DOMAIN backlog' : backlog'[k] \in Queued /\ backlog'[k] # Head(backlog)
  BY <1>1, <1>3 DEF Once, Queued
<1>5. ASSUME NEW j \in DOMAIN backlog', NEW k \in DOMAIN backlog', backlog'[j] = backlog'[k]
      PROVE  j = k
  <2>1. j + 1 = k + 1
    BY <1>3, <1>5 DEF Once
  <2>. QED
    BY <1>3, <2>1
<1>6. Queued' \subseteq Queued \ {Head(backlog)}
  BY <1>4 DEF Queued
<1>. QED
  BY <1>2, <1>5, <1>6

LEMMA AppendQueue ==
  ASSUME TypeOK, Once, NEW c \in Clients, c \notin Queued, backlog' = Append(backlog, c)
  PROVE  /\ backlog' \in Seq(Clients) /\ Queued' = Queued \cup {c}
         /\ \A j, k \in DOMAIN backlog' : backlog'[j] = backlog'[k] => j = k
<1>1. /\ backlog \in Seq(Clients) /\ Len(backlog) \in Nat
      /\ DOMAIN backlog = 1 .. Len(backlog) /\ DOMAIN backlog' = 1 .. (Len(backlog) + 1)
      /\ backlog'[Len(backlog) + 1] = c
      /\ \A k \in DOMAIN backlog : backlog'[k] = backlog[k]
      /\ backlog' \in Seq(Clients)
  BY DEF TypeOK
<1>2. DOMAIN backlog' = DOMAIN backlog \cup {Len(backlog) + 1}
  BY <1>1
<1>3. Queued' = Queued \cup {c}
  BY <1>1, <1>2 DEF Queued
<1>4. \A k \in DOMAIN backlog : backlog[k] # c
  BY DEF Queued
<1>5. ASSUME NEW j \in DOMAIN backlog', NEW k \in DOMAIN backlog', backlog'[j] = backlog'[k]
      PROVE  j = k
  BY <1>1, <1>2, <1>4, <1>5 DEF Once
<1>. QED
  BY <1>1, <1>3, <1>5

LEMMA InitInv == Init => IInv
<1>. SUFFICES ASSUME Init PROVE IInv
  OBVIOUS
<1>1. TypeOK
  <2>1. /\ backlog \in Seq(Clients) /\ unread \in [Clients -> 0 .. MaxUnread]
        /\ link \in [Clients -> {"none", "up", "fin", "rst", "dead", "closed"}]
        /\ owner \in [Fds -> Clients \cup {NoClient}]
    BY Basics DEF Init
  <2>2. /\ thread \in [Workers -> Threads]
        /\ lready \in BOOLEAN /\ raced \in BOOLEAN
    BY DEF Init, Threads
  <2>3. running = TRUE /\ cell = NULL /\ batch = {} /\ armed = {} /\ lost = {}
    BY DEF Init
  <2>. QED
    BY <2>1, <2>2, <2>3 DEF TypeOK, Threads
<1>2. backlog = <<>> /\ Queued = {} /\ DOMAIN backlog = {}
  BY DEF Init, Queued
<1>3. Once
  BY <1>2, Basics DEF Init, Once
<1>4. Hands
  BY DEF Init, Hands, Hired
<1>5. Apart
  BY Basics DEF Init, Apart, Placed, Idle
<1>6. Ends
  BY DEF Init, Ends
<1>. QED
  BY <1>1, <1>3, <1>4, <1>5, <1>6 DEF IInv

(* What a thread that closes works on until a thread reads another's cell. *)
LEMMA Closing ==
  ASSUME IInv, ~raced, NEW w \in Workers, thread[w].at \in {"recv", "reset", "close"}
  PROVE  /\ thread[w].for \in Fds /\ thread[w].sock = thread[w].for
         /\ owner[thread[w].for] \in Clients
         /\ \A v \in Workers : thread[v].for = thread[w].for => v = w
<1>1. thread[w].for \in Fds /\ thread[w].sock = thread[w].for
  BY DEF IInv, Hands, Hired
<1>2. Placed(thread[w].for)
  BY <1>1 DEF IInv, Apart
<1>3. owner[thread[w].for] # NoClient
  BY <1>2 DEF Placed, Idle, Claimed
<1>. QED
  BY <1>1, <1>2, <1>3 DEF Placed, IInv, TypeOK

(* No step brings a connection back to life.                               *)
LEMMA EndsKept ==
  ASSUME IInv, ~raced' => ~raced,
         \A w \in Workers : thread'[w].at = "close" => thread'[w] = thread[w],
         \A f \in Fds : owner[f] # NoClient => owner'[f] = owner[f],
         \A c \in Clients : link[c] \in Ended => link'[c] \in Ended
  PROVE  Ends'
<1>. SUFFICES ASSUME ~raced', NEW w \in Workers, thread'[w].at = "close"
              PROVE  link'[owner'[thread'[w].for]] \in Ended
  BY DEF Ends
<1>1. ~raced /\ thread'[w] = thread[w] /\ thread[w].at = "close"
  OBVIOUS
<1>2. /\ thread[w].for \in Fds /\ owner[thread[w].for] \in Clients
      /\ link[owner[thread[w].for]] \in Ended
  BY <1>1, Closing DEF IInv, Ends
<1>. QED
  BY <1>1, <1>2, Basics

-----------------------------------------------------------------------------
(* The clients.                                                            *)

LEMMA ClientKeeps ==
  ASSUME IInv, NEW c \in Clients, ClientStep(c)
  PROVE  IInv'
<1>1. CASE Connect(c)
  <2>1. /\ link[c] = "none" /\ link' = [link EXCEPT ![c] = "up"]
        /\ backlog' = Append(backlog, c) /\ lready' = TRUE
        /\ UNCHANGED <<batch, cell, thread, armed, owner, unread, running, raced, lost>>
    BY <1>1 DEF Connect, main, others
  <2>2. c \notin Queued /\ c \notin lost /\ \A f \in Fds : owner[f] # c
    BY <2>1 DEF IInv, Once
  <2>3. /\ backlog' \in Seq(Clients) /\ Queued' = Queued \cup {c}
        /\ \A j, k \in DOMAIN backlog' : backlog'[j] = backlog'[k] => j = k
    BY <2>1, <2>2, AppendQueue DEF IInv
  <2>4. TypeOK'
    BY <2>1, <2>3 DEF IInv, TypeOK
  <2>5. Once'
    BY <2>1, <2>2, <2>3 DEF IInv, TypeOK, Once
  <2>6. Hands' /\ Apart'
    BY <2>1 DEF IInv, Hands, Hired, Apart, Placed, Idle, Claimed
  <2>7. \A d \in Clients : link[d] \in Ended => link'[d] \in Ended
    BY <2>1 DEF IInv, TypeOK, Ended
  <2>8. Ends'
    BY <2>1, <2>7, EndsKept
  <2>. QED
    BY <2>4, <2>5, <2>6, <2>8 DEF IInv
<1>2. CASE Say(c) \/ Leave(c) \/ Reset(c)
  <2>1. /\ unread' \in [Clients -> 0 .. MaxUnread]
        /\ UNCHANGED <<batch, cell, thread, armed, lready, owner, backlog, running, raced, lost>>
    <3>1. CASE Say(c)
      BY <3>1, Basics DEF IInv, TypeOK, Say, main, kernel, others
    <3>2. CASE Leave(c)
      BY <3>2 DEF IInv, TypeOK, Leave, main, kernel, others
    <3>3. CASE Reset(c)
      BY <3>3, Basics DEF IInv, TypeOK, Reset, main, kernel, others
    <3>. QED
      BY <1>2, <3>1, <3>2, <3>3
  <2>2. /\ link' \in [Clients -> {"none", "up", "fin", "rst", "dead", "closed"}]
        /\ \A d \in Clients : link'[d] = "none" <=> link[d] = "none"
    BY <1>2 DEF IInv, TypeOK, Say, Leave, Reset
  <2>3. TypeOK'
    BY <2>1, <2>2 DEF IInv, TypeOK
  <2>4. Queued' = Queued /\ Queued \subseteq Clients
    BY <2>1 DEF Queued, IInv, TypeOK
  <2>5. Once'
    BY <2>1, <2>2, <2>4 DEF IInv, Once
  <2>6. Hands' /\ Apart'
    BY <2>1 DEF IInv, Hands, Hired, Apart, Placed, Idle, Claimed
  <2>7. \A d \in Clients : link[d] \in Ended => link'[d] \in Ended
    BY <1>2 DEF IInv, TypeOK, Say, Leave, Reset, Ended
  <2>8. Ends'
    BY <2>1, <2>7, EndsKept
  <2>. QED
    BY <2>3, <2>5, <2>6, <2>8 DEF IInv
<1>. QED
  BY <1>1, <1>2 DEF ClientStep

-----------------------------------------------------------------------------
(* The main thread.                                                        *)

LEMMA WaitKeeps ==
  ASSUME IInv, Wait
  PROVE  IInv'
<1>1. PICK ready \in SUBSET armed :
        /\ batch = {} /\ armed' = armed \ ready
        /\ ready \subseteq batch' /\ batch' \subseteq ready \cup {listenfd}
        /\ lready' = FALSE
        /\ UNCHANGED <<cell, thread, owner, link, backlog, unread, running, raced, lost>>
  <2>. DEFINE R == {f \in armed : Readable(f)}
  <2>1. R \in SUBSET armed
    OBVIOUS
  <2>2. Reported(R) /\ armed' = armed \ R
    BY DEF Wait
  <2>. HIDE DEF R
  <2>. QED
    BY <2>1, <2>2 DEF Reported, others
<1>2. TypeOK'
  BY <1>1 DEF IInv, TypeOK
<1>3. Once' /\ Hands'
  BY <1>1 DEF IInv, Once, Hands, Hired, Queued
<1>4. Apart'
  <2>. SUFFICES ASSUME ~raced', NEW f \in Fds PROVE Placed(f)'
    BY DEF Apart
  <2>1. Placed(f)
    BY <1>1 DEF IInv, Apart
  <2>2. f # listenfd
    BY Basics
  <2>. QED
    BY <1>1, <2>1, <2>2 DEF Placed, Idle, Claimed
<1>5. Ends'
  BY <1>1, EndsKept
<1>. QED
  BY <1>2, <1>3, <1>4, <1>5 DEF IInv

LEMMA WaitFailsKeeps ==
  ASSUME IInv, WaitFails
  PROVE  IInv'
<1>1. /\ running' = FALSE
      /\ UNCHANGED <<batch, cell, thread, armed, lready, owner, link, backlog, unread, raced, lost>>
  BY DEF WaitFails, main, kernel
<1>2. TypeOK'
  BY <1>1 DEF IInv, TypeOK
<1>3. Once' /\ Hands'
  BY <1>1 DEF IInv, Once, Queued, Hands, Hired
<1>4. Apart'
  BY <1>1 DEF IInv, Apart, Placed, Idle, Claimed
<1>5. Ends'
  BY <1>1, EndsKept
<1>. QED
  BY <1>2, <1>3, <1>4, <1>5 DEF IInv

LEMMA AcceptKeeps ==
  ASSUME IInv, AcceptConn \/ AcceptFails
  PROVE  IInv'
<1>1. CASE AcceptConn
  <2>. DEFINE c == Head(backlog)
  <2>1. PICK connfd \in FreeFds :
          /\ owner' = [owner EXCEPT ![connfd] = c] /\ armed' = armed \cup {connfd}
          /\ backlog # <<>> /\ backlog' = Tail(backlog)
          /\ batch' = batch \ {listenfd} /\ cell' \in {cell, NULL}
          /\ UNCHANGED <<thread, lready, link, unread, running, raced, lost>>
    BY <1>1, LowestFree DEF AcceptConn, others
  <2>2. connfd \in Fds /\ owner[connfd] = NoClient
    BY DEF FreeFds
  <2>3. /\ c \in Queued /\ c \in Clients /\ backlog' \in Seq(Clients)
        /\ Queued' \subseteq Queued \ {c}
        /\ \A j, k \in DOMAIN backlog' : backlog'[j] = backlog'[k] => j = k
    BY <2>1, TailQueue DEF IInv
  <2>. HIDE DEF c
  <2>4. c \notin lost /\ link[c] # "none" /\ c # NoClient /\ \A f \in Fds : owner[f] # c
    BY <2>3, Basics DEF IInv, Once
  <2>5. \A f \in Fds : owner'[f] = IF f = connfd THEN c ELSE owner[f]
    BY <2>1, <2>2 DEF IInv, TypeOK
  <2>6. TypeOK'
    BY <2>1, <2>2, <2>3 DEF IInv, TypeOK
  <2>7. Once'
    BY <2>1, <2>3, <2>4, <2>5 DEF IInv, Once
  <2>8. Hands'
    BY <2>1 DEF IInv, Hands, Hired
  <2>9. Apart'
    <3>. SUFFICES ASSUME ~raced', NEW f \in Fds PROVE Placed(f)'
      BY DEF Apart
    <3>1. Placed(f) /\ Placed(connfd)
      BY <2>1, <2>2 DEF IInv, Apart
    <3>2. f # listenfd
      BY Basics
    <3>. QED
      BY <2>1, <2>2, <2>4, <2>5, <3>1, <3>2 DEF Placed, Idle, Claimed
  <2>10. Ends'
    BY <2>1, <2>2, <2>5, EndsKept
  <2>. QED
    BY <2>6, <2>7, <2>8, <2>9, <2>10 DEF IInv
<1>2. CASE AcceptFails
  <2>1. /\ batch' = batch \ {listenfd}
        /\ UNCHANGED <<cell, thread, armed, lready, owner, backlog, link, unread, running, raced, lost>>
    BY <1>2 DEF AcceptFails, kernel, others
  <2>2. TypeOK'
    BY <2>1 DEF IInv, TypeOK
  <2>3. Once' /\ Hands'
    BY <2>1 DEF IInv, Once, Hands, Hired, Queued
  <2>4. Apart'
    BY <2>1, Basics DEF IInv, Apart, Placed, Idle, Claimed
  <2>5. Ends'
    BY <2>1, EndsKept
  <2>. QED
    BY <2>2, <2>3, <2>4, <2>5 DEF IInv
<1>. QED
  BY <1>1, <1>2

LEMMA StartKeeps ==
  ASSUME IInv, NEW f \in batch, StartFails(f) \/ \E w \in Workers : StartWorker(f, w)
  PROVE  IInv'
<1>1. CASE StartFails(f)
  <2>1. /\ f \in Fds /\ cell' = f /\ batch' = batch \ {f}
        /\ lost' = lost \cup ({owner[f]} \ {NoClient})
        /\ UNCHANGED <<thread, armed, lready, owner, link, backlog, unread, running, raced>>
    BY <1>1 DEF IInv, TypeOK, StartFails, kernel
  <2>2. TypeOK'
    BY <2>1 DEF IInv, TypeOK
  <2>3. owner[f] # NoClient => owner[f] \in Clients /\ owner[f] \notin Queued /\ link[owner[f]] # "none"
    BY <2>1 DEF IInv, TypeOK, Once
  <2>4. Once'
    BY <2>1, <2>3 DEF IInv, Once, Queued
  <2>5. Hands'
    BY <2>1 DEF IInv, Hands, Hired
  <2>6. Apart'
    <3>. SUFFICES ASSUME ~raced', NEW g \in Fds PROVE Placed(g)'
      BY DEF Apart
    <3>1. Placed(f) /\ Placed(g)
      BY <2>1 DEF IInv, Apart
    <3>2. g # f /\ owner[g] # NoClient => owner[g] # owner[f]
      BY <2>1 DEF IInv, TypeOK, Once
    <3>. QED
      BY <2>1, <3>1, <3>2 DEF Placed, Idle, Claimed
  <2>7. Ends'
    BY <2>1, EndsKept
  <2>. QED
    BY <2>2, <2>4, <2>5, <2>6, <2>7 DEF IInv
<1>2. ASSUME NEW w \in Workers, StartWorker(f, w) PROVE IInv'
  <2>1. /\ f \in Fds /\ thread[w].at = "none" /\ cell' = f /\ batch' = batch \ {f}
        /\ thread' = [thread EXCEPT ![w] = [at |-> "start", sock |-> NULL, for |-> f]]
        /\ UNCHANGED <<armed, lready, owner, link, backlog, unread, running, raced, lost>>
    BY <1>2 DEF IInv, TypeOK, StartWorker, kernel, others
  <2>2. [at |-> "start", sock |-> NULL, for |-> f] \in Threads
    BY <2>1 DEF Threads
  <2>3. TypeOK'
    BY <2>1, <2>2 DEF IInv, TypeOK, Threads
  <2>4. Once'
    BY <2>1 DEF IInv, Once, Queued
  <2>5. /\ thread'[w].at = "start" /\ thread'[w].for = f
        /\ \A v \in Workers \ {w} : thread'[v] = thread[v]
    BY <2>1 DEF IInv, TypeOK
  <2>6. Hands'
    <3>. SUFFICES ASSUME NEW v \in Workers PROVE Hired(v)'
      BY DEF Hands
    <3>. QED
      BY <2>1, <2>5 DEF IInv, Hands, Hired
  <2>7. Apart'
    <3>. SUFFICES ASSUME ~raced', NEW g \in Fds PROVE Placed(g)'
      BY DEF Apart
    <3>1. Placed(f) /\ Placed(g)
      BY <2>1 DEF IInv, Apart
    <3>2. thread[w].for = NULL /\ g # NULL
      BY <2>1, Basics DEF IInv, Hands, Hired
    <3>. QED
      BY <2>1, <2>5, <3>1, <3>2 DEF Placed, Idle, Claimed
  <2>8. Ends'
    BY <2>1, <2>5, EndsKept
  <2>. QED
    BY <2>3, <2>4, <2>6, <2>7, <2>8 DEF IInv
<1>. QED
  BY <1>1, <1>2

-----------------------------------------------------------------------------
(* A thread.                                                               *)

(* What recv returns data or an error to is an open connection.            *)
LEMMA ThreadAt ==
  ASSUME IInv, NEW w \in Workers, At(w)
  PROVE  /\ thread[w].at = "recv" /\ thread[w].sock \in Fds
         /\ Of(w) \in Clients /\ Of(w) = owner[thread[w].sock]
         /\ Of(w) \notin Queued /\ link[Of(w)] # "none"
         /\ thread[w].for \in Fds
         /\ ~raced => thread[w].sock = thread[w].for
<1>1. thread[w].at = "recv" /\ thread[w].sock \in Fds /\ owner[thread[w].sock] # NoClient
  BY DEF At
<1>2. Of(w) = owner[thread[w].sock] /\ Of(w) \in Clients
  BY <1>1 DEF Of, IInv, TypeOK
<1>3. Of(w) \notin Queued /\ link[Of(w)] # "none"
  BY <1>1, <1>2 DEF IInv, Once
<1>4. thread[w].for \in Fds /\ (~raced => thread[w].sock = thread[w].for)
  BY <1>1 DEF IInv, Hands, Hired
<1>. QED
  BY <1>1, <1>2, <1>3, <1>4

LEMMA ThreadKeeps ==
  ASSUME IInv, NEW w \in Workers, ReadArgument(w) \/ RecvData(w) \/ RecvAgain(w) \/ RecvError(w) \/ RecvEnds(w)
  PROVE  IInv'
<1>t. thread \in [Workers -> Threads] /\ thread[w] \in Threads
  BY DEF IInv, TypeOK, Threads
<1>1. CASE ReadArgument(w) \/ RecvAgain(w) \/ RecvEnds(w)
  <2>1. /\ thread'[w].at \in {"recv", "reset", "close"} /\ thread'[w].for = thread[w].for
        /\ thread' \in [Workers -> Threads] /\ \A v \in Workers \ {w} : thread'[v] = thread[v]
        /\ thread[w].at \in {"start", "recv"}
    <3>1. CASE ReadArgument(w)
      <4>1. thread' = [thread EXCEPT ![w] = [thread[w] EXCEPT !.at = "recv", !.sock = cell]]
        BY <1>t, <3>1 DEF ReadArgument
      <4>2. [thread[w] EXCEPT !.at = "recv", !.sock = cell] \in Threads
        BY <1>t DEF Threads, IInv, TypeOK
      <4>. QED
        BY <1>t, <3>1, <4>1, <4>2 DEF ReadArgument, Threads
    <3>2. CASE RecvAgain(w)
      <4>1. thread' = [thread EXCEPT ![w] = [thread[w] EXCEPT !.at = "reset"]]
        BY <1>t, <3>2 DEF RecvAgain
      <4>2. [thread[w] EXCEPT !.at = "reset"] \in Threads
        BY <1>t DEF Threads
      <4>. QED
        BY <1>t, <3>2, <4>1, <4>2 DEF RecvAgain, At, Threads
    <3>3. CASE RecvEnds(w)
      <4>1. thread' = [thread EXCEPT ![w] = [thread[w] EXCEPT !.at = "close"]]
        BY <1>t, <3>3 DEF RecvEnds
      <4>2. [thread[w] EXCEPT !.at = "close"] \in Threads
        BY <1>t DEF Threads
      <4>. QED
        BY <1>t, <3>3, <4>1, <4>2 DEF RecvEnds, At, Threads
    <3>. QED
      BY <1>1, <3>1, <3>2, <3>3
  <2>2. ~raced' => ~raced /\ thread'[w].sock = thread[w].for
    <3>1. CASE ReadArgument(w)
      BY <1>t, <3>1 DEF ReadArgument, Threads
    <3>2. CASE RecvAgain(w)
      <4>1. thread'[w].sock = thread[w].sock /\ raced' = raced
        BY <1>t, <3>2 DEF RecvAgain, others, Threads
      <4>. QED
        BY <3>2, <4>1, ThreadAt DEF RecvAgain
    <3>3. CASE RecvEnds(w)
      <4>1. thread'[w].sock = thread[w].sock /\ raced' = raced
        BY <1>t, <3>3 DEF RecvEnds, others, Threads
      <4>. QED
        BY <3>3, <4>1, ThreadAt DEF RecvEnds
    <3>. QED
      BY <1>1, <3>1, <3>2, <3>3
  <2>r. thread'[w].at \in {"reset", "close"} => thread'[w].sock \in Fds
    <3>1. CASE ReadArgument(w)
      BY <1>t, <3>1 DEF ReadArgument, Threads
    <3>2. CASE RecvAgain(w)
      BY <1>t, <3>2, ThreadAt DEF RecvAgain, Threads
    <3>3. CASE RecvEnds(w)
      BY <1>t, <3>3, ThreadAt DEF RecvEnds, Threads
    <3>. QED
      BY <1>1, <3>1, <3>2, <3>3
  <2>3. /\ UNCHANGED <<batch, cell, armed, lready, owner, link, backlog, unread, running, lost>>
        /\ raced' \in BOOLEAN
    BY <1>1 DEF IInv, TypeOK, ReadArgument, RecvAgain, RecvEnds, main, kernel, others
  <2>4. TypeOK'
    BY <2>1, <2>3 DEF IInv, TypeOK, Threads
  <2>5. Once'
    BY <2>3 DEF IInv, Once, Queued
  <2>6. Hands'
    <3>. SUFFICES ASSUME NEW v \in Workers PROVE Hired(v)'
      BY DEF Hands
    <3>1. Hired(v) /\ Hired(w)
      BY DEF IInv, Hands
    <3>2. CASE v = w
      BY <2>1, <2>2, <2>r, <3>1, <3>2 DEF Hired
    <3>3. CASE v # w
      BY <2>1, <2>2, <3>1, <3>3 DEF Hired
    <3>. QED
      BY <3>2, <3>3
  <2>7. Apart'
    <3>. SUFFICES ASSUME ~raced', NEW g \in Fds PROVE Placed(g)'
      BY DEF Apart
    <3>1. Placed(g)
      BY <2>2 DEF IInv, Apart
    <3>2. \A v \in Workers : thread'[v].for = thread[v].for
      BY <2>1
    <3>. QED
      BY <2>3, <3>1, <3>2 DEF Placed, Idle, Claimed
  <2>8. Ends'
    <3>1. CASE RecvEnds(w)
      <4>. SUFFICES ASSUME ~raced', NEW v \in Workers, thread'[v].at = "close"
                    PROVE  link'[owner'[thread'[v].for]] \in Ended
        BY DEF Ends
      <4>1. ~raced
        BY <2>2
      <4>2. CASE v = w
        <5>1. thread[w].for = thread[w].sock /\ link[Of(w)] \in Ended
          BY <3>1, <4>1, ThreadAt DEF RecvEnds, Ended
        <5>. QED
          BY <2>1, <2>3, <4>2, <5>1 DEF Of
      <4>3. CASE v # w
        BY <2>1, <2>3, <4>1, <4>3 DEF IInv, Ends
      <4>. QED
        BY <4>2, <4>3
    <3>2. CASE ReadArgument(w) \/ RecvAgain(w)
      <4>1. thread'[w].at # "close"
        BY <1>t, <3>2 DEF ReadArgument, RecvAgain, Threads
      <4>2. \A v \in Workers : thread'[v].at = "close" => thread'[v] = thread[v]
        BY <2>1, <4>1
      <4>. QED
        BY <2>2, <2>3, <4>2, EndsKept
    <3>. QED
      BY <1>1, <3>1, <3>2
  <2>. QED
    BY <2>4, <2>5, <2>6, <2>7, <2>8 DEF IInv
<1>2. CASE RecvData(w) \/ RecvError(w)
  <2>1. /\ UNCHANGED <<batch, cell, thread, armed, lready, owner, backlog, running, raced, lost>>
        /\ Of(w) \in Clients /\ link[Of(w)] # "none"
    BY <1>2, ThreadAt DEF RecvData, RecvError, main, kernel, others
  <2>2. unread' \in [Clients -> 0 .. MaxUnread]
    BY <1>2, <2>1, Basics DEF IInv, TypeOK, RecvData, RecvError
  <2>3. /\ link' \in [Clients -> {"none", "up", "fin", "rst", "dead", "closed"}]
        /\ \A d \in Clients : link'[d] = "none" <=> link[d] = "none"
    BY <1>2, <2>1 DEF IInv, TypeOK, RecvData, RecvError
  <2>4. TypeOK'
    BY <2>1, <2>2, <2>3 DEF IInv, TypeOK
  <2>5. Queued' = Queued /\ Queued \subseteq Clients
    BY <2>1 DEF Queued, IInv, TypeOK
  <2>6. Once'
    BY <2>1, <2>3, <2>5 DEF IInv, Once
  <2>7. Hands' /\ Apart'
    BY <2>1 DEF IInv, Hands, Hired, Apart, Placed, Idle, Claimed
  <2>8. \A d \in Clients : link[d] \in Ended => link'[d] \in Ended
    BY <1>2, <2>1 DEF IInv, TypeOK, RecvData, RecvError, Ended
  <2>9. Ends'
    BY <2>1, <2>8, EndsKept
  <2>. QED
    BY <2>4, <2>6, <2>7, <2>9 DEF IInv
<1>. QED
  BY <1>1, <1>2

(* The end of a thread gives its descriptor back to epoll, or closes it.   *)
LEMMA FinishKeeps ==
  ASSUME IInv, NEW w \in Workers, ResetOneshot(w) \/ CloseEnded(w)
  PROVE  IInv'
<1>1. /\ thread'[w].at = "none" /\ thread'[w].for = NULL
      /\ thread' \in [Workers -> Threads] /\ \A v \in Workers \ {w} : thread'[v] = thread[v]
  <2>1. thread' = [thread EXCEPT ![w] = [at |-> "none", sock |-> NULL, for |-> NULL]]
    BY DEF ResetOneshot, CloseEnded, Finish
  <2>2. [at |-> "none", sock |-> NULL, for |-> NULL] \in Threads
    BY DEF Threads
  <2>3. thread \in [Workers -> Threads]
    BY DEF IInv, TypeOK, Threads
  <2>. QED
    BY <2>1, <2>2, <2>3
<1>2. Hands'
  <2>. SUFFICES ASSUME NEW v \in Workers PROVE Hired(v)'
    BY DEF Hands
  <2>1. raced' = raced
    BY DEF ResetOneshot, CloseEnded, others
  <2>2. CASE v = w
    BY <1>1, <2>2 DEF Hired
  <2>3. CASE v # w
    BY <1>1, <2>1, <2>3 DEF IInv, Hands, Hired
  <2>. QED
    BY <2>2, <2>3
<1>3. CASE ResetOneshot(w)
  <2>1. /\ thread[w].at = "reset"
        /\ armed' = armed \cup {f \in {thread[w].sock} : owner[f] # NoClient}
        /\ UNCHANGED <<batch, cell, lready, owner, link, backlog, unread, running, raced, lost>>
    BY <1>3 DEF ResetOneshot, main, others
  <2>2. armed' \subseteq Fds
    BY <2>1 DEF IInv, TypeOK, Hands, Hired
  <2>3. TypeOK'
    BY <1>1, <2>1, <2>2 DEF IInv, TypeOK, Threads
  <2>4. Once'
    BY <2>1 DEF IInv, Once, Queued
  <2>5. Apart'
    <3>. SUFFICES ASSUME ~raced', NEW g \in Fds PROVE Placed(g)'
      BY DEF Apart
    <3>1. thread[w].sock = thread[w].for /\ thread[w].for \in Fds
      BY <2>1 DEF IInv, Hands, Hired
    <3>2. Placed(g) /\ Placed(thread[w].for)
      BY <2>1, <3>1 DEF IInv, Apart
    <3>3. Claimed(thread[w].for)
      BY <3>2 DEF Placed, Idle
    <3>4. armed' = armed \cup {thread[w].for}
      BY <2>1, <3>1, <3>3 DEF Claimed
    <3>5. g # NULL
      BY Basics
    <3>6. CASE g = thread[w].for
      BY <1>1, <2>1, <3>2, <3>3, <3>4, <3>5, <3>6 DEF Placed, Idle, Claimed
    <3>7. CASE g # thread[w].for
      BY <1>1, <2>1, <3>2, <3>4, <3>5, <3>7 DEF Placed, Idle, Claimed
    <3>. QED
      BY <3>6, <3>7
  <2>6. \A v \in Workers : thread'[v].at = "close" => thread'[v] = thread[v]
    BY <1>1
  <2>7. Ends'
    BY <2>1, <2>6, EndsKept
  <2>. QED
    BY <1>2, <2>3, <2>4, <2>5, <2>7 DEF IInv
<1>4. CASE CloseEnded(w)
  <2>. DEFINE f == thread[w].sock
  <2>1. f \in Fds /\ thread[w].at = "close" /\ (~raced => f = thread[w].for)
    BY <1>4 DEF CloseEnded, IInv, Hands, Hired
  <2>2. /\ owner' = [owner EXCEPT ![f] = NoClient] /\ armed' = armed \ {f}
        /\ link' = [c \in Clients |-> IF c = owner[f] THEN "closed" ELSE link[c]]
        /\ unread' = [c \in Clients |-> IF c = owner[f] THEN 0 ELSE unread[c]]
        /\ UNCHANGED <<batch, cell, lready, backlog, running, raced, lost>>
    BY <1>4 DEF CloseEnded, main, others
  <2>. HIDE DEF f
  <2>3. \A g \in Fds : owner'[g] = IF g = f THEN NoClient ELSE owner[g]
    BY <2>1, <2>2 DEF IInv, TypeOK
  <2>4. TypeOK'
    <3>1. 0 \in 0 .. MaxUnread
      BY Basics
    <3>2. unread' \in [Clients -> 0 .. MaxUnread]
      BY <2>2, <3>1 DEF IInv, TypeOK
    <3>3. /\ link' \in [Clients -> {"none", "up", "fin", "rst", "dead", "closed"}]
          /\ owner' \in [Fds -> Clients \cup {NoClient}]
      BY <2>1, <2>2 DEF IInv, TypeOK
    <3>. QED
      BY <1>1, <2>1, <2>2, <3>2, <3>3 DEF IInv, TypeOK, Threads
  <2>5. Queued' = Queued /\ Queued \subseteq Clients
    BY <2>2 DEF Queued, IInv, TypeOK
  <2>6. \A d \in Clients : link'[d] = IF d = owner[f] THEN "closed" ELSE link[d]
    BY <2>2
  <2>7. Once'
    BY <2>1, <2>2, <2>3, <2>5, <2>6, Basics DEF IInv, Once
  <2>8. Apart'
    <3>. SUFFICES ASSUME ~raced', NEW g \in Fds PROVE Placed(g)'
      BY DEF Apart
    <3>1. Placed(g) /\ Placed(f) /\ thread[w].for = f
      BY <2>1, <2>2 DEF IInv, Apart
    <3>2. g # NULL
      BY Basics
    <3>3. CASE g = f
      BY <1>1, <2>2, <2>3, <3>1, <3>2, <3>3 DEF Placed, Idle, Claimed
    <3>4. CASE g # f
      BY <1>1, <2>2, <2>3, <3>1, <3>2, <3>4 DEF Placed, Idle, Claimed
    <3>. QED
      BY <3>3, <3>4
  <2>9. Ends'
    <3>. SUFFICES ASSUME ~raced', NEW v \in Workers, thread'[v].at = "close"
                  PROVE  link'[owner'[thread'[v].for]] \in Ended
      BY DEF Ends
    <3>1. ~raced /\ v # w /\ thread'[v] = thread[v] /\ thread[v].at = "close"
      BY <1>1, <2>2
    <3>2. thread[v].for \in Fds /\ owner[thread[v].for] \in Clients /\ thread[v].for # f
      BY <2>1, <3>1, Closing
    <3>3. owner[thread[v].for] # owner[f] /\ link[owner[thread[v].for]] \in Ended
      BY <2>1, <3>1, <3>2 DEF IInv, Once, Ends
    <3>. QED
      BY <2>3, <2>6, <3>1, <3>2, <3>3
  <2>. QED
    BY <1>2, <2>4, <2>7, <2>8, <2>9 DEF IInv
<1>. QED
  BY <1>3, <1>4

-----------------------------------------------------------------------------
(* The types and the places hold together in every reachable state.        *)
THEOREM Invariance == Spec => []IInv
<1>1. IInv /\ [Next]_vars => IInv'
  <2>. SUFFICES ASSUME IInv, [Next]_vars PROVE IInv'
    OBVIOUS
  <2>1. CASE UNCHANGED vars
    BY <2>1 DEF IInv, TypeOK, Once, Queued, Hands, Hired, Apart, Placed, Idle, Claimed, Ends, vars
  <2>5. CASE WaitFails
    BY <2>5, WaitFailsKeeps
  <2>2. CASE MainStep
    BY <2>2, WaitKeeps, AcceptKeeps, StartKeeps DEF MainStep
  <2>3. ASSUME NEW w \in Workers, WorkerStep(w) PROVE IInv'
    BY <2>3, ThreadKeeps, FinishKeeps DEF WorkerStep
  <2>4. ASSUME NEW c \in Clients, ClientStep(c) PROVE IInv'
    BY <2>4, ClientKeeps
  <2>. QED
    BY <2>1, <2>2, <2>3, <2>4, <2>5 DEF Next
<1>. QED
  BY InitInv, <1>1, PTL DEF Spec

(* Every variable keeps its type.                                          *)
THEOREM Typing == Spec => []TypeOK
<1>1. IInv => TypeOK
  BY DEF IInv
<1>. QED
  BY Invariance, <1>1, PTL

(* What EPOLLONESHOT and reset_onshot promise holds until a thread reads   *)
(* another's cell: every open connection is in exactly one place           *)
(* (HandedOver; lines 67-77, 193-223).                                     *)
THEOREM OnePlace == Spec => []HandedOver
<1>1. IInv => HandedOver
  <2>. SUFFICES ASSUME IInv, ~raced PROVE HandedOver
    BY DEF HandedOver
  <2>1. ASSUME NEW f \in Fds
        PROVE  Cardinality(Places(f)) = IF owner[f] = NoClient THEN 0 ELSE 1
    <3>1. Placed(f)
      BY DEF IInv, Apart
    <3>2. CASE owner[f] = NoClient
      <4>1. Places(f) = {}
        BY <3>1, <3>2, Basics DEF Placed, Idle, Claimed, Places, Working, IInv, TypeOK
      <4>. QED
        BY <3>2, <4>1, FS_EmptySet
    <3>3. CASE owner[f] # NoClient
      <4>1. \E x : Places(f) = {x}
        <5>1. CASE f \in armed
          <6>1. Places(f) = {<<"epoll", f>>}
            BY <3>1, <5>1 DEF Placed, Idle, Claimed, Places, Working
          <6>. QED
            BY <6>1
        <5>2. CASE f \in batch
          <6>1. Places(f) = {<<"main", f>>}
            BY <3>1, <5>2 DEF Placed, Idle, Claimed, Places, Working
          <6>. QED
            BY <6>1
        <5>3. CASE ~Idle(f)
          <6>1. PICK w \in Workers : thread[w].for = f
            BY <5>3 DEF Idle
          <6>2. Places(f) = {<<"thread", w>>}
            BY <3>1, <5>3, <6>1 DEF Placed, Idle, Claimed, Places, Working
          <6>. QED
            BY <6>2
        <5>4. CASE owner[f] \in lost
          <6>1. Places(f) = {<<"nobody", f>>}
            BY <3>1, <5>4 DEF Placed, Idle, Claimed, Places, Working
          <6>. QED
            BY <6>1
        <5>. QED
          BY <3>1, <3>3, <5>1, <5>2, <5>3, <5>4 DEF Placed
      <4>. QED
        BY <3>3, <4>1, FS_Singleton
    <3>. QED
      BY <3>2, <3>3
  <2>2. ASSUME NEW w \in Workers, thread[w].at \in {"recv", "reset", "close"}
        PROVE  thread[w].sock = thread[w].for /\ owner[thread[w].for] # NoClient
    <3>1. thread[w].sock = thread[w].for /\ thread[w].for \in Fds
      BY <2>2 DEF IInv, Hands, Hired
    <3>2. Placed(thread[w].for)
      BY <3>1 DEF IInv, Apart
    <3>. QED
      BY <3>1, <3>2 DEF Placed, Idle, Claimed
  <2>. QED
    BY <2>1, <2>2 DEF HandedOver
<1>. QED
  BY Invariance, <1>1, PTL

-----------------------------------------------------------------------------
(* The abstract room.                                                      *)

(* accept finds a free descriptor only while the connections are fewer     *)
(* than the descriptors.                                                   *)
LEMMA PlaceLeft ==
  ASSUME TypeOK, FreeFds # {}
  PROVE  Cardinality(Members) < Cardinality(Fds)
<1>. DEFINE Taken == Fds \ FreeFds
            connection == [f \in Taken |-> owner[f]]
<1>1. IsFiniteSet(Fds)
  BY OneShotAssumption
<1>2. Taken \subseteq Fds /\ Taken # Fds
  BY DEF FreeFds
<1>3. IsFiniteSet(Taken) /\ Cardinality(Taken) < Cardinality(Fds)
  <2>1. /\ IsFiniteSet(Taken) /\ Cardinality(Taken) <= Cardinality(Fds)
        /\ Cardinality(Taken) # Cardinality(Fds)
    BY <1>1, <1>2, FS_Subset
  <2>2. Cardinality(Taken) \in Nat /\ Cardinality(Fds) \in Nat
    BY <1>1, <2>1, FS_CardinalityType
  <2>. QED
    BY <2>1, <2>2
<1>4. connection \in Surjection(Taken, Members)
  BY DEF Surjection, Members, FreeFds
<1>. HIDE DEF Taken, connection
<1>5. IsFiniteSet(Members) /\ Cardinality(Members) <= Cardinality(Taken)
  BY <1>3, <1>4, FS_Surjection
<1>6. /\ Cardinality(Members) \in Nat /\ Cardinality(Taken) \in Nat
      /\ Cardinality(Fds) \in Nat
  BY <1>1, <1>3, <1>5, FS_CardinalityType
<1>. QED
  BY <1>3, <1>5, <1>6

(* The abstract module's own copy of the FiniteSets operator is the same.  *)
LEMMA SameCardinality == \A S : Room!Cardinality(S) = Cardinality(S)
BY DEF Cardinality, Room!Cardinality

LEMMA InitRoom ==
  ASSUME Init
  PROVE  Room!RoomInit
BY DEF Init, Room!RoomInit, Members, Hung, Ended

(* What the clients do.                                                    *)
LEMMA ClientRoom ==
  ASSUME IInv, NEW c \in Clients, ClientStep(c)
  PROVE  [Room!RoomNext]_(Room!roomVars)
<1>. USE DEF Room!roomVars
<1>1. CASE Connect(c)
  <2>1. /\ link[c] = "none" /\ link' = [link EXCEPT ![c] = "up"]
        /\ backlog' = Append(backlog, c) /\ owner' = owner
    BY <1>1 DEF Connect
  <2>2. c \notin Members \cup Queued
    BY <2>1, Basics DEF IInv, Once, Members
  <2>3. Members' = Members /\ Hung' = Hung
    BY <2>1 DEF Members, Hung, Ended, IInv, TypeOK
  <2>4. Room!Waiting = Queued
    BY DEF Room!Waiting, Queued
  <2>. QED
    BY <2>1, <2>2, <2>3, <2>4 DEF Room!RoomNext, Room!Arrive, Hung
<1>2. CASE Say(c)
  BY <1>2 DEF Say, kernel, Members, Hung
<1>3. CASE Leave(c) \/ Reset(c)
  <2>1. /\ Members' = Members /\ backlog' = backlog
        /\ link[c] \in {"up", "fin"} /\ (\E how \in Ended : link' = [link EXCEPT ![c] = how])
    BY <1>3 DEF Leave, Reset, kernel, Members, Ended
  <2>2. Hung' = Hung \cup {c} /\ (c \in Hung <=> link[c] = "fin")
    BY <2>1 DEF Hung, Ended, IInv, TypeOK
  <2>3. CASE c \in Hung
    <3>1. Hung' = Hung
      BY <2>2, <2>3
    <3>. QED
      BY <2>1, <3>1 DEF Hung
  <2>4. CASE c \notin Hung
    BY <2>1, <2>2, <2>4 DEF Room!RoomNext, Room!HangUp, Hung
  <2>. QED
    BY <2>3, <2>4
<1>. QED
  BY <1>1, <1>2, <1>3 DEF ClientStep

(* Every step of the server is a step of the room, or leaves it as it is.  *)
(* A thread closes whom it has seen the end of, as long as no thread has   *)
(* read another's cell; after that, a close may strike anybody.            *)
LEMMA StepRoom ==
  ASSUME IInv, [Next]_vars
  PROVE  [Room!RoomNext \/ (raced /\ Struck)]_(Room!roomVars)
<1>. USE DEF Room!roomVars
<1>1. CASE UNCHANGED <<owner, backlog, link>>
  BY <1>1 DEF Members, Hung
<1>2. CASE UNCHANGED vars \/ Wait \/ WaitFails \/ AcceptFails
  BY <1>1, <1>2 DEF vars, Wait, Reported, WaitFails, AcceptFails, kernel
<1>3. ASSUME NEW f, StartFails(f) \/ \E w \in Workers : StartWorker(f, w)
      PROVE  [Room!RoomNext \/ (raced /\ Struck)]_(Room!roomVars)
  BY <1>1, <1>3 DEF StartFails, StartWorker, kernel
<1>4. CASE AcceptConn
  <2>1. PICK connfd \in FreeFds :
          /\ owner' = [owner EXCEPT ![connfd] = Head(backlog)]
          /\ backlog # <<>> /\ backlog' = Tail(backlog) /\ link' = link
    BY <1>4, LowestFree DEF AcceptConn
  <2>2. Head(backlog) \in Clients
    BY <2>1, TailQueue DEF IInv
  <2>3. Members' = Members \cup {Head(backlog)}
    <3>1. connfd \in Fds /\ owner[connfd] = NoClient
      BY DEF FreeFds
    <3>2. \A f \in Fds : owner'[f] = IF f = connfd THEN Head(backlog) ELSE owner[f]
      BY <2>1, <3>1 DEF IInv, TypeOK
    <3>. QED
      BY <2>2, <3>1, <3>2, Basics DEF Members
  <2>4. Cardinality(Members) < Cardinality(Fds)
    BY PlaceLeft DEF IInv
  <2>5. Room!Admit
    BY <2>1, <2>3, <2>4, SameCardinality DEF Room!Admit, Hung
  <2>. QED
    BY <2>5 DEF Room!RoomNext
<1>5. ASSUME NEW w \in Workers, WorkerStep(w)
      PROVE  [Room!RoomNext \/ (raced /\ Struck)]_(Room!roomVars)
  <2>1. CASE ReadArgument(w) \/ RecvData(w) \/ RecvAgain(w) \/ RecvEnds(w) \/ ResetOneshot(w)
    BY <1>1, <2>1 DEF ReadArgument, RecvData, RecvAgain, RecvEnds, ResetOneshot, kernel
  <2>2. CASE RecvError(w)
    <3>1. /\ owner' = owner /\ backlog' = backlog
          /\ link[Of(w)] = "rst" /\ link' = [link EXCEPT ![Of(w)] = "dead"]
      BY <2>2 DEF RecvError, kernel
    <3>2. Hung' = Hung
      BY <3>1 DEF Hung, Ended, IInv, TypeOK
    <3>. QED
      BY <3>1, <3>2 DEF Members, Hung
  <2>3. CASE CloseEnded(w)
    <3>. DEFINE f == thread[w].sock
                c == owner[f]
    <3>1. f \in Fds /\ thread[w].at = "close"
      BY <2>3 DEF CloseEnded, IInv, Hands, Hired
    <3>2. /\ owner' = [owner EXCEPT ![f] = NoClient] /\ backlog' = backlog
          /\ link' = [d \in Clients |-> IF d = c THEN "closed" ELSE link[d]]
      BY <2>3 DEF CloseEnded
    <3>3. ~raced => c \in Clients /\ link[c] \in Ended
      BY <3>1, Closing DEF IInv, Ends
    <3>4. c \in Clients \cup {NoClient}
      BY <3>1 DEF IInv, TypeOK
    <3>. HIDE DEF f
    <3>5. CASE c = NoClient
      <4>1. link' = link /\ owner' = owner
        BY <3>1, <3>2, <3>5, Basics DEF IInv, TypeOK
      <4>. QED
        BY <1>1, <3>2, <4>1
    <3>6. CASE c \in Clients
      <4>1. \A g \in Fds : owner'[g] = IF g = f THEN NoClient ELSE owner[g]
        BY <3>1, <3>2 DEF IInv, TypeOK
      <4>2. \A g \in Fds : owner[g] = c => g = f
        BY <3>1, <3>6 DEF IInv, Once
      <4>3. c \in Members /\ Members' = Members \ {c}
        BY <3>1, <3>6, <4>1, <4>2, Basics DEF Members
      <4>4. Hung' = Hung \ {c}
        BY <3>2, <3>6 DEF Hung, Ended
      <4>. HIDE DEF c
      <4>5. CASE raced
        BY <3>2, <4>3, <4>4, <4>5 DEF Struck
      <4>6. CASE ~raced
        <5>1. c \in Hung
          BY <3>3, <4>6 DEF Hung
        <5>. QED
          BY <3>2, <3>6, <4>3, <4>4, <5>1 DEF Room!RoomNext, Room!Remove
      <4>. QED
        BY <4>5, <4>6
    <3>. QED
      BY <3>4, <3>5, <3>6
  <2>. QED
    BY <1>5, <2>1, <2>2, <2>3 DEF WorkerStep
<1>. QED
  BY <1>2, <1>3, <1>4, <1>5, ClientRoom DEF Next, MainStep

(* The one-shot server serves the abstract room, of as many places as      *)
(* there are descriptors: nobody is closed who has not hung up until a     *)
(* thread reads another's cell, and even then no more goes wrong than that *)
(* a close may strike a connection that is still in use (ImplementsRoom;   *)
(* lines 80-117, 203-223).                                                 *)
THEOREM Implementation == Spec => ImplementsRoom
<1>. QED
  BY InitRoom, StepRoom, Invariance, PTL DEF Spec, ImplementsRoom
=============================================================================
