---------------------------- MODULE LineEcho_proofs ----------------------------
(***************************************************************************)
(* The inductive invariant of LineEcho, and what follows from it for any   *)
(* number of clients and connections and any length of the lines.          *)
(***************************************************************************)
EXTENDS LineEcho, FiniteSetTheorems, TLAPS

(* What a client has said and not yet been answered is in its socket, in   *)
(* input or, a line in one piece, in output.                               *)
Kept(c) == unread[c] + input[c] + output[c] * LineLen <= MaxPieces
NothingGrows == \A c \in Clients : Kept(c)

IInv == TypeOK /\ CallsFindTheirCause /\ NothingGrows

LEMMA Sizes == MaxConns \in Nat \ {0} /\ LineLen \in Nat \ {0} /\ MaxPieces \in Nat \ {0}
BY EchoAssumption

(* The arithmetic of the answers: one more, n fewer, and how many there    *)
(* can be.                                                                 *)
LEMMA Answers ==
  ASSUME NEW o \in Nat
  PROVE  /\ (o + 1) * LineLen = o * LineLen + LineLen
         /\ o * LineLen \in Nat /\ o <= o * LineLen
         /\ \A n \in Nat : n <= o => (o - n) * LineLen <= o * LineLen /\ (o - n) * LineLen \in Nat
<1>1. LineLen \in Nat /\ LineLen >= 1
  BY Sizes
<1>2. (o + 1) * LineLen = o * LineLen + LineLen
  BY <1>1
<1>3. o * LineLen \in Nat /\ o <= o * LineLen
  BY <1>1
<1>4. ASSUME NEW n \in Nat, n <= o
      PROVE  (o - n) * LineLen <= o * LineLen /\ (o - n) * LineLen \in Nat
  BY <1>1, <1>4
<1>. QED
  BY <1>2, <1>3, <1>4

(* What a client has where, as numbers; k stands for the pieces answered.  *)
LEMMA Amounts ==
  ASSUME IInv, NEW c \in Clients
  PROVE  \E k \in Nat :
           /\ k = output[c] * LineLen /\ output[c] <= k
           /\ input[c] \in Nat /\ output[c] \in Nat /\ unread[c] \in Nat
           /\ unread[c] + input[c] + k <= MaxPieces
<1>1. input[c] \in Nat /\ output[c] \in Nat /\ unread[c] \in Nat
  BY Sizes DEF IInv, TypeOK
<1>2. output[c] * LineLen \in Nat /\ output[c] <= output[c] * LineLen
  BY <1>1, Answers
<1>3. unread[c] + input[c] + output[c] * LineLen <= MaxPieces
  BY DEF IInv, NothingGrows, Kept
<1>. QED
  BY <1>1, <1>2, <1>3

(* An event of the listening socket is none of a connection's.             *)
LEMMA EventsApart ==
  ASSUME NEW c, NEW d
  PROVE  /\ accept_event # <<c, "read">> /\ accept_event # <<c, "write">>
         /\ <<c, "read">> # <<d, "write">>
         /\ <<c, "read">> = <<d, "read">> => c = d
         /\ <<c, "write">> = <<d, "write">> => c = d
BY DEF accept_event

LEMMA InitInv == Init => IInv
<1>. SUFFICES ASSUME Init PROVE IInv
  OBVIOUS
<1>1. 0 \in 0 .. MaxPieces
  BY Sizes
<1>2. TypeOK
  BY <1>1 DEF Init, TypeOK
<1>3. CallsFindTheirCause
  BY DEF Init, CallsFindTheirCause
<1>4. NothingGrows
  BY Sizes DEF Init, NothingGrows, Kept
<1>. QED
  BY <1>2, <1>3, <1>4 DEF IInv

(* The clients.                                                            *)
LEMMA WorldKeeps ==
  ASSUME IInv, NEW c \in Clients, ClientStep(c)
  PROVE  IInv'
<1>1. CASE Connect(c)
  <2>1. TypeOK'
    BY <1>1 DEF IInv, TypeOK, Connect, buffers
  <2>2. backlog' # <<>>
    <3>1. backlog \in Seq(Clients) /\ backlog' = Append(backlog, c)
      BY <1>1 DEF IInv, TypeOK, Connect
    <3>2. Len(backlog') = Len(backlog) + 1 /\ Len(backlog) \in Nat
      BY <3>1
    <3>3. Len(<<>>) = 0
      OBVIOUS
    <3>. QED
      BY <3>2, <3>3
  <2>3. CallsFindTheirCause'
    BY <1>1, <2>2 DEF IInv, TypeOK, CallsFindTheirCause, Connect, buffers, Gone
  <2>4. NothingGrows'
    BY <1>1 DEF IInv, NothingGrows, Kept, Connect, buffers
  <2>. QED
    BY <2>1, <2>3, <2>4 DEF IInv
<1>2. CASE Say(c)
  <2>1. PICK k \in Nat : /\ k = output[c] * LineLen
                         /\ input[c] \in Nat /\ unread[c] \in Nat
    BY Amounts
  <2>2. /\ unread' = [unread EXCEPT ![c] = @ + 1]
        /\ UNCHANGED <<limit, running, bufs, active, input, output, link, backlog, room>>
        /\ unread[c] + input[c] + k < MaxPieces
    BY <1>2, <2>1 DEF Say, buffers
  <2>3. unread[c] + 1 \in 1 .. MaxPieces /\ unread[c] + 1 + input[c] + k <= MaxPieces
    BY <2>1, <2>2, Sizes
  <2>4. unread \in [Clients -> 0 .. MaxPieces]
    BY DEF IInv, TypeOK
  <2>5. unread' \in [Clients -> 0 .. MaxPieces] /\ unread'[c] = unread[c] + 1
    BY <2>2, <2>3, <2>4
  <2>6. TypeOK'
    BY <2>2, <2>5 DEF IInv, TypeOK
  <2>7. CallsFindTheirCause'
    <3>1. \A d \in Clients : unread[d] > 0 => unread'[d] > 0
      BY <2>2, <2>3, <2>4
    <3>. QED
      BY <2>2, <3>1 DEF IInv, CallsFindTheirCause
  <2>8. Kept(c)'
    BY <2>1, <2>2, <2>3, <2>5 DEF Kept
  <2>9. NothingGrows'
    BY <2>2, <2>4, <2>8 DEF IInv, NothingGrows, Kept
  <2>. QED
    BY <2>6, <2>7, <2>9 DEF IInv
<1>3. CASE Leave(c)
  <2>1. TypeOK'
    BY <1>3 DEF IInv, TypeOK, Leave, buffers, Gone
  <2>2. CallsFindTheirCause'
    BY <1>3 DEF IInv, TypeOK, CallsFindTheirCause, Leave, buffers, Gone
  <2>3. NothingGrows'
    BY <1>3 DEF IInv, NothingGrows, Kept, Leave, buffers
  <2>. QED
    BY <2>1, <2>2, <2>3 DEF IInv
<1>4. CASE Reset(c)
  <2>1. PICK left \in {0, unread[c]} : unread' = [unread EXCEPT ![c] = left]
    BY <1>4 DEF Reset
  <2>2. left \in 0 .. MaxPieces /\ left <= unread[c]
    BY <2>1, Sizes DEF IInv, TypeOK
  <2>3. link' = [link EXCEPT ![c] = link'[c]] /\ link'[c] \in Gone
    BY <1>4 DEF IInv, TypeOK, Reset, Gone
  <2>4. TypeOK'
    BY <1>4, <2>1, <2>2, <2>3 DEF IInv, TypeOK, Reset, buffers
  <2>5. CallsFindTheirCause'
    BY <1>4, <2>1, <2>3 DEF IInv, TypeOK, CallsFindTheirCause, Reset, buffers
  <2>6. Kept(c)'
    <3>1. PICK k \in Nat : /\ k = output[c] * LineLen
                           /\ input[c] \in Nat /\ unread[c] \in Nat
                           /\ unread[c] + input[c] + k <= MaxPieces
      BY Amounts
    <3>2. left + input[c] + k <= MaxPieces
      BY <2>2, <3>1, Sizes
    <3>3. unread'[c] = left /\ UNCHANGED <<input, output>>
      BY <1>4, <2>1 DEF IInv, TypeOK, Reset, buffers
    <3>. QED
      BY <3>1, <3>2, <3>3 DEF Kept
  <2>7. NothingGrows'
    BY <1>4, <2>1, <2>6 DEF IInv, TypeOK, NothingGrows, Kept, Reset, buffers
  <2>. QED
    BY <2>4, <2>5, <2>7 DEF IInv
<1>5. CASE Drain(c)
  BY <1>5 DEF IInv, TypeOK, CallsFindTheirCause, NothingGrows, Kept, Drain, buffers
<1>. QED
  BY <1>1, <1>2, <1>3, <1>4, <1>5 DEF ClientStep

(* event_dispatch, and what the listening socket's event leads to.         *)
LEMMA DispatchKeeps ==
  ASSUME IInv, Dispatch \/ accept_callback \/ AcceptFails
  PROVE  IInv'
<1>1. CASE Dispatch
  <2>1. /\ active' = Ready
        /\ UNCHANGED <<limit, running, bufs, input, output, link, backlog, unread, room>>
    BY <1>1 DEF Dispatch, buffers, net
  <2>2. Ready \in SUBSET ({accept_event} \cup (Clients \X {"read", "write"}))
    BY DEF IInv, TypeOK, Ready
  <2>3. TypeOK'
    BY <2>1, <2>2 DEF IInv, TypeOK
  <2>4. /\ accept_event \in Ready => backlog # <<>>
        /\ \A c \in Clients :
             /\ <<c, "read">> \in Ready => c \in bufs /\ (unread[c] > 0 \/ link[c] \in Gone)
             /\ <<c, "write">> \in Ready => c \in bufs /\ output[c] > 0
    BY EventsApart DEF Ready
  <2>5. CallsFindTheirCause'
    BY <2>1, <2>4 DEF CallsFindTheirCause
  <2>6. NothingGrows'
    BY <2>1 DEF IInv, NothingGrows, Kept
  <2>. QED
    BY <2>3, <2>5, <2>6 DEF IInv
<1>2. CASE accept_callback
  <2>1. backlog # <<>> /\ backlog \in Seq(Clients)
    BY <1>2 DEF IInv, TypeOK, CallsFindTheirCause, accept_callback
  <2>2. Head(backlog) \in Clients /\ Tail(backlog) \in Seq(Clients)
    BY <2>1
  <2>3. /\ backlog' = Tail(backlog) /\ bufs' = bufs \cup {Head(backlog)}
        /\ active' = active \ {accept_event}
        /\ UNCHANGED <<limit, running, input, output, link, unread, room>>
    BY <1>2 DEF accept_callback, Called, buffers
  <2>4. TypeOK'
    BY <2>2, <2>3 DEF IInv, TypeOK
  <2>5. CallsFindTheirCause'
    BY <2>3 DEF IInv, CallsFindTheirCause
  <2>6. NothingGrows'
    BY <2>3 DEF IInv, NothingGrows, Kept
  <2>. QED
    BY <2>4, <2>5, <2>6 DEF IInv
<1>3. CASE AcceptFails
  BY <1>3 DEF IInv, TypeOK, CallsFindTheirCause, NothingGrows, Kept, AcceptFails, Called, buffers,
              net
<1>. QED
  BY <1>1, <1>2, <1>3

(* The callbacks of a bufferevent, and the signal.                         *)
LEMMA CallbackKeeps ==
  ASSUME IInv, NEW c \in Clients, NEW n \in 1 .. MaxPieces,
         \/ buf_read_callback(c, n) \/ buf_write_callback(c, n)
         \/ buf_error_callback(c) \/ SendKills(c)
  PROVE  IInv'
<1>t. /\ input[c] \in Nat /\ output[c] \in Nat /\ unread[c] \in Nat /\ n \in Nat /\ n >= 1
      /\ output[c] * LineLen \in Nat /\ output[c] <= output[c] * LineLen
      /\ unread[c] + input[c] + output[c] * LineLen <= MaxPieces
  BY Answers, Sizes DEF IInv, TypeOK, NothingGrows, Kept
<1>1. CASE buf_read_callback(c, n)
  <2>1. /\ n <= unread[c] /\ unread' = [unread EXCEPT ![c] = @ - n]
        /\ active' = active \ {<<c, "read">>}
        /\ UNCHANGED <<limit, running, bufs, link, backlog, room>>
    BY <1>1 DEF buf_read_callback, Take, Called
  <2>2. /\ input' = [input EXCEPT ![c] = input'[c]] /\ output' = [output EXCEPT ![c] = output'[c]]
        /\ input'[c] \in Nat /\ output'[c] \in Nat /\ output'[c] >= output[c]
        /\ input'[c] + output'[c] * LineLen = input[c] + n + output[c] * LineLen
    <3>1. CASE input[c] + n >= LineLen
      <4>1. /\ input' = [input EXCEPT ![c] = input[c] + n - LineLen]
            /\ output' = [output EXCEPT ![c] = output[c] + 1]
        BY <1>1, <3>1 DEF buf_read_callback
      <4>2. input'[c] = input[c] + n - LineLen /\ output'[c] = output[c] + 1
        BY <4>1 DEF IInv, TypeOK
      <4>3. input'[c] \in Nat /\ output'[c] \in Nat /\ output'[c] >= output[c]
        BY <1>t, <3>1, <4>2, Sizes
      <4>4. (output[c] + 1) * LineLen = output[c] * LineLen + LineLen
        BY <1>t, Answers
      <4>5. input'[c] + output'[c] * LineLen = input[c] + n + output[c] * LineLen
        BY <1>t, <4>2, <4>4, Sizes
      <4>. QED
        BY <4>1, <4>2, <4>3, <4>5
    <3>2. CASE ~(input[c] + n >= LineLen)
      <4>1. input' = [input EXCEPT ![c] = input[c] + n] /\ output' = output
        BY <1>1, <3>2 DEF buf_read_callback
      <4>2. input'[c] = input[c] + n /\ output'[c] = output[c]
        BY <4>1 DEF IInv, TypeOK
      <4>3. output' = [output EXCEPT ![c] = output'[c]] /\ input' = [input EXCEPT ![c] = input'[c]]
        BY <4>1, <4>2 DEF IInv, TypeOK
      <4>4. output'[c] * LineLen = output[c] * LineLen
        BY <4>2
      <4>5. input'[c] \in Nat /\ output'[c] \in Nat /\ output'[c] >= output[c]
        BY <1>t, <4>2
      <4>6. input'[c] + output'[c] * LineLen = input[c] + n + output[c] * LineLen
        BY <4>2, <4>4
      <4>. QED
        BY <4>3, <4>5, <4>6
    <3>. QED
      BY <3>1, <3>2
  <2>3. /\ input'[c] \in 0 .. MaxPieces /\ output'[c] \in 0 .. MaxPieces
        /\ unread[c] - n \in 0 .. MaxPieces
        /\ unread[c] - n + input'[c] + output'[c] * LineLen <= MaxPieces
    <3>1. PICK k \in Nat : k = output'[c] * LineLen /\ output'[c] <= k
      BY <2>2, Answers
    <3>2. input'[c] + k = input[c] + n + output[c] * LineLen
      BY <2>2, <3>1
    <3>3. PICK m \in Nat : m = output[c] * LineLen
      BY <1>t
    <3>4. unread[c] - n + input'[c] + k <= MaxPieces
      BY <1>t, <2>1, <2>2, <3>1, <3>2, <3>3, Sizes
    <3>. QED
      BY <1>t, <2>1, <2>2, <3>1, <3>4, Sizes
  <2>4. TypeOK'
    BY <2>1, <2>2, <2>3 DEF IInv, TypeOK
  <2>5. CallsFindTheirCause'
    <3>1. accept_event \in active' => backlog' # <<>>
      BY <2>1 DEF IInv, CallsFindTheirCause
    <3>2. ASSUME NEW d \in Clients, <<d, "read">> \in active'
          PROVE  d \in bufs' /\ (unread'[d] > 0 \/ link'[d] \in Gone)
      <4>1. d # c /\ <<d, "read">> \in active
        BY <2>1, <3>2
      <4>. QED
        BY <2>1, <4>1 DEF IInv, TypeOK, CallsFindTheirCause
    <3>3. ASSUME NEW d \in Clients, <<d, "write">> \in active'
          PROVE  d \in bufs' /\ output'[d] > 0
      <4>1. d \in bufs /\ output[d] > 0
        BY <2>1, <3>3 DEF IInv, CallsFindTheirCause
      <4>2. d # c => output'[d] = output[d]
        BY <2>2 DEF IInv, TypeOK
      <4>3. output'[d] > 0
        BY <1>t, <2>2, <4>1, <4>2
      <4>. QED
        BY <2>1, <4>1, <4>3
    <3>. QED
      BY <3>1, <3>2, <3>3 DEF CallsFindTheirCause
  <2>6. Kept(c)'
    BY <2>1, <2>2, <2>3 DEF IInv, TypeOK, Kept
  <2>7. NothingGrows'
    BY <2>1, <2>2, <2>6 DEF IInv, TypeOK, NothingGrows, Kept
  <2>. QED
    BY <2>4, <2>5, <2>7 DEF IInv
<1>2. CASE buf_write_callback(c, n)
  <2>1. /\ n <= output[c] /\ output' = [output EXCEPT ![c] = @ - n]
        /\ active' = active \ {<<c, "write">>}
        /\ UNCHANGED <<limit, running, bufs, input, link, backlog, unread>>
    BY <1>2 DEF buf_write_callback, Called
  <2>2. room' \in [Clients -> BOOLEAN]
    BY <1>2 DEF IInv, TypeOK, buf_write_callback
  <2>3. output[c] - n \in 0 .. MaxPieces
    BY <1>t, <2>1, Sizes
  <2>4. TypeOK'
    BY <2>1, <2>2, <2>3 DEF IInv, TypeOK
  <2>5. CallsFindTheirCause'
    BY <2>1, EventsApart DEF IInv, TypeOK, CallsFindTheirCause
  <2>6. Kept(c)'
    <3>1. (output[c] - n) * LineLen <= output[c] * LineLen /\ (output[c] - n) * LineLen \in Nat
      BY <1>t, <2>1, Answers
    <3>2. output'[c] = output[c] - n /\ unread' = unread /\ input' = input
      BY <2>1 DEF IInv, TypeOK
    <3>3. unread[c] + input[c] + (output[c] - n) * LineLen <= MaxPieces
      <4>1. PICK k \in Nat : k = output[c] * LineLen
        BY <1>t
      <4>2. PICK m \in Nat : m = (output[c] - n) * LineLen
        BY <3>1
      <4>. QED
        BY <1>t, <3>1, <4>1, <4>2, Sizes
    <3>. QED
      BY <3>2, <3>3 DEF Kept
  <2>7. NothingGrows'
    BY <2>1, <2>6 DEF IInv, TypeOK, NothingGrows, Kept
  <2>. QED
    BY <2>4, <2>5, <2>7 DEF IInv
<1>3. CASE buf_error_callback(c)
  <2>1. /\ bufs' = bufs \ {c} /\ active' = active \ {<<c, "read">>, <<c, "write">>}
        /\ input' = [input EXCEPT ![c] = 0] /\ output' = [output EXCEPT ![c] = 0]
        /\ link' = [link EXCEPT ![c] = "closed"]
        /\ UNCHANGED <<limit, running, backlog, unread, room>>
    BY <1>3 DEF buf_error_callback
  <2>2. TypeOK'
    BY <2>1, Sizes DEF IInv, TypeOK
  <2>3. CallsFindTheirCause'
    BY <2>1 DEF IInv, TypeOK, CallsFindTheirCause
  <2>4. Kept(c)'
    BY <1>t, <2>1, Sizes DEF IInv, TypeOK, Kept
  <2>5. NothingGrows'
    BY <2>1, <2>4 DEF IInv, TypeOK, NothingGrows, Kept
  <2>. QED
    BY <2>2, <2>3, <2>5 DEF IInv
<1>4. CASE SendKills(c)
  BY <1>4 DEF IInv, TypeOK, CallsFindTheirCause, NothingGrows, Kept, SendKills, buffers, net
<1>. QED
  BY <1>1, <1>2, <1>3, <1>4

(* What is kept, and what each call is made for, in every reachable state. *)
THEOREM Invariance == Spec => []IInv
<1>1. IInv /\ [Next]_vars => IInv'
  <2>. SUFFICES ASSUME IInv, [Next]_vars PROVE IInv'
    OBVIOUS
  <2>1. CASE UNCHANGED vars
    BY <2>1 DEF IInv, TypeOK, CallsFindTheirCause, NothingGrows, Kept, vars
  <2>2. CASE Next
    <3>1. bufs \in SUBSET Clients /\ 1 \in 1 .. MaxPieces
      BY Sizes DEF IInv, TypeOK
    <3>. QED
      BY <2>2, <3>1, WorldKeeps, DispatchKeeps, CallbackKeeps DEF Next, ServerStep
  <2>. QED
    BY <2>1, <2>2
<1>. QED
  BY InitInv, <1>1, PTL DEF Spec

(* Every variable keeps its type: the buffers hold no more than was sent.  *)
THEOREM Typing == Spec => []TypeOK
<1>1. IInv => TypeOK
  BY DEF IInv
<1>. QED
  BY Invariance, <1>1, PTL

(* No callback is made for a connection that is freed, nor for nothing     *)
(* (CallsFindTheirCause; lines 29-78).                                     *)
THEOREM NoStaleCall == Spec => []CallsFindTheirCause
<1>1. IInv => CallsFindTheirCause
  BY DEF IInv
<1>. QED
  BY Invariance, <1>1, PTL

-----------------------------------------------------------------------------
(* The abstract room.                                                      *)

Queued == {backlog[k] : k \in DOMAIN backlog}
Hung == {c \in Clients : link[c] \in Gone}

(* Who has not connected yet is neither at the door nor inside, and those  *)
(* inside are finitely many.                                               *)
Outside ==
  /\ \A c \in Clients : link[c] = "none" => c \notin bufs \cup Queued
  /\ IsFiniteSet(bufs)

LEMMA TailQueue ==
  ASSUME TypeOK, backlog # <<>>, backlog' = Tail(backlog)
  PROVE  Head(backlog) \in Queued /\ Head(backlog) \in Clients /\ Queued' \subseteq Queued
<1>1. /\ backlog \in Seq(Clients) /\ Len(backlog) \in Nat /\ Len(backlog) > 0
      /\ DOMAIN backlog = 1 .. Len(backlog) /\ Head(backlog) = backlog[1]
      /\ DOMAIN backlog' = 1 .. (Len(backlog) - 1)
  BY DEF TypeOK
<1>2. Head(backlog) \in Queued /\ Head(backlog) \in Clients
  BY <1>1 DEF Queued
<1>3. ASSUME NEW k \in DOMAIN backlog'
      PROVE  k + 1 \in DOMAIN backlog /\ backlog'[k] = backlog[k + 1]
  BY <1>1
<1>. QED
  BY <1>2, <1>3 DEF Queued

LEMMA AppendQueue ==
  ASSUME TypeOK, NEW c \in Clients, backlog' = Append(backlog, c)
  PROVE  Queued' = Queued \cup {c}
<1>1. /\ backlog \in Seq(Clients) /\ Len(backlog) \in Nat
      /\ DOMAIN backlog = 1 .. Len(backlog) /\ DOMAIN backlog' = 1 .. (Len(backlog) + 1)
      /\ backlog'[Len(backlog) + 1] = c
      /\ \A k \in DOMAIN backlog : backlog'[k] = backlog[k]
  BY DEF TypeOK
<1>2. DOMAIN backlog' = DOMAIN backlog \cup {Len(backlog) + 1}
  BY <1>1
<1>. QED
  BY <1>1, <1>2 DEF Queued

(* What a step can do to bufs, backlog and link.                           *)
Stays == UNCHANGED <<bufs, backlog, link>>
Comes(c) ==
  /\ link[c] = "none" /\ link' = [link EXCEPT ![c] = "up"]
  /\ backlog' = Append(backlog, c) /\ bufs' = bufs
Ends(c, how) ==
  /\ link[c] \in {"up", "fin"} /\ link' = [link EXCEPT ![c] = how]
  /\ bufs' = bufs /\ backlog' = backlog
Enters ==
  /\ backlog # <<>> /\ Cardinality(bufs) < limit
  /\ backlog' = Tail(backlog) /\ bufs' = bufs \cup {Head(backlog)} /\ link' = link
Freed(c) ==
  /\ link[c] \in Gone /\ link' = [link EXCEPT ![c] = "closed"]
  /\ bufs' = bufs \ {c} /\ backlog' = backlog

LEMMA Moves ==
  ASSUME IInv, [Next]_vars
  PROVE  \/ Stays \/ Enters
         \/ \E c \in Clients : Comes(c) \/ (\E how \in Gone : Ends(c, how))
         \/ \E c \in bufs : Freed(c)
<1>1. CASE UNCHANGED vars
  BY <1>1 DEF vars, Stays
<1>2. ASSUME NEW c \in Clients, ClientStep(c)
      PROVE  Stays \/ Comes(c) \/ (\E how \in Gone : Ends(c, how))
  <2>1. CASE Connect(c)
    BY <2>1 DEF Connect, Comes
  <2>2. CASE Say(c) \/ Drain(c)
    BY <2>2 DEF Say, Drain, Stays
  <2>3. CASE Leave(c) \/ Reset(c)
    BY <2>3 DEF Leave, Reset, Ends, Gone
  <2>. QED
    BY <1>2, <2>1, <2>2, <2>3 DEF ClientStep
<1>3. CASE Dispatch \/ AcceptFails
  BY <1>3 DEF Dispatch, AcceptFails, net, Stays
<1>4. CASE accept_callback
  BY <1>4 DEF accept_callback, IInv, CallsFindTheirCause, Enters
<1>5. ASSUME NEW c \in bufs, NEW n \in 1 .. MaxPieces,
             buf_read_callback(c, n) \/ buf_write_callback(c, n)
      PROVE  Stays
  BY <1>5 DEF buf_read_callback, buf_write_callback, Take, Stays
<1>6. ASSUME NEW c \in bufs, buf_error_callback(c) PROVE Freed(c)
  BY <1>6 DEF buf_error_callback, Ended, Gone, Freed
<1>7. ASSUME NEW c \in bufs, SendKills(c) PROVE Stays
  BY <1>7 DEF SendKills, net, Stays
<1>. QED
  BY <1>1, <1>2, <1>3, <1>4, <1>5, <1>6, <1>7 DEF Next, ServerStep

LEMMA StillOutside ==
  ASSUME IInv, Outside, [Next]_vars
  PROVE  Outside'
<1>. USE DEF IInv, TypeOK
<1>1. CASE Stays
  BY <1>1 DEF Stays, Outside, Queued
<1>2. ASSUME NEW c \in Clients, Comes(c) PROVE Outside'
  <2>1. Queued' = Queued \cup {c}
    BY <1>2, AppendQueue DEF Comes
  <2>. QED
    BY <1>2, <2>1 DEF Comes, Outside
<1>3. ASSUME NEW c \in Clients, NEW how \in Gone, Ends(c, how) PROVE Outside'
  BY <1>3 DEF Ends, Outside, Queued, Gone
<1>4. CASE Enters
  <2>1. Head(backlog) \in Queued /\ Head(backlog) \in Clients /\ Queued' \subseteq Queued
    BY <1>4, TailQueue DEF Enters
  <2>2. IsFiniteSet(bufs')
    BY <1>4, FS_AddElement DEF Enters, Outside
  <2>. QED
    BY <1>4, <2>1, <2>2 DEF Enters, Outside
<1>5. ASSUME NEW c \in bufs, Freed(c) PROVE Outside'
  <2>1. IsFiniteSet(bufs')
    BY <1>5, FS_RemoveElement DEF Freed, Outside
  <2>. QED
    BY <1>5, <2>1 DEF Freed, Outside, Queued
<1>. QED
  BY Moves, <1>1, <1>2, <1>3, <1>4, <1>5

(* The abstract module's own copy of the FiniteSets operator is the same.  *)
LEMMA SameCardinality == \A S : Room!Cardinality(S) = Cardinality(S)
BY DEF Cardinality, Room!Cardinality

(* The process has no more descriptors than a process may have.            *)
LEMMA BelowLimit ==
  ASSUME TypeOK, IsFiniteSet(bufs), Cardinality(bufs) < limit
  PROVE  Cardinality(bufs) < MaxConns
<1>1. limit \in Nat /\ limit <= MaxConns /\ MaxConns \in Nat
  BY Sizes DEF TypeOK
<1>2. Cardinality(bufs) \in Nat
  BY FS_CardinalityType
<1>. QED
  BY <1>1, <1>2

(* Every step of the server is a step of the room, or leaves it as it is.  *)
LEMMA StepRoom ==
  ASSUME IInv, Outside, [Next]_vars
  PROVE  [Room!RoomNext]_(Room!roomVars)
<1>. USE DEF Room!roomVars
<1>1. CASE Stays
  BY <1>1 DEF Stays
<1>2. ASSUME NEW c \in Clients, Comes(c) PROVE [Room!RoomNext]_(Room!roomVars)
  <2>1. Room!Waiting = Queued /\ c \notin bufs \cup Queued
    BY <1>2 DEF Room!Waiting, Queued, Outside, Comes
  <2>2. Hung' = Hung
    BY <1>2 DEF Comes, Hung, Gone, IInv, TypeOK
  <2>. QED
    BY <1>2, <2>1, <2>2 DEF Comes, Room!RoomNext, Room!Arrive, Hung
<1>3. ASSUME NEW c \in Clients, NEW how \in Gone, Ends(c, how)
      PROVE  [Room!RoomNext]_(Room!roomVars)
  <2>1. Hung' = Hung \cup {c}
    BY <1>3 DEF Ends, Hung, Gone, IInv, TypeOK
  <2>2. CASE c \in Hung
    <3>1. Hung' = Hung
      BY <2>1, <2>2
    <3>. QED
      BY <1>3, <3>1 DEF Ends, Hung
  <2>3. CASE c \notin Hung
    BY <1>3, <2>1, <2>3 DEF Ends, Room!RoomNext, Room!HangUp, Hung
  <2>. QED
    BY <2>2, <2>3
<1>4. CASE Enters
  <2>1. Cardinality(bufs) < MaxConns
    BY <1>4, BelowLimit DEF Enters, IInv, Outside
  <2>2. Room!Admit
    BY <1>4, <2>1, SameCardinality DEF Enters, Room!Admit
  <2>. QED
    BY <2>2 DEF Room!RoomNext
<1>5. ASSUME NEW c \in bufs, Freed(c) PROVE [Room!RoomNext]_(Room!roomVars)
  <2>1. c \in Clients
    BY DEF IInv, TypeOK
  <2>2. c \in Hung /\ Hung' = Hung \ {c}
    BY <1>5, <2>1 DEF Freed, Hung, Gone, IInv, TypeOK
  <2>. QED
    BY <1>5, <2>1, <2>2 DEF Freed, Room!RoomNext, Room!Remove, Hung
<1>. QED
  BY Moves, <1>1, <1>2, <1>3, <1>4, <1>5

(* Every behaviour of the line server is one of the abstract room: nobody  *)
(* is admitted twice, out of turn or beyond what a process may have open,  *)
(* and no callback frees a connection whose client has not ended it        *)
(* (ImplementsRoom; lines 51-93).                                          *)
THEOREM Implementation == Spec => ImplementsRoom
<1>1. Init => Outside /\ Room!RoomInit
  BY FS_EmptySet DEF Init, Outside, Queued, Room!RoomInit, Gone
<1>. QED
  BY <1>1, StillOutside, StepRoom, Invariance, PTL DEF Spec, ImplementsRoom, Room!RoomSpec
=============================================================================
