---------------------------- MODULE ShmChild_proofs ----------------------------
(***************************************************************************)
(* The inductive invariant of ShmChild, and what follows from it for any   *)
(* size of the segment, of the pipe and of what the client may send.       *)
(***************************************************************************)
EXTENDS ShmChild, TLAPS

(* What waits to be read, and the end, will be reported, unless the last   *)
(* recv left it behind; or the end has been seen, and the loop ends next.  *)
Announced ==
  /\ unread > 0 => "connfd" \in ready \cup batch \/ segment = RecvMax
  /\ link # "up" => \/ "connfd" \in ready \cup batch \/ segment > 0
                    \/ stop_child /\ at \in {"handle", "test", "closed"}

IInv == TypeOK /\ Announced

LEMMA Sizes ==
  RecvMax \in Nat \ {0} /\ MaxUnread \in Nat \ {0} /\ PipeCap \in Nat \ {0}
BY ChildAssumption

(* What one recv takes fits, and leaves nothing unless it fills.           *)
LEMMA LeastFits ==
  ASSUME NEW u \in 0 .. MaxUnread, u > 0
  PROVE  /\ Least(u, RecvMax) \in 1 .. RecvMax
         /\ u - Least(u, RecvMax) \in 0 .. MaxUnread
         /\ u - Least(u, RecvMax) > 0 => Least(u, RecvMax) = RecvMax
BY Sizes DEF Least

LEMMA InitInv == Init => IInv
<1>. SUFFICES ASSUME Init PROVE IInv
  OBVIOUS
<1>1. 0 \in 0 .. RecvMax /\ 0 \in 0 .. PipeCap /\ 0 \in 0 .. MaxUnread
  BY Sizes
<1>2. TypeOK
  BY <1>1 DEF Init, TypeOK
<1>3. Announced
  BY DEF Init, Announced
<1>. QED
  BY <1>2, <1>3 DEF IInv

(* The client and the main process.                                        *)
LEMMA WorldKeeps ==
  ASSUME IInv,
         (\E n \in 1 .. MaxUnread : Say(n)) \/ Leave \/ Reset \/ Notify \/ TakeNotice
  PROVE  IInv'
<1>1. ASSUME NEW n \in 1 .. MaxUnread, Say(n) PROVE IInv'
  <2>1. unread + n \in 0 .. MaxUnread
    BY <1>1, Sizes DEF IInv, TypeOK, Say
  <2>2. TypeOK'
    BY <1>1, <2>1 DEF IInv, TypeOK, Sources, Say
  <2>3. Announced'
    BY <1>1 DEF IInv, Announced, Say
  <2>. QED
    BY <2>2, <2>3 DEF IInv
<1>2. CASE Leave
  <2>1. TypeOK'
    BY <1>2 DEF IInv, TypeOK, Sources, Leave
  <2>2. Announced'
    BY <1>2 DEF IInv, Announced, Leave
  <2>. QED
    BY <2>1, <2>2 DEF IInv
<1>3. CASE Reset
  <2>1. TypeOK'
    BY <1>3, Sizes DEF IInv, TypeOK, Sources, Reset
  <2>2. Announced'
    BY <1>3 DEF IInv, Announced, Reset
  <2>. QED
    BY <2>1, <2>2 DEF IInv
<1>4. CASE Notify
  BY <1>4 DEF IInv, TypeOK, Announced, Sources, Notify
<1>5. CASE TakeNotice
  <2>1. notices' \in 0 .. PipeCap
    BY <1>5, Sizes DEF IInv, TypeOK, TakeNotice
  <2>2. TypeOK'
    BY <1>5, <2>1 DEF IInv, TypeOK, TakeNotice
  <2>3. Announced'
    BY <1>5 DEF IInv, Announced, TakeNotice
  <2>. QED
    BY <2>2, <2>3 DEF IInv
<1>. QED
  BY <1>1, <1>2, <1>3, <1>4, <1>5

(* The steps of the loop around a batch, and SIGTERM's handler.            *)
LEMMA LoopKeeps ==
  ASSUME IInv, Setup \/ Loop \/ Enter \/ Wait \/ WaitFails \/ child_term_handler
  PROVE  IInv'
<1>1. CASE Setup
  BY <1>1 DEF IInv, TypeOK, Announced, Setup
<1>2. CASE Loop
  BY <1>2 DEF IInv, TypeOK, Announced, Loop
<1>3. CASE Enter
  BY <1>3 DEF IInv, TypeOK, Announced, Enter
<1>4. CASE Wait
  <2>1. Reportable \in SUBSET Sources /\ Reportable # {}
    BY <1>4 DEF IInv, TypeOK, Wait, Asleep, Reportable
  <2>2. "connfd" \in ready => "connfd" \in Reportable \/ (~(unread > 0) /\ link = "up")
    BY DEF Reportable
  <2>3. TypeOK'
    BY <1>4, <2>1 DEF IInv, TypeOK, Wait
  <2>4. batch = {}
    BY <1>4 DEF IInv, TypeOK, Wait
  <2>5. Announced'
    BY <1>4, <2>2, <2>4 DEF IInv, Announced, Wait
  <2>. QED
    BY <2>3, <2>5 DEF IInv
<1>5. CASE WaitFails
  BY <1>5 DEF IInv, TypeOK, Announced, WaitFails
<1>6. CASE child_term_handler
  BY <1>6 DEF IInv, TypeOK, Announced, child_term_handler, Asleep
<1>. QED
  BY <1>1, <1>2, <1>3, <1>4, <1>5, <1>6

(* An event of either socket.                                              *)
LEMMA HandleKeeps ==
  ASSUME IInv, NEW s \in Sources, RecvText(s) \/ RecvAgain(s) \/ RecvStops(s)
  PROVE  IInv'
<1>1. /\ at = "handle" /\ batch' \in SUBSET Sources
      /\ at' \in {"test", "handle"} /\ (at' = "handle" <=> batch' # {})
  BY DEF IInv, TypeOK, RecvText, RecvAgain, RecvStops, Handle
<1>2. CASE RecvText(s)
  <2>1. unread \in 0 .. MaxUnread /\ unread > 0
    BY <1>2 DEF IInv, TypeOK, RecvText
  <2>2. notices' \in 0 .. PipeCap
    BY <1>2, Sizes DEF IInv, TypeOK, RecvText, Least
  <2>3. TypeOK'
    BY <1>1, <1>2, <2>1, <2>2, LeastFits, Sizes DEF IInv, TypeOK, RecvText
  <2>4. Announced'
    BY <1>2, <2>1, LeastFits, Sizes DEF Announced, RecvText
  <2>. QED
    BY <2>3, <2>4 DEF IInv
<1>3. CASE RecvAgain(s)
  BY <1>1, <1>3, Sizes DEF IInv, TypeOK, Announced, RecvAgain
<1>4. CASE RecvStops(s)
  BY <1>1, <1>4, Sizes DEF IInv, TypeOK, Announced, RecvStops
<1>. QED
  BY <1>2, <1>3, <1>4

(* The types and the announcement hold together in every reachable state.  *)
THEOREM Invariance == Spec => []IInv
<1>1. IInv /\ [Next]_vars => IInv'
  <2>. SUFFICES ASSUME IInv, [Next]_vars PROVE IInv'
    OBVIOUS
  <2>1. CASE UNCHANGED vars
    BY <2>1 DEF IInv, TypeOK, Announced, vars
  <2>2. CASE Next
    BY <2>2, WorldKeeps, LoopKeeps, HandleKeeps DEF Next, ChildStep
  <2>. QED
    BY <2>1, <2>2
<1>. QED
  BY InitInv, <1>1, PTL DEF Spec

(* Every variable keeps its type, and a text never overruns its segment    *)
(* (TypeOK; line 171).                                                     *)
THEOREM Typing == Spec => []TypeOK
<1>1. IInv => TypeOK
  BY DEF IInv
<1>. QED
  BY Invariance, <1>1, PTL

(* A sleeping child has left something in its socket only if it has just   *)
(* filled its segment, and the end only if it has just read a text         *)
(* (LeftBehind; lines 160-182).                                            *)
THEOREM OneRecvSuffices == Spec => []LeftBehind
<1>1. IInv => LeftBehind
  <2>. SUFFICES ASSUME IInv, Asleep PROVE LeftBehind
    BY DEF LeftBehind
  <2>1. batch = {} /\ at = "wait"
    BY DEF IInv, TypeOK, Asleep
  <2>2. "connfd" \in ready => unread = 0 /\ link = "up"
    BY DEF Asleep, Reportable, IInv, TypeOK
  <2>. QED
    BY <2>1, <2>2 DEF IInv, Announced, LeftBehind
<1>. QED
  BY Invariance, <1>1, PTL
=============================================================================
