--------------------------- MODULE ChatClient_proofs ---------------------------
(***************************************************************************)
(* The inductive invariant of ChatClient, and what follows from it for any *)
(* size of the pipe, of a splice and of a recv.                            *)
(***************************************************************************)
EXTENDS ChatClient, TLAPS

(* What a round of the loop relies on between its calls: what poll         *)
(* reported is still so, and a pipe that holds more than was left in it    *)
(* belongs to a connection whose hang-up that poll reports.                *)
Round ==
  /\ at = "connect" => pipe = 0
  /\ at = "socket" => /\ "IN" \in revents => unread > 0 \/ link \in Gone
                      /\ pipe <= left \/ "RDHUP" \in revents
  /\ at \in {"socket", "fill"} /\ "typed" \in revents => typed > 0 \/ ended = "IN"
  /\ at = "fill" => "typed" \in revents
  /\ at = "send" => pipe <= left + SpliceMax \/ link \in Gone

IInv == TypeOK /\ SleepsInPoll /\ OnlyCutsStay /\ Round

LEMMA Sizes ==
  /\ SpliceMax \in Nat \ {0} /\ PipeCap \in Nat \ {0} /\ RecvMax \in Nat \ {0}
  /\ MaxTyped \in Nat \ {0} /\ MaxUnread \in Nat \ {0}
  /\ SpliceMax <= PipeCap
BY ClientAssumption

LEMMA InitInv == Init => IInv
<1>. SUFFICES ASSUME Init PROVE IInv
  OBVIOUS
<1>1. 0 \in 0 .. MaxTyped /\ 0 \in 0 .. PipeCap /\ 0 \in 0 .. MaxUnread /\ 0 <= 0
  BY Sizes
<1>2. TypeOK
  BY <1>1 DEF Init, TypeOK
<1>3. SleepsInPoll /\ OnlyCutsStay /\ Round
  BY <1>1 DEF Init, SleepsInPoll, AtText, OnlyCutsStay, Round
<1>. QED
  BY <1>2, <1>3 DEF IInv

(* The user, the server and the network.                                   *)
LEMMA WorldKeeps ==
  ASSUME IInv, Type \/ EndInput \/ Say \/ Close \/ Reset \/ Drain
  PROVE  IInv'
<1>1. CASE Type
  <2>1. TypeOK' /\ typed' > 0
    BY <1>1, Sizes DEF IInv, TypeOK, Type, net
  <2>2. (SleepsInPoll /\ OnlyCutsStay /\ Round)'
    BY <1>1, <2>1 DEF IInv, SleepsInPoll, AtText, OnlyCutsStay, Round, Type, net
  <2>. QED
    BY <2>1, <2>2 DEF IInv
<1>2. CASE EndInput
  <2>1. TypeOK'
    BY <1>2 DEF IInv, TypeOK, EndInput, net
  <2>2. (SleepsInPoll /\ OnlyCutsStay /\ Round)'
    BY <1>2 DEF IInv, SleepsInPoll, AtText, OnlyCutsStay, Round, EndInput, net
  <2>. QED
    BY <2>1, <2>2 DEF IInv
<1>3. CASE Say
  <2>1. TypeOK' /\ unread' > 0
    BY <1>3, Sizes DEF IInv, TypeOK, Say, input
  <2>2. (SleepsInPoll /\ OnlyCutsStay /\ Round)'
    BY <1>3, <2>1 DEF IInv, SleepsInPoll, AtText, OnlyCutsStay, Round, Say, input
  <2>. QED
    BY <2>1, <2>2 DEF IInv
<1>4. CASE Close
  <2>1. TypeOK'
    BY <1>4 DEF IInv, TypeOK, Close, Running, input, Gone, Failed
  <2>2. (SleepsInPoll /\ OnlyCutsStay /\ Round)'
    BY <1>4 DEF IInv, SleepsInPoll, AtText, OnlyCutsStay, Round, Close, input, Gone, Failed
  <2>. QED
    BY <2>1, <2>2 DEF IInv
<1>5. CASE Reset
  <2>1. TypeOK' /\ link' \in Gone
    BY <1>5, Sizes DEF IInv, TypeOK, Reset, Running, input, Gone, Failed
  <2>2. (SleepsInPoll /\ OnlyCutsStay /\ Round)'
    BY <1>5, <2>1 DEF IInv, SleepsInPoll, AtText, OnlyCutsStay, Round, Reset, input
  <2>. QED
    BY <2>1, <2>2 DEF IInv
<1>6. CASE Drain
  <2>1. TypeOK'
    BY <1>6 DEF IInv, TypeOK, Drain, input
  <2>2. (SleepsInPoll /\ OnlyCutsStay /\ Round)'
    BY <1>6 DEF IInv, SleepsInPoll, AtText, OnlyCutsStay, Round, Drain, input
  <2>. QED
    BY <2>1, <2>2 DEF IInv
<1>. QED
  BY <1>1, <1>2, <1>3, <1>4, <1>5, <1>6

(* The calls of the loop up to the first splice.                           *)
LEMMA SocketKeeps ==
  ASSUME IInv,
         \/ Connect \/ ConnectFails \/ Poll \/ PollFails \/ ServerClosed
         \/ RecvText \/ RecvNothing \/ SkipSocket
  PROVE  IInv'
<1>1. CASE Connect
  BY <1>1 DEF IInv, TypeOK, SleepsInPoll, AtText, OnlyCutsStay, Round, Connect, input, Gone
<1>2. CASE ConnectFails \/ PollFails \/ ServerClosed
  <2>1. at' = "closed" /\ UNCHANGED <<revents, input, pipe, net, left>>
    BY <1>2 DEF ConnectFails, PollFails, ServerClosed
  <2>2. TypeOK'
    BY <2>1 DEF IInv, TypeOK, input, net
  <2>. QED
    BY <2>1, <2>2 DEF IInv, SleepsInPoll, AtText, OnlyCutsStay, Round
<1>3. CASE Poll
  <2>1. /\ revents' \in SUBSET {"typed", "IN", "RDHUP"}
        /\ "IN" \in revents' => unread > 0 \/ link \in Gone
        /\ "typed" \in revents' => typed > 0 \/ ended = "IN"
        /\ link \in Gone => "RDHUP" \in revents'
    BY <1>3 DEF Poll, Reported
  <2>2. at = "poll" /\ at' = "socket" /\ UNCHANGED <<typed, ended, pipe, link, unread, room, left>>
    BY <1>3 DEF Poll, input, net
  <2>3. TypeOK'
    BY <2>1, <2>2 DEF IInv, TypeOK
  <2>4. (SleepsInPoll /\ OnlyCutsStay /\ Round)'
    BY <2>1, <2>2 DEF IInv, SleepsInPoll, AtText, OnlyCutsStay, Round
  <2>. QED
    BY <2>3, <2>4 DEF IInv
<1>4. CASE RecvText \/ RecvNothing \/ SkipSocket
  <2>1. /\ at = "socket" /\ "RDHUP" \notin revents
        /\ ToInput /\ UNCHANGED <<revents, typed, ended, pipe, room, left>>
    BY <1>4 DEF RecvText, RecvNothing, SkipSocket, AtText, input, net
  <2>2. unread' \in 0 .. MaxUnread
    BY <1>4, Sizes DEF IInv, TypeOK, RecvText, RecvNothing, SkipSocket, Least, net
  <2>3. link' \in Gone \cup {"none", "up"} /\ link' # "none"
    <3>1. link # "none" /\ link \in Gone \cup {"none", "up"}
      BY <2>1 DEF IInv, TypeOK
    <3>2. link' \in {link, "dead"}
      BY <1>4 DEF RecvText, RecvNothing, SkipSocket, net
    <3>. QED
      BY <3>1, <3>2 DEF Gone
  <2>4. TypeOK'
    BY <2>1, <2>2, <2>3 DEF IInv, TypeOK, ToInput
  <2>5. pipe <= left
    BY <2>1 DEF IInv, Round
  <2>7. (SleepsInPoll /\ OnlyCutsStay /\ Round)'
    BY <2>1, <2>5 DEF IInv, SleepsInPoll, AtText, OnlyCutsStay, Round, ToInput
  <2>. QED
    BY <2>4, <2>7 DEF IInv
<1>. QED
  BY <1>1, <1>2, <1>3, <1>4

(* The two splices.                                                        *)
LEMMA FillKeeps ==
  ASSUME IInv, Fill \/ FillFails
  PROVE  IInv'
<1>t. pipe \in Nat /\ left \in Nat /\ typed \in Nat
  BY Sizes DEF IInv, TypeOK
<1>1. ASSUME NEW n \in 1 .. SpliceMax, FillPipe(n) PROVE IInv'
  <2>1. /\ at = "fill" /\ at' = "send" /\ pipe' = pipe + n
        /\ UNCHANGED <<revents, ended, link, unread, room, left>>
    BY <1>1 DEF FillPipe, net
  <2>2. typed' \in 0 .. MaxTyped /\ pipe' \in 1 .. PipeCap
    BY <1>1, Sizes DEF IInv, TypeOK, FillPipe, Least
  <2>3. pipe' <= left + SpliceMax \/ link \in Gone
    <3>1. pipe <= left \/ link \in Gone
      BY <2>1 DEF IInv, OnlyCutsStay
    <3>2. n <= SpliceMax /\ n \in Nat /\ SpliceMax \in Nat
      BY Sizes
    <3>3. CASE pipe <= left
      BY <1>t, <2>1, <3>2, <3>3
    <3>. QED
      BY <3>1, <3>3
  <2>4. TypeOK'
    BY <2>1, <2>2, Sizes DEF IInv, TypeOK
  <2>5. pipe' # 0
    BY <2>2
  <2>6. (SleepsInPoll /\ OnlyCutsStay /\ Round)'
    BY <2>1, <2>3, <2>5 DEF SleepsInPoll, AtText, OnlyCutsStay, Round
  <2>. QED
    BY <2>4, <2>6 DEF IInv
<1>2. CASE FillEnds \/ FillFails
  <2>1. /\ at = "fill" /\ at' = "send"
        /\ typed > 0 \/ ended = "IN"
        /\ pipe <= left \/ link \in Gone
        /\ UNCHANGED <<revents, typed, ended, pipe, link, unread, room, left>>
    BY <1>2 DEF IInv, OnlyCutsStay, Round, FillEnds, FillFails, input, net
  <2>2. TypeOK'
    BY <2>1 DEF IInv, TypeOK
  <2>3. pipe <= left => pipe <= left + SpliceMax
    BY <1>t, Sizes
  <2>4. (SleepsInPoll /\ OnlyCutsStay /\ Round)'
    BY <2>1, <2>3 DEF SleepsInPoll, AtText, OnlyCutsStay, Round
  <2>. QED
    BY <2>2, <2>4 DEF IInv
<1>. QED
  BY <1>1, <1>2 DEF Fill

(* The second splice takes from the pipe no less than the first put there, *)
(* but for what a cut leaves.                                              *)
LEMMA SendsKeeps ==
  ASSUME IInv, NEW n \in Nat, NEW cut \in Nat, Sends(n, cut),
         n + cut = Least(pipe, SpliceMax)
  PROVE  IInv'
<1>1. /\ at = "send" /\ at' = "poll" /\ room' \in BOOLEAN
      /\ pipe' = pipe - n /\ left' = Least(left + cut, pipe - n)
      /\ UNCHANGED <<revents, typed, ended, link, unread>>
  BY DEF Sends, input
<1>2. pipe \in 0 .. PipeCap /\ left \in 0 .. PipeCap /\ PipeCap \in Nat /\ SpliceMax \in Nat
  BY Sizes DEF IInv, TypeOK
<1>3. n <= pipe /\ n + cut <= pipe /\ (n + cut = pipe \/ n + cut = SpliceMax)
  BY <1>2 DEF Least
<1>4. pipe' \in 0 .. PipeCap /\ left' \in 0 .. PipeCap
  BY <1>1, <1>2, <1>3 DEF Least
<1>5. pipe' <= left' \/ link \in Gone
  <2>1. pipe <= left + SpliceMax \/ link \in Gone
    BY <1>1 DEF IInv, Round
  <2>2. CASE pipe <= left + SpliceMax
    <3>1. pipe - n <= left + cut
      BY <1>2, <1>3, <2>2
    <3>. QED
      BY <1>1, <1>2, <1>3, <3>1 DEF Least
  <2>. QED
    BY <2>1, <2>2
<1>6. TypeOK'
  BY <1>1, <1>4 DEF IInv, TypeOK
<1>7. (SleepsInPoll /\ OnlyCutsStay /\ Round)'
  BY <1>1, <1>5 DEF SleepsInPoll, AtText, OnlyCutsStay, Round
<1>. QED
  BY <1>6, <1>7 DEF IInv

LEMMA SendKeeps ==
  ASSUME IInv,
         SendPipe \/ (\E n \in 1 .. SpliceMax - 1 : SendCut(n)) \/ SendFails \/ SendKills
  PROVE  IInv'
<1>t. Least(pipe, SpliceMax) \in Nat
  BY Sizes DEF IInv, TypeOK, Least
<1>1. CASE SendPipe
  <2>1. Sends(Least(pipe, SpliceMax), 0) /\ Least(pipe, SpliceMax) + 0 = Least(pipe, SpliceMax)
    BY <1>t, <1>1 DEF SendPipe
  <2>. QED
    BY <1>t, <2>1, SendsKeeps
<1>2. ASSUME NEW n \in 1 .. SpliceMax - 1, SendCut(n) PROVE IInv'
  <2>. DEFINE all == Least(pipe, SpliceMax)
  <2>1. n < all /\ Sends(n, all - n)
    BY <1>2 DEF SendCut
  <2>. HIDE DEF all
  <2>2. n \in Nat /\ all - n \in Nat /\ n + (all - n) = all
    BY <1>t, <2>1, Sizes DEF all
  <2>. QED
    BY <2>1, <2>2, SendsKeeps DEF all
<1>4. CASE SendFails
  <2>1. /\ at' = "poll" /\ link' = "dead"
        /\ UNCHANGED <<revents, typed, ended, pipe, unread, room, left>>
    BY <1>4 DEF SendFails, input
  <2>2. TypeOK'
    BY <2>1 DEF IInv, TypeOK, Gone
  <2>3. (SleepsInPoll /\ OnlyCutsStay /\ Round)'
    BY <2>1 DEF SleepsInPoll, AtText, OnlyCutsStay, Round, Gone
  <2>. QED
    BY <2>2, <2>3 DEF IInv
<1>5. CASE SendKills
  <2>1. at = "send" /\ at' = "killed" /\ UNCHANGED <<revents, input, pipe, net, left>>
    BY <1>5 DEF SendKills
  <2>2. TypeOK'
    BY <2>1 DEF IInv, TypeOK, input, net
  <2>3. (SleepsInPoll /\ OnlyCutsStay /\ Round)'
    BY <2>1 DEF SleepsInPoll, AtText, OnlyCutsStay, Round
  <2>. QED
    BY <2>2, <2>3 DEF IInv
<1>. QED
  BY <1>1, <1>2, <1>4, <1>5

(* What a round relies on holds in every reachable state.                  *)
THEOREM Invariance == Spec => []IInv
<1>1. IInv /\ [Next]_vars => IInv'
  <2>. SUFFICES ASSUME IInv, [Next]_vars PROVE IInv'
    OBVIOUS
  <2>1. CASE UNCHANGED vars
    BY <2>1 DEF IInv, TypeOK, SleepsInPoll, AtText, OnlyCutsStay, Round, vars
  <2>2. CASE Next
    BY <2>2, WorldKeeps, SocketKeeps, FillKeeps, SendKeeps DEF Next, ClientStep
  <2>. QED
    BY <2>1, <2>2
<1>. QED
  BY InitInv, <1>1, PTL DEF Spec

(* Every variable keeps its type: the pipe never holds more than it can.   *)
THEOREM Typing == Spec => []TypeOK
<1>1. IInv => TypeOK
  BY DEF IInv
<1>. QED
  BY Invariance, <1>1, PTL

(* The client does not sleep in recv, nor on an empty pipe before its      *)
(* input ends or a splice fails (SleepsInPoll; lines 103-123).             *)
THEOREM SleepsOnlyInPoll == Spec => []SleepsInPoll
<1>1. IInv => SleepsInPoll
  BY DEF IInv
<1>. QED
  BY Invariance, <1>1, PTL

(* While the connection stands, the pipe holds between rounds no more than *)
(* second splices cut short have left in it (OnlyCutsStay; lines 120-123). *)
THEOREM NothingElseStays == Spec => []OnlyCutsStay
<1>1. IInv => OnlyCutsStay
  BY DEF IInv
<1>. QED
  BY Invariance, <1>1, PTL
=============================================================================
