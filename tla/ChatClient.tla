------------------------------ MODULE ChatClient ------------------------------
(***************************************************************************)
(* chat_room_client.c: poll watches standard input and the socket; what is *)
(* typed is spliced into a pipe and from there into the socket, what the   *)
(* server sends is read and printed.  All descriptors block, and what      *)
(* recv and splice return is not looked at.                                *)
(***************************************************************************)
EXTENDS Naturals

CONSTANTS
  SpliceMax,    \* what one splice moves at most: 32768 bytes
  PipeCap,      \* what the pipe holds
  RecvMax,      \* what one recv takes: BUFFER_SIZE - 1
  MaxTyped,     \* bound: bytes waiting in standard input
  MaxUnread     \* bound: bytes of the server waiting in the socket

ASSUME ClientAssumption ==
  /\ {SpliceMax, PipeCap, RecvMax, MaxTyped, MaxUnread} \subseteq Nat \ {0}
  /\ SpliceMax <= PipeCap

VARIABLES
  at,       \* "connect", "poll", "socket", "fill", "send" (the two splices), "closed", "killed"
  revents,  \* what the last poll reported; "typed" is standard input's POLLIN
  typed,    \* bytes in standard input
  ended,    \* its end: "no", seen as POLLIN ("IN": a file, a terminal) or only as POLLHUP ("HUP": a pipe)
  pipe,     \* bytes in pipefd
  link,     \* the connection
  unread,   \* bytes of the server in the receive buffer
  room,     \* whether the send buffer has room
  left      \* (not in the code) what second splices cut short left in the pipe and is still there

input == <<typed, ended>>
net == <<link, unread, room>>
vars == <<at, revents, typed, ended, pipe, link, unread, room, left>>

(***************************************************************************)
(* "fin": the server has closed it; "rst": reset, ECONNRESET to come;      *)
(* "pipe": reset after its FIN, EPIPE to come; "dead": the error fetched.  *)
(***************************************************************************)
Failed == {"rst", "pipe"}
Gone   == Failed \cup {"fin", "dead"}

Init ==
  /\ at = "connect" /\ revents = {}
  /\ typed = 0 /\ ended = "no" /\ pipe = 0
  /\ link = "none" /\ unread = 0 /\ room = TRUE /\ left = 0

Running == at \notin {"connect", "closed", "killed"}

-----------------------------------------------------------------------------
(* The user, the server and the network.                                   *)

Type ==
  /\ ended = "no" /\ typed < MaxTyped
  /\ typed' = typed + 1
  /\ UNCHANGED <<at, revents, ended, pipe, net, left>>

EndInput ==
  /\ ended = "no"
  /\ ended' \in {"IN", "HUP"}
  /\ UNCHANGED <<at, revents, typed, pipe, net, left>>

Say ==
  /\ Running /\ link = "up" /\ unread < MaxUnread
  /\ unread' = unread + 1
  /\ UNCHANGED <<at, revents, input, pipe, link, room, left>>

Close ==
  /\ Running /\ link = "up"
  /\ link' = "fin"
  /\ UNCHANGED <<at, revents, input, pipe, unread, room, left>>

Reset ==
  /\ Running /\ link \in {"up", "fin"}
  /\ link' = IF link = "fin" THEN "pipe" ELSE "rst"
  /\ unread' \in {0, unread}
  /\ UNCHANGED <<at, revents, input, pipe, room, left>>

Drain ==
  /\ link = "up" /\ ~room
  /\ room' = TRUE
  /\ UNCHANGED <<at, revents, input, pipe, link, unread, left>>

-----------------------------------------------------------------------------
(* The client.                                                             *)

Connect ==
  /\ at = "connect"
  /\ at' = "poll" /\ link' = "up"
  /\ UNCHANGED <<revents, input, pipe, unread, room, left>>

(* Mutant of ConnectFails: it does not return.                             *)
ConnectFails_GoesOn ==
  /\ at = "connect"
  /\ at' = "poll"
  /\ UNCHANGED <<revents, input, pipe, net, left>>

ConnectFails ==
  /\ at = "connect"
  /\ at' = "closed"
  /\ UNCHANGED <<revents, input, pipe, net, left>>

Reported ==
  {e \in {"typed", "IN", "RDHUP"} :
     \/ e = "typed" /\ (typed > 0 \/ ended = "IN")
     \/ e = "IN" /\ (unread > 0 \/ link \in Gone)
     \/ e = "RDHUP" /\ link \in Gone}

(* A POLLHUP of standard input alone makes poll return too: no branch is   *)
(* taken, and the loop spins.                                              *)
Poll ==
  /\ at = "poll" /\ Reported # {}
  /\ revents' = Reported
  /\ at' = "socket"
  /\ UNCHANGED <<input, pipe, net, left>>

PollFails ==
  /\ at = "poll"
  /\ at' = "closed"
  /\ UNCHANGED <<revents, input, pipe, net, left>>

(* Mutant of ServerClosed: POLLRDHUP is not asked for.                     *)
ServerClosed_Unseen ==
  /\ at = "socket" /\ "RDHUP" \in revents
  /\ at' = IF "typed" \in revents THEN "fill" ELSE "poll"
  /\ UNCHANGED <<revents, input, pipe, net, left>>

(* Texts that wait to be read are not.                                     *)
ServerClosed ==
  /\ at = "socket" /\ "RDHUP" \in revents
  /\ at' = "closed"
  /\ UNCHANGED <<revents, input, pipe, net, left>>

(* Mutant of ToInput: standard input is spliced whether it is ready or not. *)
ToInput_Always == at' = "fill"

ToInput == at' = IF "typed" \in revents THEN "fill" ELSE "poll"
AtText == at = "socket" /\ revents \cap {"IN", "RDHUP"} = {"IN"}

Least(a, b) == IF a < b THEN a ELSE b

(* Mutant of RecvText: the socket is read again without asking poll.       *)
RecvText_Again ==
  /\ AtText /\ unread > 0
  /\ unread' = unread - Least(unread, RecvMax)
  /\ at' = "socket"
  /\ UNCHANGED <<revents, input, pipe, link, room, left>>

RecvText ==
  /\ AtText /\ unread > 0
  /\ unread' = unread - Least(unread, RecvMax)
  /\ ToInput
  /\ UNCHANGED <<revents, input, pipe, link, room, left>>

(* recv failed, or returned 0: an empty line is printed.                   *)
RecvNothing ==
  /\ AtText /\ unread = 0 /\ link \in Gone
  /\ link' = IF link \in Failed THEN "dead" ELSE link
  /\ ToInput
  /\ UNCHANGED <<revents, input, pipe, unread, room, left>>

SkipSocket ==
  /\ at = "socket" /\ revents \cap {"IN", "RDHUP"} = {}
  /\ ToInput
  /\ UNCHANGED <<revents, input, pipe, net, left>>

(* splice waits for room in the pipe, which only the client itself makes.  *)
(* The kernel counts buffers, full or not: any leavings may fill the pipe, *)
(* so that only in an empty one the splice is sure to go on (ClientStep).  *)
FillPipe(n) ==
  /\ at = "fill" /\ n <= Least(Least(typed, SpliceMax), PipeCap - pipe)
  /\ typed' = typed - n /\ pipe' = pipe + n
  /\ at' = "send"
  /\ UNCHANGED <<revents, ended, net, left>>

(* splice refuses some descriptors, a terminal among them.                 *)
FillFails ==
  /\ at = "fill"
  /\ at' = "send"
  /\ UNCHANGED <<revents, input, pipe, net, left>>

FillEnds ==
  /\ at = "fill" /\ typed = 0 /\ ended = "IN"
  /\ at' = "send"
  /\ UNCHANGED <<revents, input, pipe, net, left>>

Sends(n, cut) ==
  /\ at = "send" /\ pipe > 0 /\ room /\ link \in {"up", "fin"}
  /\ pipe' = pipe - n
  /\ left' = Least(left + cut, pipe - n)
  /\ room' \in BOOLEAN
  /\ at' = "poll"
  /\ UNCHANGED <<revents, input, link, unread>>

(* Mutant of SendPipe: the second splice asks for less than the first.     *)
SendPipe_Shorter == Sends(Least(pipe, SpliceMax - 1), 0)

(* splice waits for room, and for ever on an empty pipe, whose other end   *)
(* is the client's own.                                                    *)
SendPipe == Sends(Least(pipe, SpliceMax), 0)

(* A wait for more room is interrupted: splice returns with what it has    *)
(* moved by then, and nobody looks.                                        *)
SendCut(n) == n < Least(pipe, SpliceMax) /\ Sends(n, Least(pipe, SpliceMax) - n)

SendFails ==
  /\ at = "send" /\ pipe > 0 /\ link = "rst"
  /\ link' = "dead"
  /\ at' = "poll"
  /\ UNCHANGED <<revents, input, pipe, unread, room, left>>

SendKills ==
  /\ at = "send" /\ pipe > 0 /\ link \in {"pipe", "dead"}
  /\ at' = "killed"
  /\ UNCHANGED <<revents, input, pipe, net, left>>

-----------------------------------------------------------------------------
Fill == (\E n \in 1 .. SpliceMax : FillPipe(n)) \/ FillEnds

ClientStep ==
  \/ Connect \/ Poll \/ ServerClosed \/ RecvText \/ RecvNothing \/ SkipSocket
  \/ pipe = 0 /\ Fill
  \/ SendPipe \/ SendFails \/ SendKills

Next ==
  \/ ClientStep \/ Fill \/ ConnectFails \/ PollFails \/ FillFails
  \/ \E n \in 1 .. SpliceMax - 1 : SendCut(n)
  \/ Type \/ EndInput \/ Say \/ Close \/ Reset \/ Drain

Spec == Init /\ [][Next]_vars
FairSpec == Spec /\ WF_vars(ClientStep)

-----------------------------------------------------------------------------
(* Correctness.                                                            *)

(* Every variable has its type: the pipe and the buffers keep their bounds. *)
TypeOK ==
  /\ at \in {"connect", "poll", "socket", "fill", "send", "closed", "killed"}
  /\ revents \in SUBSET {"typed", "IN", "RDHUP"}
  /\ typed \in 0 .. MaxTyped /\ ended \in {"no", "IN", "HUP"}
  /\ pipe \in 0 .. PipeCap /\ left \in 0 .. PipeCap
  /\ link \in Gone \cup {"none", "up"}
  /\ link = "none" => at \in {"connect", "closed"}
  /\ unread \in 0 .. MaxUnread /\ room \in BOOLEAN

(* The calls between two polls do not wait for what may never come: the   *)
(* blocking recv finds what poll reported, and the second splice finds the *)
(* pipe empty, on which it waits for ever, only at the end of the input or *)
(* after a first splice that failed.  (It also waits for room in the       *)
(* socket, which is the server's to give: see Stuck.)                      *)
SleepsInPoll ==
  /\ AtText => unread > 0 \/ link \in Gone
  /\ at = "send" /\ pipe = 0 => ended = "IN" \/ typed > 0

(* While the connection stands, nothing typed waits in the pipe for what   *)
(* is typed next except what second splices cut short left there: a whole  *)
(* one adds nothing to it.  So the first splice may wait for room, which   *)
(* is for ever, only in a pipe that holds such leavings.                   *)
OnlyCutsStay ==
  at \in {"poll", "fill"} => pipe <= left \/ link \in Gone

Stopped == at \in {"closed", "killed"}
Stuck ==
  \/ at = "send" /\ (pipe = 0 \/ (~room /\ link = "fin"))
  \/ at = "fill" /\ pipe > 0

(* When the server hangs up the client ends, unless a splice waits: for    *)
(* input that has ended, for a server that has stopped reading, or for     *)
(* room in a pipe that holds leavings, which nobody else takes out.        *)
HangupEnds == link \in Gone ~> Stopped \/ Stuck
=============================================================================
