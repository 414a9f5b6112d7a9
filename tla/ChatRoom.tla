------------------------------ MODULE ChatRoom ------------------------------
(***************************************************************************)
(* What a server with a limit on its connections promises, without poll,   *)
(* epoll, descriptors, threads or buffers: a room of at most Limit         *)
(* members, entered in the order of arrival, in which nobody is refused    *)
(* while there is a place and which nobody loses their place in until they *)
(* have hung up themselves.  ChatServer, OneShot and LineEcho implement    *)
(* it.                                                                     *)
(***************************************************************************)
EXTENDS Naturals, Sequences, FiniteSets

CONSTANTS Clients, Limit

VARIABLES
  members,   \* the clients in the room
  queue,     \* the clients at the door
  hung       \* those of either that have hung up

roomVars == <<members, queue, hung>>

Waiting == {queue[k] : k \in DOMAIN queue}

RoomInit == members = {} /\ queue = <<>> /\ hung = {}

Arrive(c) ==
  /\ c \notin members \cup Waiting
  /\ queue' = Append(queue, c)
  /\ UNCHANGED <<members, hung>>

HangUp(c) ==
  /\ c \notin hung
  /\ hung' = hung \cup {c}
  /\ UNCHANGED <<members, queue>>

Admit ==
  /\ queue # <<>> /\ Cardinality(members) < Limit
  /\ members' = members \cup {Head(queue)}
  /\ queue' = Tail(queue)
  /\ UNCHANGED hung

Refuse ==
  /\ queue # <<>> /\ Cardinality(members) >= Limit
  /\ queue' = Tail(queue)
  /\ hung' = hung \ {Head(queue)}
  /\ UNCHANGED members

Abort ==
  /\ queue # <<>> /\ Head(queue) \in hung
  /\ queue' = Tail(queue)
  /\ hung' = hung \ {Head(queue)}
  /\ UNCHANGED members

Remove(c) ==
  /\ c \in members \cap hung
  /\ members' = members \ {c}
  /\ hung' = hung \ {c}
  /\ UNCHANGED queue

RoomNext ==
  \/ Admit \/ Refuse \/ Abort
  \/ \E c \in Clients : Arrive(c) \/ HangUp(c) \/ Remove(c)

RoomSpec == RoomInit /\ [][RoomNext]_roomVars
=============================================================================
