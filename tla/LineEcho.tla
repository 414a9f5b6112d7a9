------------------------------- MODULE LineEcho -------------------------------
(***************************************************************************)
(* test_libevent/demo1.c: a libevent server that answers every line with   *)
(* "You said ...".  Its four callbacks run inside libevent's loop, which   *)
(* first collects the events that are active and then calls back for one   *)
(* after the other, while the clients keep acting.  A bufferevent reads    *)
(* what there is into `input' before it calls, and writes `output' out     *)
(* by itself.                                                              *)
(***************************************************************************)
EXTENDS Naturals, Sequences, FiniteSets

CONSTANTS
  Clients,      \* the connections clients may open, each of them once
  MaxConns,     \* the connections a process may have open, at most
  LineLen,      \* the pieces a line may arrive in
  MaxPieces     \* bound: pieces of one client in its socket and in the server

ASSUME EchoAssumption == {MaxConns, LineLen, MaxPieces} \subseteq Nat \ {0}

VARIABLES
  limit,      \* the descriptors this process has for connections
  running,    \* FALSE once the process is gone
  bufs,       \* the clients that have a bufferevent, and a struct client
  active,     \* libevent's active events, not yet called back for
  input,      \* pieces of lines in a bufferevent's input
  output,     \* answers in its output
  link,       \* each connection as the server's kernel knows it
  backlog,    \* connections waiting for accept
  unread,     \* pieces in a connection's receive buffer
  room        \* whether its send buffer has room

net == <<link, backlog, unread, room>>
buffers == <<input, output>>
vars == <<limit, running, bufs, active, input, output, link, backlog, unread, room>>

(* "rst" is a reset, "pipe" one that follows the client's FIN.             *)
Gone == {"fin", "rst", "pipe"}

Init ==
  /\ limit \in 1 .. MaxConns
  /\ running = TRUE /\ bufs = {} /\ active = {}
  /\ input = [c \in Clients |-> 0] /\ output = [c \in Clients |-> 0]
  /\ link = [c \in Clients |-> "none"] /\ backlog = <<>>
  /\ unread = [c \in Clients |-> 0] /\ room = [c \in Clients |-> TRUE]

-----------------------------------------------------------------------------
(* The clients.                                                            *)

Connect(c) ==
  /\ running /\ link[c] = "none"
  /\ link' = [link EXCEPT ![c] = "up"]
  /\ backlog' = Append(backlog, c)
  /\ UNCHANGED <<limit, running, bufs, active, buffers, unread, room>>

Say(c) ==
  /\ running /\ link[c] = "up"
  /\ unread[c] + input[c] + output[c] * LineLen < MaxPieces
  /\ unread' = [unread EXCEPT ![c] = @ + 1]
  /\ UNCHANGED <<limit, running, bufs, active, buffers, link, backlog, room>>

Leave(c) ==
  /\ running /\ link[c] = "up"
  /\ link' = [link EXCEPT ![c] = "fin"]
  /\ UNCHANGED <<limit, running, bufs, active, buffers, backlog, unread, room>>

Reset(c) ==
  /\ running /\ link[c] \in {"up", "fin"}
  /\ link' = [link EXCEPT ![c] = IF @ = "fin" THEN "pipe" ELSE "rst"]
  /\ \E left \in {0, unread[c]} : unread' = [unread EXCEPT ![c] = left]
  /\ UNCHANGED <<limit, running, bufs, active, buffers, backlog, room>>

Drain(c) ==
  /\ running /\ link[c] \in {"up", "fin"} /\ ~room[c]
  /\ room' = [room EXCEPT ![c] = TRUE]
  /\ UNCHANGED <<limit, running, bufs, active, buffers, link, backlog, unread>>

-----------------------------------------------------------------------------
(* event_dispatch.  Of one connection the read event comes first.          *)

accept_event == <<"listen", "accept">>

Ready ==
  {e \in {accept_event} : backlog # <<>>}
  \cup {<<c, "read">> : c \in {b \in bufs : unread[b] > 0 \/ link[b] \in Gone}}
  \cup {<<c, "write">> : c \in {b \in bufs : output[b] > 0 /\ (room[b] \/ link[b] \in {"rst", "pipe"})}}

Dispatch ==
  /\ running /\ active = {} /\ Ready # {}
  /\ active' = Ready
  /\ UNCHANGED <<limit, running, bufs, buffers, net>>

Reading(c) == running /\ <<c, "read">> \in active
Writing(c) == running /\ <<c, "write">> \in active /\ <<c, "read">> \notin active
Called(e)  == active' = active \ {e}

-----------------------------------------------------------------------------
(* The callbacks.                                                          *)

(* A client that was reset while it waited is accepted like any other.     *)
accept_callback ==
  /\ running /\ accept_event \in active
  /\ Cardinality(bufs) < limit
  /\ backlog' = Tail(backlog)
  /\ bufs' = bufs \cup {Head(backlog)}
  /\ Called(accept_event)
  /\ UNCHANGED <<limit, running, buffers, link, unread, room>>

AcceptFails ==
  /\ running /\ accept_event \in active
  /\ Cardinality(bufs) >= limit
  /\ Called(accept_event)
  /\ UNCHANGED <<limit, running, bufs, buffers, net>>

(* libevent has taken n pieces in: if there is a whole line now, one line  *)
(* is answered.                                                            *)
Take(c, n) ==
  /\ Reading(c) /\ n <= unread[c]
  /\ unread' = [unread EXCEPT ![c] = @ - n]
  /\ Called(<<c, "read">>)
  /\ UNCHANGED <<limit, running, bufs, link, backlog, room>>

(* Mutant of buf_read_callback: a line is taken for a whole one too early, *)
(* and what was to follow is taken off it.                                 *)
buf_read_callback_Early(c, n) ==
  /\ Take(c, n)
  /\ input' = [input EXCEPT ![c] = @ + n - LineLen]
  /\ output' = [output EXCEPT ![c] = @ + 1]

(* Mutant of buf_read_callback: the answer is freed, and not written.      *)
buf_read_callback_Silent(c, n) ==
  /\ Take(c, n)
  /\ input' = [input EXCEPT ![c] = IF @ + n >= LineLen THEN @ + n - LineLen ELSE @ + n]
  /\ UNCHANGED output

buf_read_callback(c, n) ==
  /\ Take(c, n)
  /\ IF input[c] + n >= LineLen
     THEN /\ input' = [input EXCEPT ![c] = @ + n - LineLen]
          /\ output' = [output EXCEPT ![c] = @ + 1]
     ELSE /\ input' = [input EXCEPT ![c] = @ + n]
          /\ UNCHANGED output

(* Mutant of buf_write_callback: a client that was answered is let go.     *)
buf_write_callback_Closes(c, n) ==
  /\ Writing(c) /\ n <= output[c] /\ link[c] \in {"up", "fin"}
  /\ bufs' = bufs \ {c} /\ active' = active \ {<<c, "read">>, <<c, "write">>}
  /\ input' = [input EXCEPT ![c] = 0] /\ output' = [output EXCEPT ![c] = 0]
  /\ link' = [link EXCEPT ![c] = "closed"]
  /\ UNCHANGED <<limit, running, backlog, unread, room>>

(* Some of the output has gone out; buf_write_callback has nothing to do.  *)
buf_write_callback(c, n) ==
  /\ Writing(c) /\ n <= output[c] /\ link[c] \in {"up", "fin"}
  /\ output' = [output EXCEPT ![c] = @ - n]
  /\ \E more \in BOOLEAN : room' = [room EXCEPT ![c] = more]
  /\ Called(<<c, "write">>)
  /\ UNCHANGED <<limit, running, bufs, input, link, backlog, unread>>

Ended(c) ==
  \/ Reading(c) /\ unread[c] = 0 /\ link[c] \in Gone
  \/ Writing(c) /\ link[c] = "rst"

(* Mutant of buf_error_callback: the bufferevent is not freed.             *)
buf_error_callback_NoFree(c) ==
  /\ Ended(c)
  /\ bufs' = bufs \ {c} /\ active' = active \ {<<c, "read">>}
  /\ input' = [input EXCEPT ![c] = 0] /\ output' = [output EXCEPT ![c] = 0]
  /\ link' = [link EXCEPT ![c] = "closed"]
  /\ UNCHANGED <<limit, running, backlog, unread, room>>

(* bufferevent_free takes back events that are active already, and what is *)
(* left in the buffers goes with it.                                       *)
buf_error_callback(c) ==
  /\ Ended(c)
  /\ bufs' = bufs \ {c} /\ active' = active \ {<<c, "read">>, <<c, "write">>}
  /\ input' = [input EXCEPT ![c] = 0] /\ output' = [output EXCEPT ![c] = 0]
  /\ link' = [link EXCEPT ![c] = "closed"]
  /\ UNCHANGED <<limit, running, backlog, unread, room>>

(* EPIPE raises SIGPIPE, which nobody handles.                             *)
SendKills(c) ==
  /\ Writing(c) /\ link[c] = "pipe"
  /\ running' = FALSE
  /\ UNCHANGED <<limit, bufs, active, buffers, net>>

-----------------------------------------------------------------------------
ServerStep ==
  \/ Dispatch \/ accept_callback \/ AcceptFails
  \/ \E c \in bufs :
       \/ \E n \in 1 .. MaxPieces : buf_read_callback(c, n) \/ buf_write_callback(c, n)
       \/ buf_error_callback(c) \/ SendKills(c)

ClientStep(c) == Connect(c) \/ Say(c) \/ Leave(c) \/ Reset(c) \/ Drain(c)

Next == ServerStep \/ \E c \in Clients : ClientStep(c)

Spec == Init /\ [][Next]_vars

(* libevent's loop keeps running, and clients read what they are sent.     *)
FairSpec == Spec /\ WF_vars(ServerStep) /\ \A c \in Clients : WF_vars(Drain(c))

-----------------------------------------------------------------------------
(* Correctness.                                                            *)

(* Every variable has its type: a buffer holds no more than was sent.      *)
TypeOK ==
  /\ limit \in 1 .. MaxConns
  /\ running \in BOOLEAN
  /\ bufs \in SUBSET Clients
  /\ active \in SUBSET ({accept_event} \cup (Clients \X {"read", "write"}))
  /\ input \in [Clients -> 0 .. MaxPieces]
  /\ output \in [Clients -> 0 .. MaxPieces]
  /\ link \in [Clients -> Gone \cup {"none", "up", "closed"}]
  /\ backlog \in Seq(Clients)
  /\ unread \in [Clients -> 0 .. MaxPieces]
  /\ room \in [Clients -> BOOLEAN]

(* libevent calls back for no connection that an earlier callback of the   *)
(* same round has freed, and each call finds what it was made for: a read  *)
(* event something to read or an end, the accept event a connection.       *)
CallsFindTheirCause ==
  /\ accept_event \in active => backlog # <<>>
  /\ \A c \in Clients :
       /\ <<c, "read">> \in active => c \in bufs /\ (unread[c] > 0 \/ link[c] \in Gone)
       /\ <<c, "write">> \in active => c \in bufs /\ output[c] > 0

(* The server implements the abstract room of the chat servers: nobody is  *)
(* in it twice or above the limit, none overtakes another at the door, and *)
(* none is freed by a callback before it has hung up.                      *)
Room == INSTANCE ChatRoom WITH
          Limit <- MaxConns, members <- bufs, queue <- backlog,
          hung <- {c \in Clients : link[c] \in Gone}
ImplementsRoom == Room!RoomSpec

(* Who connects is accepted while there are descriptors; a line that comes *)
(* when none is held back is answered, and its answer is passed to write;  *)
(* who leaves is closed.  (A line that comes together with another may be  *)
(* held back until its client says more: line 35 takes one for each call.) *)
Live(c) == running /\ link[c] = "up"
Whole(c) == c \in bufs /\ input[c] < LineLen /\ input[c] + unread[c] >= LineLen
Served ==
  \A c \in Clients :
    /\ link[c] = "up" ~> c \in bufs \/ ~Live(c) \/ Cardinality(bufs) = limit
    /\ Whole(c) ~> <<c, "write">> \in active \/ ~Live(c)
    /\ c \in bufs /\ link[c] \in Gone ~> link[c] = "closed" \/ ~running
=============================================================================
