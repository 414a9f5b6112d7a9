---------------------------- MODULE MCChatServer ----------------------------
(* The chat server on small instances. *)
EXTENDS ChatServer, TLC

MCFds == 1 .. 3
MCFds4 == 1 .. 4
MClistenfd == 0

Symmetry == Permutations(Clients)

=============================================================================
