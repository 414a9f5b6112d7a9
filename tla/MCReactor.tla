----------------------------- MODULE MCReactor ------------------------------
(* The reactor on small instances. *)
EXTENDS Reactor, TLC

MCFds2 == 1 .. 2
MCFds3 == 1 .. 3
MClfd == 4
MCOne == {{}, {1}}
MCSome == {{}, {1, 2}}

Symmetry == Permutations(Clients)
=============================================================================
