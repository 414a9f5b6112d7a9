----------------------------- MODULE MCOneShot ------------------------------
(* The one-shot server on a small instance. *)
EXTENDS OneShot

MCFds2 == 1 .. 2
MClistenfd == 0
=============================================================================
