------------------------------ MODULE MCLineEcho ------------------------------
(* The line server on a small instance. *)
EXTENDS LineEcho
=============================================================================
