------------------------------ MODULE MCShmChild ------------------------------
(* The child of the shared-memory chat server on a small instance. *)
EXTENDS ShmChild
=============================================================================
