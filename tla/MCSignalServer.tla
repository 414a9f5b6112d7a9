--------------------------- MODULE MCSignalServer ----------------------------
(* The signal server on small instances. *)
EXTENDS SignalServer
=============================================================================
