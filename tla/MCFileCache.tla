----------------------------- MODULE MCFileCache ------------------------------
(* The file cache on a small instance. *)
EXTENDS FileCache
=============================================================================
