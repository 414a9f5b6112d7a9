----------------------------- MODULE MCSemaphore -----------------------------
(* The two processes and their semaphore: the whole system, which is finite *)
(* and needs no bound.                                                      *)
EXTENDS Semaphore
=============================================================================
