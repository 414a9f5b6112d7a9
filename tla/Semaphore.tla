------------------------------ MODULE Semaphore ------------------------------
(***************************************************************************)
(* test_semaphore.c: a process and its child take turns in a critical      *)
(* section guarded by a System V semaphore, every operation with SEM_UNDO. *)
(* pv() does not look at what semop returns.  The terminal may stop either *)
(* process and continue it, and either may be killed.                      *)
(***************************************************************************)
EXTENDS Integers, FiniteSets

VARIABLES
  sem,       \* the semaphore set: "none", "up", "removed"
  semval,    \* its value
  semadj,    \* what the kernel adds to the value when a process ends
  place,     \* where each process is
  stopped,   \* whether it is stopped
  failed     \* (not in the code) the processes whose P failed

semvars == <<sem, semval, semadj, place, stopped, failed>>

Procs == {"parent", "child"}
Dead == {"done", "killed"}

SemInit ==
  /\ sem = "none"
  /\ semval = 0
  /\ semadj = [p \in Procs |-> 0]
  /\ place = [p \in Procs |-> IF p = "parent" THEN "semget" ELSE "unborn"]
  /\ stopped = [p \in Procs |-> FALSE]
  /\ failed = {}

-----------------------------------------------------------------------------
(* The kernel.  A process waiting in semop is given the semaphore by       *)
(* whoever makes its value positive, in the same step.                     *)
Settle(value, adj, pc) ==
  LET waiting == {q \in Procs : pc[q] = "blocked"}
  IN  \/ /\ value > 0 /\ waiting # {}
         /\ \E q \in waiting :
              /\ semval' = value - 1
              /\ semadj' = [adj EXCEPT ![q] = @ + 1]
              /\ place' = [pc EXCEPT ![q] = "critical"]
      \/ /\ value = 0 \/ waiting = {}
         /\ semval' = value /\ semadj' = adj /\ place' = pc

(* The end of a process, with the kernel's undo, which stops at zero.      *)
End(p, how) ==
  LET undone == IF semval + semadj[p] > 0 THEN semval + semadj[p] ELSE 0
  IN  Settle(undone, [semadj EXCEPT ![p] = 0], [place EXCEPT ![p] = how])

(* A stop ends a wait in semop: it returns EINTR once the process goes on. *)
Stop(p) ==
  /\ place[p] \notin Dead \cup {"unborn"} /\ ~stopped[p]
  /\ stopped' = [stopped EXCEPT ![p] = TRUE]
  /\ place' = [place EXCEPT ![p] = IF @ = "blocked" THEN "critical" ELSE @]
  /\ failed' = failed \cup {q \in {p} : place[q] = "blocked"}
  /\ UNCHANGED <<sem, semval, semadj>>

Continue(p) ==
  /\ stopped[p]
  /\ stopped' = [stopped EXCEPT ![p] = FALSE]
  /\ UNCHANGED <<sem, semval, semadj, place, failed>>

(* Mutant of Kill: P was performed without SEM_UNDO.                       *)
Kill_NoUndo(p) ==
  /\ place[p] \notin Dead \cup {"unborn"}
  /\ place' = [place EXCEPT ![p] = "killed"]
  /\ stopped' = [stopped EXCEPT ![p] = FALSE]
  /\ UNCHANGED <<sem, semval, semadj, failed>>

Kill(p) ==
  /\ place[p] \notin Dead \cup {"unborn"}
  /\ End(p, "killed")
  /\ stopped' = [stopped EXCEPT ![p] = FALSE]
  /\ UNCHANGED <<sem, failed>>

-----------------------------------------------------------------------------
(* The program.                                                            *)

At(p, here) == place[p] = here /\ ~stopped[p]
Goto(p, there) == place' = [place EXCEPT ![p] = there]

(* semget creates the set with value 0, or fails, which nobody notices.    *)
Semget ==
  /\ At("parent", "semget")
  /\ sem' \in {"up", "none"}
  /\ Goto("parent", "setval")
  /\ UNCHANGED <<semval, semadj, stopped, failed>>

(* Mutant of Setval: the value given to the semaphore is the size of the   *)
(* family, not the number allowed in.                                      *)
Setval_Two ==
  /\ At("parent", "setval")
  /\ semval' = IF sem = "up" THEN 2 ELSE semval
  /\ Goto("parent", "fork")
  /\ UNCHANGED <<sem, semadj, stopped, failed>>

Setval ==
  /\ At("parent", "setval")
  /\ semval' = IF sem = "up" THEN 1 ELSE semval
  /\ Goto("parent", "fork")
  /\ UNCHANGED <<sem, semadj, stopped, failed>>

Fork ==
  /\ At("parent", "fork")
  /\ place' = [p \in Procs |-> "p"]
  /\ UNCHANGED <<sem, semval, semadj, stopped, failed>>

ForkFails ==
  /\ At("parent", "fork")
  /\ End("parent", "done")
  /\ UNCHANGED <<sem, stopped, failed>>

(* pv(sem_id, -1): the process waits for a positive value.                 *)
P(p) ==
  /\ At(p, "p")
  /\ IF sem = "up"
     THEN Settle(semval, semadj, [place EXCEPT ![p] = "blocked"]) /\ failed' = failed
     ELSE Goto(p, "critical") /\ failed' = failed \cup {p} /\ UNCHANGED <<semval, semadj>>
  /\ UNCHANGED <<sem, stopped>>

AfterV(p) == IF p = "parent" THEN "waitpid" ELSE "exit"

(* Mutant of V: V is performed without SEM_UNDO.                           *)
V_NoUndo(p) ==
  /\ At(p, "critical")
  /\ IF sem = "up"
     THEN Settle(semval + 1, semadj, [place EXCEPT ![p] = AfterV(p)])
     ELSE Goto(p, AfterV(p)) /\ UNCHANGED <<semval, semadj>>
  /\ UNCHANGED <<sem, stopped, failed>>

(* pv(sem_id, 1), after the sleep in the critical section.                 *)
V(p) ==
  /\ At(p, "critical")
  /\ IF sem = "up"
     THEN Settle(semval + 1, [semadj EXCEPT ![p] = @ - 1], [place EXCEPT ![p] = AfterV(p)])
     ELSE Goto(p, AfterV(p)) /\ UNCHANGED <<semval, semadj>>
  /\ UNCHANGED <<sem, stopped, failed>>

Exit ==
  /\ At("child", "exit")
  /\ End("child", "done")
  /\ UNCHANGED <<sem, stopped, failed>>

(* Mutant of Waitpid: it does not wait.                                    *)
Waitpid_NoHang ==
  /\ At("parent", "waitpid")
  /\ Goto("parent", "remove")
  /\ UNCHANGED <<sem, semval, semadj, stopped, failed>>

Waitpid ==
  /\ At("parent", "waitpid")
  /\ place["child"] \in Dead
  /\ Goto("parent", "remove")
  /\ UNCHANGED <<sem, semval, semadj, stopped, failed>>

(* semctl(IPC_RMID) and the end of main.                                   *)
Remove ==
  /\ At("parent", "remove")
  /\ sem' = IF sem = "up" THEN "removed" ELSE sem
  /\ Goto("parent", "done")
  /\ semadj' = [semadj EXCEPT !["parent"] = 0]
  /\ semval' = 0
  /\ UNCHANGED <<stopped, failed>>

-----------------------------------------------------------------------------
Main == Semget \/ Setval \/ Fork \/ ForkFails \/ Waitpid \/ Remove
Step(p) == P(p) \/ V(p) \/ (p = "parent" /\ Main) \/ (p = "child" /\ Exit)
Signal(p) == Stop(p) \/ Continue(p) \/ Kill(p)

SemNext == \E p \in Procs : Step(p) \/ Signal(p)

SemSpec == SemInit /\ [][SemNext]_semvars

(* A process that is not stopped keeps running.                            *)
SemFairSpec == SemSpec /\ \A p \in Procs : WF_semvars(Step(p))
-----------------------------------------------------------------------------
(* Correctness.                                                            *)

(* Every variable has its type.                                            *)
SemTypeOK ==
  /\ sem \in {"none", "up", "removed"}
  /\ semval \in 0 .. 2
  /\ semadj \in [Procs -> -1 .. 1]
  /\ place \in [Procs -> {"unborn", "semget", "setval", "fork", "p", "blocked", "critical",
                          "waitpid", "exit", "remove"} \cup Dead]
  /\ stopped \in [Procs -> BOOLEAN]
  /\ failed \subseteq Procs

(* Once the child runs, the value and what the kernel would give back make *)
(* one, whatever failed, was interrupted or died (lines 37-38, SEM_UNDO):  *)
(* when both processes have ended, however they did, the section is free.  *)
Conserved ==
  sem = "up" /\ place["child"] # "unborn" => semval + semadj["parent"] + semadj["child"] = 1

(* Two processes are in the critical section only if a P failed.           *)
ExclusiveUnlessFailed ==
  (\A p \in Procs : place[p] = "critical") => failed # {}

(* The set is removed only when the child can use it no more (81-82).      *)
RemovedLast == sem = "removed" => place["child"] \in Dead

(* A process does not wait for ever: the other gives the semaphore back or *)
(* dies and the kernel does, unless it is stopped in its critical section. *)
NotForever ==
  \A p, q \in Procs : p # q => (place[p] = "blocked") ~> (place[p] # "blocked" \/ stopped[q])
=============================================================================
