------------------------------- MODULE MCProc -------------------------------
EXTENDS Proc, TLC
Harts == Permutations(CPU)

(* The family in which StaleParentHarmless fails: init, a child in slot 2, *)
(* its child in 3 and that one's child in 4, which forks a process 5 into  *)
(* slot 2 after init has reaped the first one there.  Nobody but init      *)
(* waits, process 4 and its parent stay alive, and timer interrupts come   *)
(* between system calls.                                                   *)
InWait == {"wait", "kids", "kid", "nokid", "slept"}
Family ==
  /\ \A p \in Slot \ {initproc} : /\ pid[p] \in {0, p} \/ (p = 2 /\ pid[p] = 5)
                                  /\ pid[p] = p => parent[p] \in {initproc, p - 1}
                                  /\ pc[p] \notin InWait
  /\ pid[2] = 5 => parent[2] \in {initproc, 4}
  /\ pid[4] = 4 => parent[4] = 3 /\ pc[4] \in {"forkret", "user", "fork", "ret"}
  /\ \A p \in Slot : inYield[p] = "yes" => pc[p] \in {"user", "ret"}
  /\ pc[initproc] \in InWait \cup {"forkret", "user", "fork", "ret"}
=============================================================================
