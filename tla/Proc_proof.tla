----------------------------- MODULE Proc_proof ------------------------------
(***************************************************************************)
(* The process table, for every number of harts and of slots: a process is *)
(* on one hart, exiting processes leave no orphans, wait() misses no exit, *)
(* and nobody spins for a lock in a cycle that a stale parent is not part  *)
(* of.                                                                     *)
(***************************************************************************)
EXTENDS Proc, TLAPS

(* The slots of the table, and the scheduler's next one. *)
LEMMA SlotFacts ==
  /\ None \notin Slot /\ initproc \in Slot /\ 1 \in Slot /\ NPROC \in Slot
  /\ initproc # None /\ initproc = 1
  /\ \A p \in Slot : /\ p \in Nat /\ p >= 1 /\ p <= NPROC
                     /\ p # NPROC => p + 1 \in Slot
                     /\ (p % NPROC) + 1 \in Slot
<1>1. \A p \in Slot : (p % NPROC) + 1 \in Slot
  <2> SUFFICES ASSUME NEW p \in Slot PROVE (p % NPROC) + 1 \in Slot
    OBVIOUS
  <2>1. p % NPROC \in 0..(NPROC - 1)
    BY NPROCAssumption DEF Slot
  <2> QED BY <2>1, NPROCAssumption DEF Slot
<1> QED BY <1>1, NPROCAssumption DEF Slot, None, initproc


(* scheduler() at a slot that is not runnable preserves the invariant. *)
LEMMA SchedScanKeeps ==
  ASSUME ProcIndInv, NEW c \in CPU, SchedScan(c) PROVE ProcIndInv'
<1> USE SlotFacts, CpuAssumption DEF ProcIndInv
<1>1. PType'
  BY DEF SchedScan, PType, Labels, States, Free, procVars, localVars
<1>2. StatePc'
  BY DEF SchedScan, StatePc, PType, Preemptible, CpuState, Free, procVars, localVars
<1>3. CpuState'
  BY DEF SchedScan, CpuState, PType, StatePc, LockOwner, OwnsSelf, Free, procVars, localVars
<1>4. LockOwner'
  BY DEF SchedScan, LockOwner, OwnsSelf, OwnsAsChild, WithOwnLock, WithParentLock, PType, CpuState, StatePc, ParentCopy, Exiting, Preemptible, Free, procVars, localVars
<1>5. Tree'
  BY DEF SchedScan, Tree, PType, StatePc, Live, States, Exiting, Free, procVars, localVars
<1>6. ParentCopy'
  BY DEF SchedScan, ParentCopy, Exiting, PType, Tree, StatePc, Free, procVars, localVars
<1>7. ChildFound'
  BY DEF SchedScan, ChildFound, PType, Tree, StatePc, Free, procVars, localVars
<1>8. GivenAway'
  BY DEF SchedScan, GivenAway, PType, Tree, StatePc, Free, procVars, localVars
<1>9. NotYetExited'
  BY DEF SchedScan, NotYetExited, PType, StatePc, Tree, Free, procVars, localVars
<1> QED BY <1>1, <1>2, <1>3, <1>4, <1>5, <1>6, <1>7, <1>8, <1>9

(* scheduler() that switches to a process preserves the invariant. *)
LEMMA SchedRunKeeps ==
  ASSUME ProcIndInv, NEW c \in CPU, SchedRun(c) PROVE ProcIndInv'
<1> USE SlotFacts, CpuAssumption DEF ProcIndInv
<1>a. PICK p \in Slot : p = scan[c]
  BY DEF PType
<1>b. /\ spc[c] = "scan" /\ lock[p] = NoCpu /\ state[p] = "RUNNABLE"
      /\ state' = [state EXCEPT ![p] = "RUNNING"] /\ lock' = [lock EXCEPT ![p] = c]
      /\ proc' = [proc EXCEPT ![c] = p] /\ spc' = [spc EXCEPT ![c] = "run"]
      /\ UNCHANGED <<parent, chan, killed, pid, nextpid, scan, localVars>>
  BY <1>a DEF SchedRun, Free
<1>c. \A d \in CPU : proc[d] # p
  <2> SUFFICES ASSUME NEW d \in CPU, proc[d] = p PROVE FALSE
    OBVIOUS
  <2>1. spc[d] # "run"
    BY <1>b DEF CpuState, StatePc
  <2>2. spc[d] # "back"
    BY <1>b DEF LockOwner, OwnsSelf
  <2> QED BY <2>1, <2>2 DEF CpuState, PType
<1>d. proc[c] = None /\ pc[p] \notin WithParentLock /\ (pc[p] \in WithOwnLock \/ inYield[p] = "yes")
  BY <1>b DEF CpuState, StatePc, Preemptible, WithParentLock, WithOwnLock
<1>1. PType'
  BY <1>a, <1>b, <1>c, <1>d DEF PType, Labels, States, localVars
<1>2. StatePc'
  BY <1>a, <1>b, <1>c, <1>d DEF StatePc, PType, Preemptible, CpuState, localVars
<1>3. CpuState'
  <2>1. \A d \in CPU : d # c => proc'[d] = proc[d] /\ spc'[d] = spc[d]
    BY <1>b DEF PType
  <2>2. proc'[c] = p /\ spc'[c] = "run" /\ scan' = scan /\ pc' = pc
    BY <1>b DEF PType, localVars
  <2>3. state'[p] = "RUNNING" /\ \A q \in Slot : q # p => state'[q] = state[q]
    BY <1>b DEF PType
  <2>4. \A d, e \in CPU : proc'[d] = proc'[e] /\ proc'[d] # None => d = e
    BY <1>c, <2>1, <2>2 DEF CpuState
  <2>5. ASSUME NEW d \in CPU
        PROVE  /\ proc'[d] = None <=> spc'[d] = "scan"
               /\ spc'[d] # "scan" => proc'[d] = scan'[d]
               /\ spc'[d] = "run" => state'[proc'[d]] = "RUNNING" \/ pc'[proc'[d]] = "sched"
               /\ spc'[d] = "back" => state'[proc'[d]] \notin {"RUNNING", "UNUSED"} /\ pc'[proc'[d]] # "sched"
    <3>1. CASE d = c
      <4>1. proc'[d] = p /\ spc'[d] = "run" /\ scan'[d] = p
        BY <1>a, <2>2, <3>1
      <4> QED BY <2>3, <4>1
    <3>2. CASE d # c
      <4>1. proc[d] # p /\ proc'[d] = proc[d] /\ spc'[d] = spc[d]
        BY <1>c, <2>1, <3>2
      <4>2. spc[d] # "scan" => proc[d] \in Slot
        BY DEF CpuState, PType
      <4>3. spc[d] # "scan" => state'[proc[d]] = state[proc[d]]
        BY <2>3, <4>1, <4>2
      <4> QED BY <2>2, <4>1, <4>3 DEF CpuState
    <3> QED BY <3>1, <3>2
  <2>6. ASSUME NEW q \in Slot, state'[q] = "RUNNING"
        PROVE  \E d \in CPU : spc'[d] = "run" /\ proc'[d] = q
    <3>1. CASE q = p
      BY <2>2, <3>1
    <3>2. CASE q # p
      <4>1. PICK d \in CPU : spc[d] = "run" /\ proc[d] = q
        BY <2>3, <2>6, <3>2 DEF CpuState
      <4>2. d # c
        BY <1>b, <4>1
      <4> QED BY <2>1, <4>1, <4>2
    <3> QED BY <3>1, <3>2
  <2> QED BY <2>4, <2>5, <2>6 DEF CpuState
<1>4. LockOwner'
  <2> SUFFICES ASSUME NEW d \in CPU, NEW q \in Slot
               PROVE  lock'[q] = d <=> OwnsSelf(d, q)' \/ OwnsAsChild(d, q)'
    BY DEF LockOwner
  <2>0. lock[q] = d <=> OwnsSelf(d, q) \/ OwnsAsChild(d, q)
    BY DEF LockOwner
  <2>1. CASE d = c
    <3>1. lock'[q] = c <=> q = p
      BY <1>b, <2>0, <2>1 DEF PType, OwnsSelf, OwnsAsChild
    <3>2. OwnsSelf(c, q)' <=> q = p
      BY <1>b, <1>d DEF PType, OwnsSelf, localVars
    <3>3. ~OwnsAsChild(c, q)'
      BY <1>b, <1>d DEF PType, OwnsAsChild, localVars
    <3> QED BY <2>1, <3>1, <3>2, <3>3
  <2>2. CASE d # c
    <3>1. lock'[q] = d <=> lock[q] = d
      BY <1>b, <2>2 DEF PType
    <3>2. (OwnsSelf(d, q)' <=> OwnsSelf(d, q)) /\ (OwnsAsChild(d, q)' <=> OwnsAsChild(d, q))
      BY <1>b, <2>2 DEF PType, OwnsSelf, OwnsAsChild, localVars
    <3> QED BY <2>0, <3>1, <3>2
  <2> QED BY <2>1, <2>2
<1>5. Tree'
  BY <1>a, <1>b, <1>c, <1>d DEF Tree, PType, StatePc, Live, States, Exiting, localVars
<1>6. ParentCopy'
  BY <1>a, <1>b, <1>c, <1>d DEF ParentCopy, Exiting, PType, Tree, StatePc, localVars
<1>7. ChildFound'
  BY <1>a, <1>b, <1>c, <1>d DEF ChildFound, PType, Tree, StatePc, localVars
<1>8. GivenAway'
  BY <1>a, <1>b, <1>c, <1>d DEF GivenAway, PType, Tree, StatePc, localVars
<1>9. NotYetExited'
  BY <1>a, <1>b, <1>c, <1>d DEF NotYetExited, PType, StatePc, Tree, localVars
<1> QED BY <1>1, <1>2, <1>3, <1>4, <1>5, <1>6, <1>7, <1>8, <1>9

(* scheduler() after the switch back preserves the invariant. *)
LEMMA SchedBackKeeps ==
  ASSUME ProcIndInv, NEW c \in CPU, SchedBack(c) PROVE ProcIndInv'
<1> USE SlotFacts, CpuAssumption DEF ProcIndInv
<1>1. PType'
  BY DEF SchedBack, PType, Labels, States, procVars, localVars
<1>2. StatePc'
  BY DEF SchedBack, StatePc, PType, Preemptible, CpuState, procVars, localVars
<1>3. CpuState'
  BY DEF SchedBack, CpuState, PType, StatePc, LockOwner, OwnsSelf, procVars, localVars
<1>4. LockOwner'
  BY DEF SchedBack, LockOwner, OwnsSelf, OwnsAsChild, WithOwnLock, WithParentLock, PType, CpuState, StatePc, ParentCopy, Exiting, Preemptible, procVars, localVars
<1>5. Tree'
  BY DEF SchedBack, Tree, PType, StatePc, Live, States, Exiting, procVars, localVars
<1>6. ParentCopy'
  BY DEF SchedBack, ParentCopy, Exiting, PType, Tree, StatePc, procVars, localVars
<1>7. ChildFound'
  BY DEF SchedBack, ChildFound, PType, Tree, StatePc, procVars, localVars
<1>8. GivenAway'
  BY DEF SchedBack, GivenAway, PType, Tree, StatePc, procVars, localVars
<1>9. NotYetExited'
  BY DEF SchedBack, NotYetExited, PType, StatePc, Tree, procVars, localVars
<1> QED BY <1>1, <1>2, <1>3, <1>4, <1>5, <1>6, <1>7, <1>8, <1>9

(* forkret() preserves the invariant. *)
LEMMA ForkretKeeps ==
  ASSUME ProcIndInv, NEW c \in CPU, NEW p \in Slot, Forkret(c, p) PROVE ProcIndInv'
<1> USE SlotFacts, CpuAssumption DEF ProcIndInv
<1>0. /\ proc[c] = p /\ spc[c] = "run" /\ \A d \in CPU : d # c => proc[d] # p
      /\ pc[p] # "sched" => state[p] = "RUNNING"
  BY DEF Forkret, At, CpuState, PType, StatePc
<1>1. PType'
  BY <1>0 DEF Forkret, PType, Labels, States, At, Goto, Steps, procVars
<1>2. StatePc'
  BY <1>0 DEF Forkret, StatePc, PType, Preemptible, CpuState, At, Goto, Steps, procVars
<1>3. CpuState'
  BY <1>0 DEF Forkret, CpuState, PType, StatePc, LockOwner, OwnsSelf, At, Goto, Steps, procVars
<1>4. LockOwner'
  BY <1>0 DEF Forkret, LockOwner, OwnsSelf, OwnsAsChild, WithOwnLock, WithParentLock, PType, CpuState, StatePc, ParentCopy, Exiting, Preemptible, At, Goto, Steps, procVars
<1>5. Tree'
  BY <1>0 DEF Forkret, Tree, PType, StatePc, Live, States, Exiting, At, Goto, Steps, procVars
<1>6. ParentCopy'
  BY <1>0 DEF Forkret, ParentCopy, Exiting, PType, Tree, StatePc, At, Goto, Steps, procVars
<1>7. ChildFound'
  BY <1>0 DEF Forkret, ChildFound, PType, Tree, StatePc, At, Goto, Steps, procVars
<1>8. GivenAway'
  BY <1>0 DEF Forkret, GivenAway, PType, Tree, StatePc, At, Goto, Steps, procVars
<1>9. NotYetExited'
  BY <1>0 DEF Forkret, NotYetExited, PType, StatePc, Tree, At, Goto, Steps, procVars
<1> QED BY <1>1, <1>2, <1>3, <1>4, <1>5, <1>6, <1>7, <1>8, <1>9

(* yield() preserves the invariant. *)
LEMMA YieldKeeps ==
  ASSUME ProcIndInv, NEW c \in CPU, NEW p \in Slot, Yield(c, p) PROVE ProcIndInv'
<1> USE SlotFacts, CpuAssumption DEF ProcIndInv
<1>0. /\ proc[c] = p /\ spc[c] = "run" /\ \A d \in CPU : d # c => proc[d] # p
      /\ pc[p] # "sched" => state[p] = "RUNNING"
  BY DEF Yield, At, CpuState, PType, StatePc
<1>b. /\ pc[p] \in Preemptible /\ inYield[p] = "no" /\ lock[p] = NoCpu
      /\ state' = [state EXCEPT ![p] = "RUNNABLE"] /\ lock' = [lock EXCEPT ![p] = c]
      /\ spc' = [spc EXCEPT ![c] = "back"] /\ inYield' = [inYield EXCEPT ![p] = "yes"]
      /\ UNCHANGED <<proc, scan, arg, pc>>
  BY DEF Yield, At, Goto, Steps, Free, procVars, cpuVars, localVars, Swtch
<1>d. /\ state'[p] = "RUNNABLE" /\ spc'[c] = "back" /\ inYield'[p] = "yes" /\ pc[p] # "sched"
      /\ \A q \in Slot : q # p => state'[q] = state[q] /\ inYield'[q] = inYield[q]
      /\ \A d \in CPU : d # c => spc'[d] = spc[d]
  BY <1>b DEF PType, Preemptible
<1>e. ASSUME NEW d \in CPU, d # c
      PROVE  /\ proc'[d] = proc[d] /\ spc'[d] = spc[d] /\ scan'[d] = scan[d]
             /\ spc[d] # "scan" => /\ proc[d] \in Slot /\ state'[proc[d]] = state[proc[d]]
                                   /\ pc'[proc[d]] = pc[proc[d]] /\ inYield'[proc[d]] = inYield[proc[d]]
                                   /\ arg'[proc[d]] = arg[proc[d]]
  BY <1>0, <1>b, <1>d, <1>e DEF CpuState, PType
<1>1. PType'
  BY <1>0 DEF Yield, PType, Labels, States, Free, Swtch
<1>2. StatePc'
  BY <1>0 DEF Yield, StatePc, PType, Preemptible, CpuState, Free, Swtch
<1>3. CpuState'
  <2>1. \A d, e \in CPU : proc'[d] = proc'[e] /\ proc'[d] # None => d = e
    BY <1>b DEF CpuState
  <2>2. ASSUME NEW d \in CPU
        PROVE  /\ proc'[d] = None <=> spc'[d] = "scan"
               /\ spc'[d] # "scan" => proc'[d] = scan'[d]
               /\ spc'[d] = "run" => state'[proc'[d]] = "RUNNING" \/ pc'[proc'[d]] = "sched"
               /\ spc'[d] = "back" => state'[proc'[d]] \notin {"RUNNING", "UNUSED"} /\ pc'[proc'[d]] # "sched"
    <3>1. CASE d = c
      BY <1>0, <1>b, <1>d, <3>1 DEF CpuState
    <3>2. CASE d # c
      BY <1>e, <3>2 DEF CpuState
    <3> QED BY <3>1, <3>2
  <2>3. ASSUME NEW q \in Slot, state'[q] = "RUNNING"
        PROVE  \E d \in CPU : spc'[d] = "run" /\ proc'[d] = q
    <3>1. PICK d \in CPU : spc[d] = "run" /\ proc[d] = q
      <4>1. state[q] = "RUNNING"
        BY <1>d, <2>3
      <4> QED BY <4>1 DEF CpuState
    <3>2. q # p
      BY <1>d, <2>3
    <3> QED BY <1>0, <1>b, <1>d, <3>1, <3>2
  <2> QED BY <2>1, <2>2, <2>3 DEF CpuState
<1>4. LockOwner'
  BY <1>0 DEF Yield, LockOwner, OwnsSelf, OwnsAsChild, WithOwnLock, WithParentLock, PType, CpuState, StatePc, ParentCopy, Exiting, Preemptible, Free, Swtch
<1>5. Tree'
  BY <1>0 DEF Yield, Tree, PType, StatePc, Live, States, Exiting, Free, Swtch
<1>6. ParentCopy'
  BY <1>0 DEF Yield, ParentCopy, Exiting, PType, Tree, StatePc, Free, Swtch
<1>7. ChildFound'
  BY <1>0 DEF Yield, ChildFound, PType, Tree, StatePc, Free, Swtch
<1>8. GivenAway'
  BY <1>0 DEF Yield, GivenAway, PType, Tree, StatePc, Free, Swtch
<1>9. NotYetExited'
  BY <1>0 DEF Yield, NotYetExited, PType, StatePc, Tree, Free, Swtch
<1> QED BY <1>1, <1>2, <1>3, <1>4, <1>5, <1>6, <1>7, <1>8, <1>9

(* The return from yield() preserves the invariant. *)
LEMMA YieldReturnKeeps ==
  ASSUME ProcIndInv, NEW c \in CPU, NEW p \in Slot, YieldReturn(c, p) PROVE ProcIndInv'
<1> USE SlotFacts, CpuAssumption DEF ProcIndInv
<1>0. /\ proc[c] = p /\ spc[c] = "run" /\ \A d \in CPU : d # c => proc[d] # p
      /\ pc[p] # "sched" => state[p] = "RUNNING"
  BY DEF YieldReturn, At, CpuState, PType, StatePc
<1>b. /\ pc[p] \in Preemptible /\ inYield[p] = "yes"
      /\ lock' = [lock EXCEPT ![p] = NoCpu]
      /\ inYield' = [inYield EXCEPT ![p] = IF pc[p] = "user" THEN "no" ELSE "back"]
      /\ UNCHANGED <<state, proc, spc, scan, arg, pc>>
  BY DEF StatePc, YieldReturn, At, Goto, Steps, Free, procVars, cpuVars, localVars
<1>d. lock[p] = c /\ inYield'[p] # "yes" /\ \A q \in Slot : q # p => inYield'[q] = inYield[q]
  BY <1>0, <1>b DEF PType, LockOwner, OwnsSelf
<1>e. ASSUME NEW d \in CPU, d # c
      PROVE  /\ proc'[d] = proc[d] /\ spc'[d] = spc[d] /\ scan'[d] = scan[d]
             /\ spc[d] # "scan" => /\ proc[d] \in Slot /\ state'[proc[d]] = state[proc[d]]
                                   /\ pc'[proc[d]] = pc[proc[d]] /\ inYield'[proc[d]] = inYield[proc[d]]
                                   /\ arg'[proc[d]] = arg[proc[d]]
  BY <1>0, <1>b, <1>d, <1>e DEF CpuState, PType
<1>1. PType'
  BY <1>0 DEF YieldReturn, PType, Labels, States, procVars
<1>2. StatePc'
  BY <1>0 DEF YieldReturn, StatePc, PType, Preemptible, CpuState, procVars
<1>3. CpuState'
  BY <1>0 DEF YieldReturn, CpuState, PType, StatePc, LockOwner, OwnsSelf, procVars
<1>4. LockOwner'
  <2> SUFFICES ASSUME NEW d \in CPU, NEW q \in Slot
               PROVE  lock'[q] = d <=> OwnsSelf(d, q)' \/ OwnsAsChild(d, q)'
    BY DEF LockOwner
  <2>0. lock[q] = d <=> OwnsSelf(d, q) \/ OwnsAsChild(d, q)
    BY DEF LockOwner
  <2>1. CASE d = c
    <3>1. lock[q] = c <=> q = p
      BY <1>0, <1>b, <2>0, <2>1 DEF OwnsSelf, OwnsAsChild, WithOwnLock, WithParentLock, Preemptible
    <3>2. lock'[q] = c <=> FALSE
      BY <1>b, <3>1 DEF PType
    <3>3. OwnsSelf(c, q)' \/ OwnsAsChild(c, q)' <=> FALSE
      BY <1>0, <1>b, <1>d DEF OwnsSelf, OwnsAsChild, WithOwnLock, WithParentLock, Preemptible
    <3> QED BY <2>1, <3>2, <3>3
  <2>2. CASE d # c
    <3>1. lock'[q] = d <=> lock[q] = d
      BY <1>0, <1>b, <1>d, <2>0, <2>2 DEF PType
    <3>2. (OwnsSelf(d, q)' <=> OwnsSelf(d, q)) /\ (OwnsAsChild(d, q)' <=> OwnsAsChild(d, q))
      BY <1>e, <2>2 DEF OwnsSelf, OwnsAsChild, CpuState
    <3> QED BY <2>0, <3>1, <3>2
  <2> QED BY <2>1, <2>2
<1>5. Tree'
  BY <1>0 DEF YieldReturn, Tree, PType, StatePc, Live, States, Exiting, procVars
<1>6. ParentCopy'
  BY <1>0 DEF YieldReturn, ParentCopy, Exiting, PType, Tree, StatePc, procVars
<1>7. ChildFound'
  BY <1>0 DEF YieldReturn, ChildFound, PType, Tree, StatePc, procVars
<1>8. GivenAway'
  BY <1>0 DEF YieldReturn, GivenAway, PType, Tree, StatePc, procVars
<1>9. NotYetExited'
  BY <1>0 DEF YieldReturn, NotYetExited, PType, StatePc, Tree, procVars
<1> QED BY <1>1, <1>2, <1>3, <1>4, <1>5, <1>6, <1>7, <1>8, <1>9

(* The call of exit() preserves the invariant. *)
LEMMA UserExitKeeps ==
  ASSUME ProcIndInv, NEW c \in CPU, NEW p \in Slot, UserExit(c, p) PROVE ProcIndInv'
<1> USE SlotFacts, CpuAssumption DEF ProcIndInv
<1>0. /\ proc[c] = p /\ spc[c] = "run" /\ \A d \in CPU : d # c => proc[d] # p
      /\ pc[p] # "sched" => state[p] = "RUNNING"
  BY DEF UserExit, At, CpuState, PType, StatePc
<1>1. PType'
  BY <1>0 DEF UserExit, PType, Labels, States, At, Goto, Steps, procVars, cpuVars
<1>2. StatePc'
  BY <1>0 DEF UserExit, StatePc, PType, Preemptible, CpuState, At, Goto, Steps, procVars, cpuVars
<1>3. CpuState'
  BY <1>0 DEF UserExit, CpuState, PType, StatePc, LockOwner, OwnsSelf, At, Goto, Steps, procVars, cpuVars
<1>4. LockOwner'
  BY <1>0 DEF UserExit, LockOwner, OwnsSelf, OwnsAsChild, WithOwnLock, WithParentLock, PType, CpuState, StatePc, ParentCopy, Exiting, Preemptible, At, Goto, Steps, procVars, cpuVars
<1>5. Tree'
  BY <1>0 DEF UserExit, Tree, PType, StatePc, Live, States, Exiting, At, Goto, Steps, procVars, cpuVars
<1>6. ParentCopy'
  BY <1>0 DEF UserExit, ParentCopy, Exiting, PType, Tree, StatePc, At, Goto, Steps, procVars, cpuVars
<1>7. ChildFound'
  BY <1>0 DEF UserExit, ChildFound, PType, Tree, StatePc, At, Goto, Steps, procVars, cpuVars
<1>8. GivenAway'
  BY <1>0 DEF UserExit, GivenAway, PType, Tree, StatePc, At, Goto, Steps, procVars, cpuVars
<1>9. NotYetExited'
  BY <1>0 DEF UserExit, NotYetExited, PType, StatePc, Tree, At, Goto, Steps, procVars, cpuVars
<1> QED BY <1>1, <1>2, <1>3, <1>4, <1>5, <1>6, <1>7, <1>8, <1>9

(* The call of fork() preserves the invariant. *)
LEMMA SysForkKeeps ==
  ASSUME ProcIndInv, NEW c \in CPU, NEW p \in Slot, SysFork(c, p) PROVE ProcIndInv'
<1> USE SlotFacts, CpuAssumption DEF ProcIndInv
<1>0. /\ proc[c] = p /\ spc[c] = "run" /\ \A d \in CPU : d # c => proc[d] # p
      /\ pc[p] # "sched" => state[p] = "RUNNING"
  BY DEF SysFork, At, CpuState, PType, StatePc
<1>1. PType'
  BY <1>0 DEF SysFork, PType, Labels, States, At, Goto, Steps, procVars, cpuVars
<1>2. StatePc'
  BY <1>0 DEF SysFork, StatePc, PType, Preemptible, CpuState, At, Goto, Steps, procVars, cpuVars
<1>3. CpuState'
  BY <1>0 DEF SysFork, CpuState, PType, StatePc, LockOwner, OwnsSelf, At, Goto, Steps, procVars, cpuVars
<1>4. LockOwner'
  BY <1>0 DEF SysFork, LockOwner, OwnsSelf, OwnsAsChild, WithOwnLock, WithParentLock, PType, CpuState, StatePc, ParentCopy, Exiting, Preemptible, At, Goto, Steps, procVars, cpuVars
<1>5. Tree'
  BY <1>0 DEF SysFork, Tree, PType, StatePc, Live, States, Exiting, At, Goto, Steps, procVars, cpuVars
<1>6. ParentCopy'
  BY <1>0 DEF SysFork, ParentCopy, Exiting, PType, Tree, StatePc, At, Goto, Steps, procVars, cpuVars
<1>7. ChildFound'
  BY <1>0 DEF SysFork, ChildFound, PType, Tree, StatePc, At, Goto, Steps, procVars, cpuVars
<1>8. GivenAway'
  BY <1>0 DEF SysFork, GivenAway, PType, Tree, StatePc, At, Goto, Steps, procVars, cpuVars
<1>9. NotYetExited'
  BY <1>0 DEF SysFork, NotYetExited, PType, StatePc, Tree, At, Goto, Steps, procVars, cpuVars
<1> QED BY <1>1, <1>2, <1>3, <1>4, <1>5, <1>6, <1>7, <1>8, <1>9

(* The call of wait() preserves the invariant. *)
LEMMA SysWaitKeeps ==
  ASSUME ProcIndInv, NEW c \in CPU, NEW p \in Slot, SysWait(c, p) PROVE ProcIndInv'
<1> USE SlotFacts, CpuAssumption DEF ProcIndInv
<1>0. /\ proc[c] = p /\ spc[c] = "run" /\ \A d \in CPU : d # c => proc[d] # p
      /\ pc[p] # "sched" => state[p] = "RUNNING"
  BY DEF SysWait, At, CpuState, PType, StatePc
<1>1. PType'
  BY <1>0 DEF SysWait, PType, Labels, States, At, Goto, Steps, procVars, cpuVars
<1>2. StatePc'
  BY <1>0 DEF SysWait, StatePc, PType, Preemptible, CpuState, At, Goto, Steps, procVars, cpuVars
<1>3. CpuState'
  BY <1>0 DEF SysWait, CpuState, PType, StatePc, LockOwner, OwnsSelf, At, Goto, Steps, procVars, cpuVars
<1>4. LockOwner'
  BY <1>0 DEF SysWait, LockOwner, OwnsSelf, OwnsAsChild, WithOwnLock, WithParentLock, PType, CpuState, StatePc, ParentCopy, Exiting, Preemptible, At, Goto, Steps, procVars, cpuVars
<1>5. Tree'
  BY <1>0 DEF SysWait, Tree, PType, StatePc, Live, States, Exiting, At, Goto, Steps, procVars, cpuVars
<1>6. ParentCopy'
  BY <1>0 DEF SysWait, ParentCopy, Exiting, PType, Tree, StatePc, At, Goto, Steps, procVars, cpuVars
<1>7. ChildFound'
  BY <1>0 DEF SysWait, ChildFound, PType, Tree, StatePc, At, Goto, Steps, procVars, cpuVars
<1>8. GivenAway'
  BY <1>0 DEF SysWait, GivenAway, PType, Tree, StatePc, At, Goto, Steps, procVars, cpuVars
<1>9. NotYetExited'
  BY <1>0 DEF SysWait, NotYetExited, PType, StatePc, Tree, At, Goto, Steps, procVars, cpuVars
<1> QED BY <1>1, <1>2, <1>3, <1>4, <1>5, <1>6, <1>7, <1>8, <1>9

(* usertrap()'s test of killed preserves the invariant. *)
LEMMA SysReturnKeeps ==
  ASSUME ProcIndInv, NEW c \in CPU, NEW p \in Slot, SysReturn(c, p) PROVE ProcIndInv'
<1> USE SlotFacts, CpuAssumption DEF ProcIndInv
<1>0. /\ proc[c] = p /\ spc[c] = "run" /\ \A d \in CPU : d # c => proc[d] # p
      /\ pc[p] # "sched" => state[p] = "RUNNING"
  BY DEF SysReturn, At, CpuState, PType, StatePc
<1>1. PType'
  BY <1>0 DEF SysReturn, PType, Labels, States, At, Goto, Steps, procVars, cpuVars
<1>2. StatePc'
  BY <1>0 DEF SysReturn, StatePc, PType, Preemptible, CpuState, At, Goto, Steps, procVars, cpuVars
<1>3. CpuState'
  BY <1>0 DEF SysReturn, CpuState, PType, StatePc, LockOwner, OwnsSelf, At, Goto, Steps, procVars, cpuVars
<1>4. LockOwner'
  BY <1>0 DEF SysReturn, LockOwner, OwnsSelf, OwnsAsChild, WithOwnLock, WithParentLock, PType, CpuState, StatePc, ParentCopy, Exiting, Preemptible, At, Goto, Steps, procVars, cpuVars
<1>5. Tree'
  BY <1>0 DEF SysReturn, Tree, PType, StatePc, Live, States, Exiting, At, Goto, Steps, procVars, cpuVars
<1>6. ParentCopy'
  BY <1>0 DEF SysReturn, ParentCopy, Exiting, PType, Tree, StatePc, At, Goto, Steps, procVars, cpuVars
<1>7. ChildFound'
  BY <1>0 DEF SysReturn, ChildFound, PType, Tree, StatePc, At, Goto, Steps, procVars, cpuVars
<1>8. GivenAway'
  BY <1>0 DEF SysReturn, GivenAway, PType, Tree, StatePc, At, Goto, Steps, procVars, cpuVars
<1>9. NotYetExited'
  BY <1>0 DEF SysReturn, NotYetExited, PType, StatePc, Tree, At, Goto, Steps, procVars, cpuVars
<1> QED BY <1>1, <1>2, <1>3, <1>4, <1>5, <1>6, <1>7, <1>8, <1>9

(* allocproc() at a slot in use preserves the invariant. *)
LEMMA ForkScanKeeps ==
  ASSUME ProcIndInv, NEW c \in CPU, NEW p \in Slot, ForkScan(c, p) PROVE ProcIndInv'
<1> USE SlotFacts, CpuAssumption DEF ProcIndInv
<1>0. /\ proc[c] = p /\ spc[c] = "run" /\ \A d \in CPU : d # c => proc[d] # p
      /\ pc[p] # "sched" => state[p] = "RUNNING"
  BY DEF ForkScan, At, CpuState, PType, StatePc
<1>1. PType'
  BY <1>0 DEF ForkScan, PType, Labels, States, At, Steps, Free, procVars, cpuVars, AdvanceOrReturn, Advance
<1>2. StatePc'
  BY <1>0 DEF ForkScan, StatePc, PType, Preemptible, CpuState, At, Steps, Free, procVars, cpuVars, AdvanceOrReturn, Advance
<1>3. CpuState'
  BY <1>0 DEF ForkScan, CpuState, PType, StatePc, LockOwner, OwnsSelf, At, Steps, Free, procVars, cpuVars, AdvanceOrReturn, Advance
<1>4. LockOwner'
  BY <1>0 DEF ForkScan, LockOwner, OwnsSelf, OwnsAsChild, WithOwnLock, WithParentLock, PType, CpuState, StatePc, ParentCopy, Exiting, Preemptible, At, Steps, Free, procVars, cpuVars, AdvanceOrReturn, Advance
<1>5. Tree'
  BY <1>0 DEF ForkScan, Tree, PType, StatePc, Live, States, Exiting, At, Steps, Free, procVars, cpuVars, AdvanceOrReturn, Advance
<1>6. ParentCopy'
  BY <1>0 DEF ForkScan, ParentCopy, Exiting, PType, Tree, StatePc, At, Steps, Free, procVars, cpuVars, AdvanceOrReturn, Advance
<1>7. ChildFound'
  BY <1>0 DEF ForkScan, ChildFound, PType, Tree, StatePc, At, Steps, Free, procVars, cpuVars, AdvanceOrReturn, Advance
<1>8. GivenAway'
  BY <1>0 DEF ForkScan, GivenAway, PType, Tree, StatePc, At, Steps, Free, procVars, cpuVars, AdvanceOrReturn, Advance
<1>9. NotYetExited'
  BY <1>0 DEF ForkScan, NotYetExited, PType, StatePc, Tree, At, Steps, Free, procVars, cpuVars, AdvanceOrReturn, Advance
<1> QED BY <1>1, <1>2, <1>3, <1>4, <1>5, <1>6, <1>7, <1>8, <1>9

(* fork() without a trapframe preserves the invariant. *)
LEMMA ForkNoTrapframeKeeps ==
  ASSUME ProcIndInv, NEW c \in CPU, NEW p \in Slot, ForkNoTrapframe(c, p) PROVE ProcIndInv'
<1> USE SlotFacts, CpuAssumption DEF ProcIndInv
<1>0. /\ proc[c] = p /\ spc[c] = "run" /\ \A d \in CPU : d # c => proc[d] # p
      /\ pc[p] # "sched" => state[p] = "RUNNING"
  BY DEF ForkNoTrapframe, ForkFound, At, CpuState, PType, StatePc
<1>1. PType'
  BY <1>0 DEF ForkNoTrapframe, PType, Labels, States, At, Goto, Steps, Free, cpuVars, ForkFound
<1>2. StatePc'
  BY <1>0 DEF ForkNoTrapframe, StatePc, PType, Preemptible, CpuState, At, Goto, Steps, Free, cpuVars, ForkFound
<1>3. CpuState'
  BY <1>0 DEF ForkNoTrapframe, CpuState, PType, StatePc, LockOwner, OwnsSelf, At, Goto, Steps, Free, cpuVars, ForkFound
<1>4. LockOwner'
  BY <1>0 DEF ForkNoTrapframe, LockOwner, OwnsSelf, OwnsAsChild, WithOwnLock, WithParentLock, PType, CpuState, StatePc, ParentCopy, Exiting, Preemptible, At, Goto, Steps, Free, cpuVars, ForkFound
<1>5. Tree'
  BY <1>0 DEF ForkNoTrapframe, Tree, PType, StatePc, Live, States, Exiting, At, Goto, Steps, Free, cpuVars, ForkFound
<1>6. ParentCopy'
  BY <1>0 DEF ForkNoTrapframe, ParentCopy, Exiting, PType, Tree, StatePc, At, Goto, Steps, Free, cpuVars, ForkFound
<1>7. ChildFound'
  BY <1>0 DEF ForkNoTrapframe, ChildFound, PType, Tree, StatePc, At, Goto, Steps, Free, cpuVars, ForkFound
<1>8. GivenAway'
  BY <1>0 DEF ForkNoTrapframe, GivenAway, PType, Tree, StatePc, At, Goto, Steps, Free, cpuVars, ForkFound
<1>9. NotYetExited'
  BY <1>0 DEF ForkNoTrapframe, NotYetExited, PType, StatePc, Tree, At, Goto, Steps, Free, cpuVars, ForkFound
<1> QED BY <1>1, <1>2, <1>3, <1>4, <1>5, <1>6, <1>7, <1>8, <1>9

(* fork() without memory preserves the invariant. *)
LEMMA ForkNoMemoryKeeps ==
  ASSUME ProcIndInv, NEW c \in CPU, NEW p \in Slot, ForkNoMemory(c, p) PROVE ProcIndInv'
<1> USE SlotFacts, CpuAssumption DEF ProcIndInv
<1>0. /\ proc[c] = p /\ spc[c] = "run" /\ \A d \in CPU : d # c => proc[d] # p
      /\ pc[p] # "sched" => state[p] = "RUNNING"
  BY DEF ForkNoMemory, ForkFound, At, CpuState, PType, StatePc
<1>a. PICK n \in Slot : n = idx[p]
  BY DEF PType
<1>b. /\ pc' = [pc EXCEPT ![p] = "ret"] /\ idx' = [idx EXCEPT ![p] = 1]
      /\ state[n] = "UNUSED" /\ parent' = [parent EXCEPT ![n] = None]
  BY <1>a DEF ForkNoMemory, At, Goto, Steps, Free, procVars, cpuVars, localVars, ForkFound, Freeproc
<1>1. PType'
  BY <1>0 DEF ForkNoMemory, PType, Labels, States, At, Goto, Steps, Free, cpuVars, ForkFound, Freeproc
<1>2. StatePc'
  BY <1>0 DEF ForkNoMemory, StatePc, PType, Preemptible, CpuState, At, Goto, Steps, Free, cpuVars, ForkFound, Freeproc
<1>3. CpuState'
  BY <1>0 DEF ForkNoMemory, CpuState, PType, StatePc, LockOwner, OwnsSelf, At, Goto, Steps, Free, cpuVars, ForkFound, Freeproc
<1>4. LockOwner'
  BY <1>0 DEF ForkNoMemory, LockOwner, OwnsSelf, OwnsAsChild, WithOwnLock, WithParentLock, PType, CpuState, StatePc, ParentCopy, Exiting, Preemptible, At, Goto, Steps, Free, cpuVars, ForkFound, Freeproc
<1>5. Tree'
  BY <1>0 DEF ForkNoMemory, Tree, PType, StatePc, Live, States, Exiting, At, Goto, Steps, Free, cpuVars, ForkFound, Freeproc
<1>6. ParentCopy'
  BY <1>0 DEF ForkNoMemory, ParentCopy, Exiting, PType, Tree, StatePc, At, Goto, Steps, Free, cpuVars, ForkFound, Freeproc
<1>7. ChildFound'
  <2> SUFFICES ASSUME NEW q \in Slot, pc'[q] \in {"give", "kid"}
               PROVE  parent'[idx'[q]] = q
    BY DEF ChildFound
  <2>1. q # p /\ pc'[q] = pc[q] /\ idx'[q] = idx[q]
    BY <1>b DEF PType
  <2>2. idx[q] \in Slot /\ parent[idx[q]] = q
    BY <2>1 DEF ChildFound, PType
  <2>3. idx[q] # n
    BY <1>b, <2>2 DEF Tree
  <2> QED BY <1>b, <2>1, <2>2, <2>3 DEF PType
<1>8. GivenAway'
  BY <1>0 DEF ForkNoMemory, GivenAway, PType, Tree, StatePc, At, Goto, Steps, Free, cpuVars, ForkFound, Freeproc
<1>9. NotYetExited'
  BY <1>0 DEF ForkNoMemory, NotYetExited, PType, StatePc, Tree, At, Goto, Steps, Free, cpuVars, ForkFound, Freeproc
<1> QED BY <1>1, <1>2, <1>3, <1>4, <1>5, <1>6, <1>7, <1>8, <1>9

(* fork() preserves the invariant. *)
LEMMA ForkChildKeeps ==
  ASSUME ProcIndInv, NEW c \in CPU, NEW p \in Slot, ForkChild(c, p) PROVE ProcIndInv'
<1> USE SlotFacts, CpuAssumption DEF ProcIndInv
<1>0. /\ proc[c] = p /\ spc[c] = "run" /\ \A d \in CPU : d # c => proc[d] # p
      /\ pc[p] # "sched" => state[p] = "RUNNING"
  BY DEF ForkChild, ForkFound, At, CpuState, PType, StatePc
<1>a. PICK n \in Slot : n = idx[p]
  BY DEF PType
<1>b. /\ pc[p] = "fork" /\ inYield[p] # "yes" /\ lock[n] = NoCpu /\ state[n] = "UNUSED"
      /\ state' = [state EXCEPT ![n] = "RUNNABLE"] /\ UNCHANGED lock
      /\ parent' = [parent EXCEPT ![n] = p] /\ idx' = [idx EXCEPT ![p] = 1]
      /\ pc' = [pc EXCEPT ![p] = "ret", ![n] = "forkret"] /\ inYield' = [inYield EXCEPT ![p] = "no"]
      /\ UNCHANGED <<proc, spc, scan, arg>>
  BY <1>a DEF ForkChild, At, Goto, Steps, Free, procVars, cpuVars, localVars, ForkFound
<1>c. n # p /\ \A d \in CPU : proc[d] # n
  <2> SUFFICES ASSUME NEW d \in CPU, proc[d] = n PROVE FALSE
    BY <1>0, <1>b
  <2>1. spc[d] # "run"
    BY <1>b DEF CpuState, StatePc, LockOwner, OwnsSelf, WithOwnLock
  <2>2. spc[d] # "back"
    BY <1>b DEF CpuState, LockOwner, OwnsSelf
  <2> QED BY <2>1, <2>2 DEF CpuState, PType
<1>d. /\ state'[n] = "RUNNABLE" /\ pc'[n] = "forkret" /\ pc'[p] = "ret" /\ inYield'[p] = "no"
      /\ state'[p] = "RUNNING"
      /\ \A q \in Slot : q # n => state'[q] = state[q]
      /\ \A q \in Slot : q # p => inYield'[q] = inYield[q]
      /\ \A q \in Slot : q # p /\ q # n => pc'[q] = pc[q]
  BY <1>0, <1>b, <1>c DEF PType
<1>e. ASSUME NEW d \in CPU, d # c
      PROVE  /\ proc'[d] = proc[d] /\ spc'[d] = spc[d] /\ scan'[d] = scan[d]
             /\ spc[d] # "scan" => /\ proc[d] \in Slot /\ state'[proc[d]] = state[proc[d]]
                                   /\ pc'[proc[d]] = pc[proc[d]] /\ inYield'[proc[d]] = inYield[proc[d]]
                                   /\ arg'[proc[d]] = arg[proc[d]]
  <2>1. proc[d] # p /\ proc[d] # n /\ (spc[d] # "scan" => proc[d] \in Slot)
    BY <1>0, <1>c, <1>e DEF CpuState, PType
  <2> QED BY <1>b, <1>d, <1>e, <2>1
<1>1. PType'
  BY <1>0 DEF ForkChild, PType, Labels, States, At, Steps, Free, cpuVars, ForkFound
<1>2. StatePc'
  BY <1>0 DEF ForkChild, StatePc, PType, Preemptible, CpuState, At, Steps, Free, cpuVars, ForkFound
<1>3. CpuState'
  <2>1. \A d, e \in CPU : proc'[d] = proc'[e] /\ proc'[d] # None => d = e
    BY <1>b DEF CpuState
  <2>2. ASSUME NEW d \in CPU
        PROVE  /\ proc'[d] = None <=> spc'[d] = "scan"
               /\ spc'[d] # "scan" => proc'[d] = scan'[d]
               /\ spc'[d] = "run" => state'[proc'[d]] = "RUNNING" \/ pc'[proc'[d]] = "sched"
               /\ spc'[d] = "back" => state'[proc'[d]] \notin {"RUNNING", "UNUSED"} /\ pc'[proc'[d]] # "sched"
    <3>1. CASE d = c
      BY <1>0, <1>b, <1>d, <3>1 DEF CpuState
    <3>2. CASE d # c
      BY <1>e, <3>2 DEF CpuState
    <3> QED BY <3>1, <3>2
  <2>3. ASSUME NEW q \in Slot, state'[q] = "RUNNING"
        PROVE  \E d \in CPU : spc'[d] = "run" /\ proc'[d] = q
    <3>1. PICK d \in CPU : spc[d] = "run" /\ proc[d] = q
      <4>1. state[q] = "RUNNING"
        BY <1>d, <2>3
      <4> QED BY <4>1 DEF CpuState
    <3> QED BY <1>0, <1>b, <1>d, <1>e, <2>3, <3>1
  <2> QED BY <2>1, <2>2, <2>3 DEF CpuState
<1>4. LockOwner'
  <2> SUFFICES ASSUME NEW d \in CPU, NEW q \in Slot
               PROVE  lock'[q] = d <=> OwnsSelf(d, q)' \/ OwnsAsChild(d, q)'
    BY DEF LockOwner
  <2>0. lock[q] = d <=> OwnsSelf(d, q) \/ OwnsAsChild(d, q)
    BY DEF LockOwner
  <2>1. CASE d = c
    <3>1. lock[q] = c <=> FALSE
      BY <1>0, <1>b, <2>0, <2>1 DEF OwnsSelf, OwnsAsChild, WithOwnLock, WithParentLock, Preemptible
    <3>2. lock'[q] = c <=> FALSE
      BY <1>b, <3>1 DEF PType
    <3>3. OwnsSelf(c, q)' \/ OwnsAsChild(c, q)' <=> FALSE
      BY <1>0, <1>b, <1>d DEF OwnsSelf, OwnsAsChild, WithOwnLock, WithParentLock, Preemptible
    <3> QED BY <2>1, <3>2, <3>3
  <2>2. CASE d # c
    <3>1. lock'[q] = d <=> lock[q] = d
      BY <1>0, <1>b, <1>d, <2>0, <2>2 DEF PType
    <3>2. (OwnsSelf(d, q)' <=> OwnsSelf(d, q)) /\ (OwnsAsChild(d, q)' <=> OwnsAsChild(d, q))
      BY <1>e, <2>2 DEF OwnsSelf, OwnsAsChild, CpuState
    <3> QED BY <2>0, <3>1, <3>2
  <2> QED BY <2>1, <2>2
<1>5. Tree'
  BY <1>0 DEF ForkChild, Tree, PType, StatePc, Live, States, Exiting, At, Steps, Free, cpuVars, ForkFound
<1>6. ParentCopy'
  BY <1>0 DEF ForkChild, ParentCopy, Exiting, PType, Tree, StatePc, At, Steps, Free, cpuVars, ForkFound
<1>7. ChildFound'
  <2> SUFFICES ASSUME NEW q \in Slot, pc'[q] \in {"give", "kid"}
               PROVE  parent'[idx'[q]] = q
    BY DEF ChildFound
  <2>1. q # p /\ q # n /\ pc'[q] = pc[q] /\ idx'[q] = idx[q]
    BY <1>b, <1>d DEF PType
  <2>2. idx[q] \in Slot /\ parent[idx[q]] = q
    BY <2>1 DEF ChildFound, PType
  <2>3. idx[q] # n
    BY <1>b, <2>2 DEF Tree
  <2> QED BY <1>b, <2>1, <2>2, <2>3 DEF PType
<1>8. GivenAway'
  BY <1>0 DEF ForkChild, GivenAway, PType, Tree, StatePc, At, Steps, Free, cpuVars, ForkFound
<1>9. NotYetExited'
  BY <1>0 DEF ForkChild, NotYetExited, PType, StatePc, Tree, At, Steps, Free, cpuVars, ForkFound
<1> QED BY <1>1, <1>2, <1>3, <1>4, <1>5, <1>6, <1>7, <1>8, <1>9

(* kill() at another pid preserves the invariant. *)
LEMMA KillScanKeeps ==
  ASSUME ProcIndInv, NEW c \in CPU, NEW p \in Slot, KillScan(c, p) PROVE ProcIndInv'
<1> USE SlotFacts, CpuAssumption DEF ProcIndInv
<1>0. /\ proc[c] = p /\ spc[c] = "run" /\ \A d \in CPU : d # c => proc[d] # p
      /\ pc[p] # "sched" => state[p] = "RUNNING"
  BY DEF KillScan, At, CpuState, PType, StatePc
<1>1. PType'
  BY <1>0 DEF KillScan, PType, Labels, States, At, Steps, Free, procVars, cpuVars, AdvanceOrReturn, Advance
<1>2. StatePc'
  BY <1>0 DEF KillScan, StatePc, PType, Preemptible, CpuState, At, Steps, Free, procVars, cpuVars, AdvanceOrReturn, Advance
<1>3. CpuState'
  BY <1>0 DEF KillScan, CpuState, PType, StatePc, LockOwner, OwnsSelf, At, Steps, Free, procVars, cpuVars, AdvanceOrReturn, Advance
<1>4. LockOwner'
  BY <1>0 DEF KillScan, LockOwner, OwnsSelf, OwnsAsChild, WithOwnLock, WithParentLock, PType, CpuState, StatePc, ParentCopy, Exiting, Preemptible, At, Steps, Free, procVars, cpuVars, AdvanceOrReturn, Advance
<1>5. Tree'
  BY <1>0 DEF KillScan, Tree, PType, StatePc, Live, States, Exiting, At, Steps, Free, procVars, cpuVars, AdvanceOrReturn, Advance
<1>6. ParentCopy'
  BY <1>0 DEF KillScan, ParentCopy, Exiting, PType, Tree, StatePc, At, Steps, Free, procVars, cpuVars, AdvanceOrReturn, Advance
<1>7. ChildFound'
  BY <1>0 DEF KillScan, ChildFound, PType, Tree, StatePc, At, Steps, Free, procVars, cpuVars, AdvanceOrReturn, Advance
<1>8. GivenAway'
  BY <1>0 DEF KillScan, GivenAway, PType, Tree, StatePc, At, Steps, Free, procVars, cpuVars, AdvanceOrReturn, Advance
<1>9. NotYetExited'
  BY <1>0 DEF KillScan, NotYetExited, PType, StatePc, Tree, At, Steps, Free, procVars, cpuVars, AdvanceOrReturn, Advance
<1> QED BY <1>1, <1>2, <1>3, <1>4, <1>5, <1>6, <1>7, <1>8, <1>9

(* kill() of its victim preserves the invariant. *)
LEMMA KillFoundKeeps ==
  ASSUME ProcIndInv, NEW c \in CPU, NEW p \in Slot, KillFound(c, p) PROVE ProcIndInv'
<1> USE SlotFacts, CpuAssumption DEF ProcIndInv
<1>0. /\ proc[c] = p /\ spc[c] = "run" /\ \A d \in CPU : d # c => proc[d] # p
      /\ pc[p] # "sched" => state[p] = "RUNNING"
  BY DEF KillFound, At, CpuState, PType, StatePc
<1>1. PType'
  BY <1>0 DEF KillFound, PType, Labels, States, At, Goto, Steps, Free, cpuVars, Return
<1>2. StatePc'
  BY <1>0 DEF KillFound, StatePc, PType, Preemptible, CpuState, At, Goto, Steps, Free, cpuVars, Return
<1>3. CpuState'
  BY <1>0 DEF KillFound, CpuState, PType, StatePc, LockOwner, OwnsSelf, At, Goto, Steps, Free, cpuVars, Return
<1>4. LockOwner'
  BY <1>0 DEF KillFound, LockOwner, OwnsSelf, OwnsAsChild, WithOwnLock, WithParentLock, PType, CpuState, StatePc, ParentCopy, Exiting, Preemptible, At, Goto, Steps, Free, cpuVars, Return
<1>5. Tree'
  BY <1>0 DEF KillFound, Tree, PType, StatePc, Live, States, Exiting, At, Goto, Steps, Free, cpuVars, Return
<1>6. ParentCopy'
  BY <1>0 DEF KillFound, ParentCopy, Exiting, PType, Tree, StatePc, At, Goto, Steps, Free, cpuVars, Return
<1>7. ChildFound'
  BY <1>0 DEF KillFound, ChildFound, PType, Tree, StatePc, At, Goto, Steps, Free, cpuVars, Return
<1>8. GivenAway'
  BY <1>0 DEF KillFound, GivenAway, PType, Tree, StatePc, At, Goto, Steps, Free, cpuVars, Return
<1>9. NotYetExited'
  BY <1>0 DEF KillFound, NotYetExited, PType, StatePc, Tree, At, Goto, Steps, Free, cpuVars, Return
<1> QED BY <1>1, <1>2, <1>3, <1>4, <1>5, <1>6, <1>7, <1>8, <1>9

(* The start of exit() preserves the invariant. *)
LEMMA ExitKeeps ==
  ASSUME ProcIndInv, NEW c \in CPU, NEW p \in Slot, Exit(c, p) PROVE ProcIndInv'
<1> USE SlotFacts, CpuAssumption DEF ProcIndInv
<1>0. /\ proc[c] = p /\ spc[c] = "run" /\ \A d \in CPU : d # c => proc[d] # p
      /\ pc[p] # "sched" => state[p] = "RUNNING"
  BY DEF Exit, At, CpuState, PType, StatePc
<1>1. PType'
  BY <1>0 DEF Exit, PType, Labels, States, At, Goto, Steps, procVars, cpuVars
<1>2. StatePc'
  BY <1>0 DEF Exit, StatePc, PType, Preemptible, CpuState, At, Goto, Steps, procVars, cpuVars
<1>3. CpuState'
  BY <1>0 DEF Exit, CpuState, PType, StatePc, LockOwner, OwnsSelf, At, Goto, Steps, procVars, cpuVars
<1>4. LockOwner'
  BY <1>0 DEF Exit, LockOwner, OwnsSelf, OwnsAsChild, WithOwnLock, WithParentLock, PType, CpuState, StatePc, ParentCopy, Exiting, Preemptible, At, Goto, Steps, procVars, cpuVars
<1>5. Tree'
  BY <1>0 DEF Exit, Tree, PType, StatePc, Live, States, Exiting, At, Goto, Steps, procVars, cpuVars
<1>6. ParentCopy'
  BY <1>0 DEF Exit, ParentCopy, Exiting, PType, Tree, StatePc, At, Goto, Steps, procVars, cpuVars
<1>7. ChildFound'
  BY <1>0 DEF Exit, ChildFound, PType, Tree, StatePc, At, Goto, Steps, procVars, cpuVars
<1>8. GivenAway'
  BY <1>0 DEF Exit, GivenAway, PType, Tree, StatePc, At, Goto, Steps, procVars, cpuVars
<1>9. NotYetExited'
  BY <1>0 DEF Exit, NotYetExited, PType, StatePc, Tree, At, Goto, Steps, procVars, cpuVars
<1> QED BY <1>1, <1>2, <1>3, <1>4, <1>5, <1>6, <1>7, <1>8, <1>9

(* The wakeup of init preserves the invariant. *)
LEMMA ExitWakeInitKeeps ==
  ASSUME ProcIndInv, NEW c \in CPU, NEW p \in Slot, ExitWakeInit(c, p) PROVE ProcIndInv'
<1> USE SlotFacts, CpuAssumption DEF ProcIndInv
<1>0. /\ proc[c] = p /\ spc[c] = "run" /\ \A d \in CPU : d # c => proc[d] # p
      /\ pc[p] # "sched" => state[p] = "RUNNING"
  BY DEF ExitWakeInit, At, CpuState, PType, StatePc
<1>1. PType'
  BY <1>0 DEF ExitWakeInit, PType, Labels, States, At, Goto, Steps, Free, cpuVars, Wakeup1
<1>2. StatePc'
  BY <1>0 DEF ExitWakeInit, StatePc, PType, Preemptible, CpuState, At, Goto, Steps, Free, cpuVars, Wakeup1
<1>3. CpuState'
  BY <1>0 DEF ExitWakeInit, CpuState, PType, StatePc, LockOwner, OwnsSelf, At, Goto, Steps, Free, cpuVars, Wakeup1
<1>4. LockOwner'
  BY <1>0 DEF ExitWakeInit, LockOwner, OwnsSelf, OwnsAsChild, WithOwnLock, WithParentLock, PType, CpuState, StatePc, ParentCopy, Exiting, Preemptible, At, Goto, Steps, Free, cpuVars, Wakeup1
<1>5. Tree'
  BY <1>0 DEF ExitWakeInit, Tree, PType, StatePc, Live, States, Exiting, At, Goto, Steps, Free, cpuVars, Wakeup1
<1>6. ParentCopy'
  BY <1>0 DEF ExitWakeInit, ParentCopy, Exiting, PType, Tree, StatePc, At, Goto, Steps, Free, cpuVars, Wakeup1
<1>7. ChildFound'
  BY <1>0 DEF ExitWakeInit, ChildFound, PType, Tree, StatePc, At, Goto, Steps, Free, cpuVars, Wakeup1
<1>8. GivenAway'
  BY <1>0 DEF ExitWakeInit, GivenAway, PType, Tree, StatePc, At, Goto, Steps, Free, cpuVars, Wakeup1
<1>9. NotYetExited'
  BY <1>0 DEF ExitWakeInit, NotYetExited, PType, StatePc, Tree, At, Goto, Steps, Free, cpuVars, Wakeup1
<1> QED BY <1>1, <1>2, <1>3, <1>4, <1>5, <1>6, <1>7, <1>8, <1>9

(* The copy of p->parent preserves the invariant. *)
LEMMA ExitGetParentKeeps ==
  ASSUME ProcIndInv, NEW c \in CPU, NEW p \in Slot, ExitGetParent(c, p) PROVE ProcIndInv'
<1> USE SlotFacts, CpuAssumption DEF ProcIndInv
<1>0. /\ proc[c] = p /\ spc[c] = "run" /\ \A d \in CPU : d # c => proc[d] # p
      /\ pc[p] # "sched" => state[p] = "RUNNING"
  BY DEF ExitGetParent, At, CpuState, PType, StatePc
<1>1. PType'
  <2>0. parent[p] \in Nat
    <3>1. parent[p] \in Slot
      BY <1>0 DEF ExitGetParent, At, Tree, PType, StatePc
    <3> QED BY <3>1
  <2>1. arg' \in [Slot -> Nat]
    BY <2>0 DEF ExitGetParent, PType
  <2> QED BY <2>1 DEF ExitGetParent, PType, Labels, Goto, Steps, procVars, cpuVars
<1>2. StatePc'
  BY <1>0 DEF ExitGetParent, StatePc, PType, Preemptible, CpuState, At, Goto, Steps, Free, procVars, cpuVars
<1>3. CpuState'
  BY <1>0 DEF ExitGetParent, CpuState, PType, StatePc, LockOwner, OwnsSelf, At, Goto, Steps, Free, procVars, cpuVars
<1>4. LockOwner'
  BY <1>0 DEF ExitGetParent, LockOwner, OwnsSelf, OwnsAsChild, WithOwnLock, WithParentLock, PType, CpuState, StatePc, ParentCopy, Exiting, Preemptible, At, Goto, Steps, Free, procVars, cpuVars
<1>5. Tree'
  BY <1>0 DEF ExitGetParent, Tree, PType, StatePc, Live, States, Exiting, At, Goto, Steps, Free, procVars, cpuVars
<1>6. ParentCopy'
  <2>1. p # initproc /\ parent[p] \in Slot /\ state[parent[p]] # "UNUSED" /\ pid[parent[p]] < pid[p]
    BY <1>0 DEF ExitGetParent, At, Tree, PType, StatePc, Live
  <2>2. parent[p] # p
    BY <2>1 DEF PType
  <2>3. parent[parent[p]] # p
    <3>0. PICK q \in Slot : q = parent[p]
      BY <2>1
    <3>1. CASE q = initproc
      <4>1. parent[q] = None
        BY <3>1 DEF Tree
      <4> QED BY <3>0, <4>1
    <3>2. CASE q # initproc
      <4>1. pid[parent[q]] < pid[q] /\ pid[q] < pid[p] /\ pid[q] \in Nat /\ pid[p] \in Nat
        BY <2>1, <3>0, <3>2 DEF Tree, PType
      <4>2. parent[q] # p
        BY <4>1
      <4> QED BY <3>0, <4>2
    <3> QED BY <3>1, <3>2
  <2>4. arg'[p] = parent[p] /\ UNCHANGED parent /\ \A q \in Slot : q # p => arg'[q] = arg[q] /\ pc'[q] = pc[q]
    BY DEF ExitGetParent, PType, Goto, procVars
  <2> QED BY <2>1, <2>2, <2>3, <2>4 DEF ParentCopy
<1>7. ChildFound'
  BY <1>0 DEF ExitGetParent, ChildFound, PType, Tree, StatePc, At, Goto, Steps, Free, procVars, cpuVars
<1>8. GivenAway'
  BY <1>0 DEF ExitGetParent, GivenAway, PType, Tree, StatePc, At, Goto, Steps, Free, procVars, cpuVars
<1>9. NotYetExited'
  BY <1>0 DEF ExitGetParent, NotYetExited, PType, StatePc, Tree, At, Goto, Steps, Free, procVars, cpuVars
<1> QED BY <1>1, <1>2, <1>3, <1>4, <1>5, <1>6, <1>7, <1>8, <1>9

(* acquire() of the parent's lock preserves the invariant. *)
LEMMA ExitLockParentKeeps ==
  ASSUME ProcIndInv, NEW c \in CPU, NEW p \in Slot, ExitLockParent(c, p) PROVE ProcIndInv'
<1> USE SlotFacts, CpuAssumption DEF ProcIndInv
<1>0. /\ proc[c] = p /\ spc[c] = "run" /\ \A d \in CPU : d # c => proc[d] # p
      /\ pc[p] # "sched" => state[p] = "RUNNING"
  BY DEF ExitLockParent, At, CpuState, PType, StatePc
<1>1. PType'
  BY <1>0 DEF ExitLockParent, PType, Labels, States, At, Goto, Steps, Free, procVars
<1>2. StatePc'
  BY <1>0 DEF ExitLockParent, StatePc, PType, Preemptible, CpuState, At, Goto, Steps, Free, procVars
<1>3. CpuState'
  BY <1>0 DEF ExitLockParent, CpuState, PType, StatePc, LockOwner, OwnsSelf, At, Goto, Steps, Free, procVars
<1>4. LockOwner'
  BY <1>0 DEF ExitLockParent, LockOwner, OwnsSelf, OwnsAsChild, WithOwnLock, WithParentLock, PType, CpuState, StatePc, ParentCopy, Exiting, Preemptible, At, Goto, Steps, Free, procVars
<1>5. Tree'
  BY <1>0 DEF ExitLockParent, Tree, PType, StatePc, Live, States, Exiting, At, Goto, Steps, Free, procVars
<1>6. ParentCopy'
  BY <1>0 DEF ExitLockParent, ParentCopy, Exiting, PType, Tree, StatePc, At, Goto, Steps, Free, procVars
<1>7. ChildFound'
  BY <1>0 DEF ExitLockParent, ChildFound, PType, Tree, StatePc, At, Goto, Steps, Free, procVars
<1>8. GivenAway'
  BY <1>0 DEF ExitLockParent, GivenAway, PType, Tree, StatePc, At, Goto, Steps, Free, procVars
<1>9. NotYetExited'
  BY <1>0 DEF ExitLockParent, NotYetExited, PType, StatePc, Tree, At, Goto, Steps, Free, procVars
<1> QED BY <1>1, <1>2, <1>3, <1>4, <1>5, <1>6, <1>7, <1>8, <1>9

(* acquire() of its own lock preserves the invariant. *)
LEMMA ExitLockSelfKeeps ==
  ASSUME ProcIndInv, NEW c \in CPU, NEW p \in Slot, ExitLockSelf(c, p) PROVE ProcIndInv'
<1> USE SlotFacts, CpuAssumption DEF ProcIndInv
<1>0. /\ proc[c] = p /\ spc[c] = "run" /\ \A d \in CPU : d # c => proc[d] # p
      /\ pc[p] # "sched" => state[p] = "RUNNING"
  BY DEF ExitLockSelf, At, CpuState, PType, StatePc
<1>1. PType'
  BY <1>0 DEF ExitLockSelf, PType, Labels, States, At, Goto, Steps, Free, procVars
<1>2. StatePc'
  BY <1>0 DEF ExitLockSelf, StatePc, PType, Preemptible, CpuState, At, Goto, Steps, Free, procVars
<1>3. CpuState'
  BY <1>0 DEF ExitLockSelf, CpuState, PType, StatePc, LockOwner, OwnsSelf, At, Goto, Steps, Free, procVars
<1>4. LockOwner'
  BY <1>0 DEF ExitLockSelf, LockOwner, OwnsSelf, OwnsAsChild, WithOwnLock, WithParentLock, PType, CpuState, StatePc, ParentCopy, Exiting, Preemptible, At, Goto, Steps, Free, procVars
<1>5. Tree'
  BY <1>0 DEF ExitLockSelf, Tree, PType, StatePc, Live, States, Exiting, At, Goto, Steps, Free, procVars
<1>6. ParentCopy'
  BY <1>0 DEF ExitLockSelf, ParentCopy, Exiting, PType, Tree, StatePc, At, Goto, Steps, Free, procVars
<1>7. ChildFound'
  BY <1>0 DEF ExitLockSelf, ChildFound, PType, Tree, StatePc, At, Goto, Steps, Free, procVars
<1>8. GivenAway'
  BY <1>0 DEF ExitLockSelf, GivenAway, PType, Tree, StatePc, At, Goto, Steps, Free, procVars
<1>9. NotYetExited'
  BY <1>0 DEF ExitLockSelf, NotYetExited, PType, StatePc, Tree, At, Goto, Steps, Free, procVars
<1> QED BY <1>1, <1>2, <1>3, <1>4, <1>5, <1>6, <1>7, <1>8, <1>9

(* reparent()'s test preserves the invariant. *)
LEMMA ReparentCheckKeeps ==
  ASSUME ProcIndInv, NEW c \in CPU, NEW p \in Slot, ReparentCheck(c, p) PROVE ProcIndInv'
<1> USE SlotFacts, CpuAssumption DEF ProcIndInv
<1>0. /\ proc[c] = p /\ spc[c] = "run" /\ \A d \in CPU : d # c => proc[d] # p
      /\ pc[p] # "sched" => state[p] = "RUNNING"
  BY DEF ReparentCheck, At, CpuState, PType, StatePc
<1>a. UNCHANGED <<procVars, cpuVars, arg, havekids>> /\ Steps(p) /\ pc[p] = "reparent" /\ inYield[p] # "yes"
  BY DEF ReparentCheck, Advance, At
<1>b. PICK l \in Labels, i \in Slot :
        /\ pc' = [pc EXCEPT ![p] = l] /\ idx' = [idx EXCEPT ![p] = i]
        /\ \/ parent[idx[p]] = p /\ l = "give" /\ i = idx[p]
           \/ parent[idx[p]] # p /\ idx[p] # NPROC /\ l = "reparent" /\ i = idx[p] + 1
           \/ parent[idx[p]] # p /\ idx[p] = NPROC /\ l = "zombie" /\ i = 1
  <2>1. idx[p] \in Slot /\ idx = [idx EXCEPT ![p] = idx[p]]
    BY DEF PType
  <2>2. CASE parent[idx[p]] = p
    BY <2>1, <2>2 DEF ReparentCheck, Labels
  <2>3. CASE parent[idx[p]] # p /\ idx[p] # NPROC
    BY <1>a, <2>1, <2>3 DEF ReparentCheck, Advance, Labels, PType
  <2>4. CASE parent[idx[p]] # p /\ idx[p] = NPROC
    BY <2>1, <2>4 DEF ReparentCheck, Advance, Labels, PType
  <2> QED BY <2>2, <2>3, <2>4
<1>1. PType'
  BY <1>0, <1>a, <1>b DEF PType, Labels, States, Steps, procVars, cpuVars
<1>2. StatePc'
  BY <1>0, <1>a, <1>b DEF StatePc, PType, Preemptible, CpuState, Steps, procVars, cpuVars
<1>3. CpuState'
  BY <1>0, <1>a, <1>b DEF CpuState, PType, StatePc, LockOwner, OwnsSelf, Steps, procVars, cpuVars
<1>4. LockOwner'
  BY <1>0, <1>a, <1>b DEF LockOwner, OwnsSelf, OwnsAsChild, WithOwnLock, WithParentLock, PType, CpuState, StatePc, ParentCopy, Exiting, Preemptible, Steps, procVars, cpuVars
<1>5. Tree'
  BY <1>0, <1>a, <1>b DEF Tree, PType, StatePc, Live, States, Exiting, Steps, procVars, cpuVars
<1>6. ParentCopy'
  BY <1>0, <1>a, <1>b DEF ParentCopy, Exiting, PType, Tree, StatePc, Steps, procVars, cpuVars
<1>7. ChildFound'
  BY <1>0, <1>a, <1>b DEF ChildFound, PType, Tree, StatePc, Steps, procVars, cpuVars
<1>8. GivenAway'
  <2> SUFFICES ASSUME NEW r \in Slot, NEW q \in Slot, parent[q] = r
               PROVE  (pc'[r] \in {"reparent", "give"} => q >= idx'[r]) /\ pc'[r] # "zombie"
    BY <1>a DEF GivenAway, procVars
  <2>1. CASE r # p
    BY <1>b, <2>1 DEF GivenAway, PType
  <2>2. CASE r = p
    <3>1. q >= idx[p] /\ q \in Nat /\ idx[p] \in Nat
      BY <1>a, <2>2 DEF GivenAway, PType
    <3>0. q <= NPROC /\ NPROC \in Nat
      OBVIOUS
    <3>2. parent[idx[p]] # p => q # idx[p] /\ idx[p] # NPROC /\ q >= idx[p] + 1
      <4> SUFFICES ASSUME parent[idx[p]] # p PROVE q # idx[p] /\ idx[p] # NPROC /\ q >= idx[p] + 1
        OBVIOUS
      <4>1. q # idx[p]
        BY <2>2
      <4> HIDE SlotFacts
      <4> QED BY <3>0, <3>1, <4>1
    <3> QED BY <1>b, <2>2, <3>1, <3>2 DEF PType
  <2> QED BY <2>1, <2>2
<1>9. NotYetExited'
  BY <1>0, <1>a, <1>b DEF NotYetExited, PType, StatePc, Tree, Steps, procVars, cpuVars
<1> QED BY <1>1, <1>2, <1>3, <1>4, <1>5, <1>6, <1>7, <1>8, <1>9

(* reparent()'s gift to init preserves the invariant. *)
LEMMA ReparentGiveKeeps ==
  ASSUME ProcIndInv, NEW c \in CPU, NEW p \in Slot, ReparentGive(c, p) PROVE ProcIndInv'
<1> USE SlotFacts, CpuAssumption DEF ProcIndInv
<1>0. /\ proc[c] = p /\ spc[c] = "run" /\ \A d \in CPU : d # c => proc[d] # p
      /\ pc[p] # "sched" => state[p] = "RUNNING"
  BY DEF ReparentGive, At, CpuState, PType, StatePc
<1>a. PICK n \in Slot : n = idx[p]
  BY DEF PType
<1>b. /\ pc[p] = "give" /\ parent' = [parent EXCEPT ![n] = initproc] /\ UNCHANGED <<state, pid, nextpid>>
      /\ pc' = [pc EXCEPT ![p] = IF n = NPROC THEN "zombie" ELSE "reparent"]
      /\ idx' = [idx EXCEPT ![p] = IF n = NPROC THEN 1 ELSE n + 1]
  BY <1>a DEF ReparentGive, At
<1>c. parent[n] = p /\ p # initproc /\ n # initproc /\ state[n] # "UNUSED" /\ pid[n] > 1
  <2>1. parent[n] = p /\ p # initproc
    BY <1>a, <1>b DEF ChildFound, Tree, Exiting
  <2>2. n # initproc /\ state[n] # "UNUSED"
    BY <2>1 DEF Tree
  <2> QED BY <2>1, <2>2 DEF Tree
<1>d. state[initproc] \in Live
  BY DEF Tree, StatePc, PType, States, Live
<1>1. PType'
  BY <1>0 DEF ReparentGive, PType, Labels, States, At, Steps, Free, cpuVars
<1>2. StatePc'
  BY <1>0 DEF ReparentGive, StatePc, PType, Preemptible, CpuState, At, Steps, Free, cpuVars
<1>3. CpuState'
  BY <1>0 DEF ReparentGive, CpuState, PType, StatePc, LockOwner, OwnsSelf, At, Steps, Free, cpuVars
<1>4. LockOwner'
  BY <1>0 DEF ReparentGive, LockOwner, OwnsSelf, OwnsAsChild, WithOwnLock, WithParentLock, PType, CpuState, StatePc, ParentCopy, Exiting, Preemptible, At, Steps, Free, cpuVars
<1>5. Tree'
  <2>1. pc'[initproc] = pc[initproc] /\ parent'[initproc] = parent[initproc]
    BY <1>b, <1>c DEF PType
  <2>2. parent'[n] = initproc /\ \A q \in Slot : q # n => parent'[q] = parent[q]
    BY <1>b DEF PType
  <2>3. ASSUME NEW q \in Slot, state[q] # "UNUSED", q # initproc
        PROVE  /\ parent'[q] # None /\ state[parent'[q]] \in Live
               /\ pid[parent'[q]] < pid[q] /\ pid[q] > 1
    <3>1. CASE q = n
      BY <1>c, <1>d, <2>2, <3>1 DEF Tree
    <3>2. CASE q # n
      BY <2>2, <2>3, <3>2 DEF Tree
    <3> QED BY <3>1, <3>2
  <2>4. ASSUME NEW q \in Slot, state[q] = "UNUSED" PROVE parent'[q] = None
    BY <1>c, <2>2, <2>4 DEF Tree
  <2> QED BY <1>b, <2>1, <2>3, <2>4 DEF Tree
<1>6. ParentCopy'
  BY <1>0 DEF ReparentGive, ParentCopy, Exiting, PType, Tree, StatePc, At, Steps, Free, cpuVars
<1>7. ChildFound'
  BY <1>0 DEF ReparentGive, ChildFound, PType, Tree, StatePc, At, Steps, Free, cpuVars
<1>8. GivenAway'
  <2> SUFFICES ASSUME NEW r \in Slot, NEW q \in Slot, parent'[q] = r
               PROVE  (pc'[r] \in {"reparent", "give"} => q >= idx'[r]) /\ pc'[r] # "zombie"
    BY DEF GivenAway
  <2>1. CASE q = n
    <3>1. r = initproc
      BY <1>b, <2>1 DEF PType
    <3>2. pc'[r] = pc[r]
      BY <1>b, <1>c, <3>1 DEF PType
    <3> QED BY <3>1, <3>2 DEF Tree, Exiting
  <2>2. CASE q # n
    <3>1. parent[q] = r
      BY <1>b, <2>2 DEF PType
    <3>2. CASE r # p
      BY <1>b, <3>1, <3>2 DEF GivenAway, PType
    <3>3. CASE r = p
      <4>1. q >= n /\ q \in Nat /\ n \in Nat /\ q <= NPROC /\ NPROC \in Nat
        BY <1>a, <1>b, <3>1, <3>3 DEF GivenAway
      <4>2. n # NPROC /\ q >= n + 1
        <5> HIDE SlotFacts
        <5> QED BY <2>2, <4>1
      <4> QED BY <1>b, <3>3, <4>2 DEF PType
    <3> QED BY <3>2, <3>3
  <2> QED BY <2>1, <2>2
<1>9. NotYetExited'
  BY <1>0 DEF ReparentGive, NotYetExited, PType, StatePc, Tree, At, Steps, Free, cpuVars
<1> QED BY <1>1, <1>2, <1>3, <1>4, <1>5, <1>6, <1>7, <1>8, <1>9

(* The step to ZOMBIE preserves the invariant. *)
LEMMA ExitZombieKeeps ==
  ASSUME ProcIndInv, NEW c \in CPU, NEW p \in Slot, ExitZombie(c, p) PROVE ProcIndInv'
<1> USE SlotFacts, CpuAssumption DEF ProcIndInv
<1>0. /\ proc[c] = p /\ spc[c] = "run" /\ \A d \in CPU : d # c => proc[d] # p
      /\ pc[p] # "sched" => state[p] = "RUNNING"
  BY DEF ExitZombie, At, CpuState, PType, StatePc
<1>a. PICK a \in Slot : a = arg[p] /\ a # p /\ parent[a] # p /\ parent[p] \in {a, initproc} /\ p # initproc
  BY DEF ExitZombie, At, ParentCopy, Exiting, Tree
<1>b. /\ pc[p] = "zombie" /\ inYield[p] # "yes"
      /\ state' = [Wakeup1(a) EXCEPT ![p] = "ZOMBIE"] /\ lock' = [lock EXCEPT ![a] = NoCpu]
      /\ pc' = [pc EXCEPT ![p] = "sched"] /\ inYield' = [inYield EXCEPT ![p] = "no"]
      /\ arg' = [arg EXCEPT ![p] = 0] /\ idx' = [idx EXCEPT ![p] = 1]
      /\ UNCHANGED <<parent, chan, pid, nextpid, proc, spc, scan>>
  BY <1>a DEF ExitZombie, At, Goto, Steps
<1>c. lock[a] = c /\ \A d \in CPU : spc[d] # "scan" /\ proc[d] = a => state[a] # "SLEEPING"
  <2>1. lock[a] = c
    <3>1. OwnsAsChild(c, a)
      BY <1>0, <1>a, <1>b DEF OwnsAsChild, WithParentLock
    <3> QED BY <3>1 DEF LockOwner
  <2> SUFFICES ASSUME NEW d \in CPU, spc[d] # "scan", proc[d] = a PROVE state[a] # "SLEEPING"
    BY <2>1
  <2>2. spc[d] # "back"
    BY <1>0, <1>a, <2>1 DEF LockOwner, OwnsSelf
  <2>3. spc[d] = "run"
    BY <2>2 DEF PType
  <2> QED BY <2>3 DEF CpuState, StatePc
<1>d. /\ state'[p] = "ZOMBIE" /\ pc'[p] = "sched" /\ inYield'[p] = "no"
      /\ state'[a] = IF chan[a] = a /\ state[a] = "SLEEPING" THEN "RUNNABLE" ELSE state[a]
      /\ \A q \in Slot : q # p /\ q # a => state'[q] = state[q]
      /\ \A q \in Slot : q # p => /\ inYield'[q] = inYield[q] /\ pc'[q] = pc[q]
                                  /\ arg'[q] = arg[q] /\ idx'[q] = idx[q]
      /\ \A q \in Slot : q # p => (state'[q] \in Live <=> state[q] \in Live) /\ (state'[q] = "UNUSED" <=> state[q] = "UNUSED")
                                /\ (state'[q] = "ZOMBIE" <=> state[q] = "ZOMBIE")
      /\ \A q \in Slot : state'[q] = "RUNNING" => state[q] = "RUNNING" /\ q # p
  <2>0. Wakeup1(a) = [state EXCEPT ![a] = IF chan[a] = a /\ state[a] = "SLEEPING" THEN "RUNNABLE" ELSE state[a]]
    BY DEF Wakeup1
  <2>1. state'[p] = "ZOMBIE" /\ state'[a] = IF chan[a] = a /\ state[a] = "SLEEPING" THEN "RUNNABLE" ELSE state[a]
    BY <1>a, <1>b, <2>0 DEF PType
  <2>2. \A q \in Slot : q # p /\ q # a => state'[q] = state[q]
    BY <1>b, <2>0 DEF PType
  <2>3. pc'[p] = "sched" /\ inYield'[p] = "no" /\ \A q \in Slot : q # p => /\ inYield'[q] = inYield[q] /\ pc'[q] = pc[q]
                                  /\ arg'[q] = arg[q] /\ idx'[q] = idx[q]
    BY <1>b DEF PType
  <2> QED BY <2>1, <2>2, <2>3 DEF Live
<1>e. ASSUME NEW d \in CPU, d # c
      PROVE  /\ proc'[d] = proc[d] /\ spc'[d] = spc[d] /\ scan'[d] = scan[d]
             /\ spc[d] # "scan" => /\ proc[d] \in Slot /\ state'[proc[d]] = state[proc[d]]
                                   /\ pc'[proc[d]] = pc[proc[d]] /\ inYield'[proc[d]] = inYield[proc[d]]
                                   /\ arg'[proc[d]] = arg[proc[d]]
  <2>1. proc[d] # p /\ (spc[d] # "scan" => proc[d] \in Slot)
    BY <1>0, <1>e DEF CpuState, PType
  <2>2. spc[d] # "scan" => state'[proc[d]] = state[proc[d]]
    BY <1>c, <1>d, <2>1
  <2> QED BY <1>b, <1>d, <2>1, <2>2
<1>f. \A q \in Slot : parent[q] # p
  BY <1>b DEF GivenAway
<1>1. PType'
  BY <1>0 DEF ExitZombie, PType, Labels, States, At, Goto, Steps, Wakeup1
<1>2. StatePc'
  BY <1>0 DEF ExitZombie, StatePc, PType, Preemptible, CpuState, At, Goto, Steps, Wakeup1
<1>3. CpuState'
  <2>1. \A d, e \in CPU : proc'[d] = proc'[e] /\ proc'[d] # None => d = e
    BY <1>b DEF CpuState
  <2>2. ASSUME NEW d \in CPU
        PROVE  /\ proc'[d] = None <=> spc'[d] = "scan"
               /\ spc'[d] # "scan" => proc'[d] = scan'[d]
               /\ spc'[d] = "run" => state'[proc'[d]] = "RUNNING" \/ pc'[proc'[d]] = "sched"
               /\ spc'[d] = "back" => state'[proc'[d]] \notin {"RUNNING", "UNUSED"} /\ pc'[proc'[d]] # "sched"
    <3>1. CASE d = c
      BY <1>0, <1>b, <1>d, <3>1 DEF CpuState
    <3>2. CASE d # c
      BY <1>e, <3>2 DEF CpuState
    <3> QED BY <3>1, <3>2
  <2>3. ASSUME NEW q \in Slot, state'[q] = "RUNNING"
        PROVE  \E d \in CPU : spc'[d] = "run" /\ proc'[d] = q
    <3>1. PICK d \in CPU : spc[d] = "run" /\ proc[d] = q
      <4>1. state[q] = "RUNNING"
        BY <1>d, <2>3
      <4> QED BY <4>1 DEF CpuState
    <3> QED BY <1>b, <3>1
  <2> QED BY <2>1, <2>2, <2>3 DEF CpuState
<1>4. LockOwner'
  <2> SUFFICES ASSUME NEW d \in CPU, NEW q \in Slot
               PROVE  lock'[q] = d <=> OwnsSelf(d, q)' \/ OwnsAsChild(d, q)'
    BY DEF LockOwner
  <2>0. lock[q] = d <=> OwnsSelf(d, q) \/ OwnsAsChild(d, q)
    BY DEF LockOwner
  <2>1. CASE d = c
    <3>1. lock[q] = c <=> q = p \/ q = a
      BY <1>0, <1>a, <1>b, <2>0, <2>1 DEF OwnsSelf, OwnsAsChild, WithOwnLock, WithParentLock, Preemptible
    <3>2. lock'[q] = c <=> q = p
      BY <1>a, <1>b, <3>1 DEF PType
    <3>3. OwnsSelf(c, q)' \/ OwnsAsChild(c, q)' <=> q = p
      BY <1>0, <1>b, <1>d DEF OwnsSelf, OwnsAsChild, WithOwnLock, WithParentLock, Preemptible
    <3> QED BY <2>1, <3>2, <3>3
  <2>2. CASE d # c
    <3>1. lock'[q] = d <=> lock[q] = d
      BY <1>0, <1>b, <1>c, <1>d, <2>0, <2>2 DEF PType
    <3>2. (OwnsSelf(d, q)' <=> OwnsSelf(d, q)) /\ (OwnsAsChild(d, q)' <=> OwnsAsChild(d, q))
      BY <1>e, <2>2 DEF OwnsSelf, OwnsAsChild, CpuState
    <3> QED BY <2>0, <3>1, <3>2
  <2> QED BY <2>1, <2>2
<1>5. Tree'
  <2>1. pc'[initproc] = pc[initproc]
    BY <1>a, <1>d
  <2>2. ASSUME NEW q \in Slot, state'[q] = "UNUSED" PROVE parent[q] = None
    BY <1>d, <2>2 DEF Tree
  <2>3. ASSUME NEW q \in Slot, state'[q] # "UNUSED", q # initproc
        PROVE  /\ parent[q] # None /\ state'[parent[q]] \in Live
               /\ pid[parent[q]] < pid[q] /\ pid[q] > 1
    <3>1. state[q] # "UNUSED"
      BY <1>0, <1>b, <1>d, <2>3
    <3>2. parent[q] \in Slot /\ parent[q] # p
      BY <1>f, <2>3, <3>1 DEF Tree, PType
    <3> QED BY <1>d, <2>3, <3>1, <3>2 DEF Tree
  <2> QED BY <1>b, <2>1, <2>2, <2>3 DEF Tree
<1>6. ParentCopy'
  BY <1>0 DEF ExitZombie, ParentCopy, Exiting, PType, Tree, StatePc, At, Goto, Steps, Wakeup1
<1>7. ChildFound'
  BY <1>0 DEF ExitZombie, ChildFound, PType, Tree, StatePc, At, Goto, Steps, Wakeup1
<1>8. GivenAway'
  BY <1>0 DEF ExitZombie, GivenAway, PType, Tree, StatePc, At, Goto, Steps, Wakeup1
<1>9. NotYetExited'
  <2> SUFFICES ASSUME NEW r \in Slot, NEW q \in Slot, r # initproc, parent[q] = r, state'[q] = "ZOMBIE"
               PROVE  /\ pc'[r] \in {"kids", "kid"} => q >= idx'[r]
                      /\ pc'[r] # "nokid" /\ state'[r] # "SLEEPING"
    BY <1>b DEF NotYetExited
  <2>1. CASE q = p
    <3>1. r = a
      BY <1>a, <2>1
    <3>2. state[a] = "SLEEPING" => chan[a] = a
      BY DEF StatePc
    <3>3. state'[r] # "SLEEPING"
      BY <1>d, <3>1, <3>2
    <3>4. pc[a] \notin {"kids", "kid", "nokid"}
      <4> SUFFICES ASSUME pc[a] \in {"kids", "kid", "nokid"} PROVE FALSE
        OBVIOUS
      <4>1. state[a] \notin {"UNUSED", "ZOMBIE", "SLEEPING", "RUNNABLE"}
        BY DEF StatePc, Preemptible
      <4>2. PICK d \in CPU : spc[d] = "run" /\ proc[d] = a
        BY <4>1 DEF CpuState, PType, States
      <4>3. lock[a] = d
        BY <4>2 DEF LockOwner, OwnsSelf, WithOwnLock
      <4> QED BY <1>0, <1>a, <1>c, <4>2, <4>3
    <3> QED BY <1>a, <1>d, <3>1, <3>3, <3>4
  <2>2. CASE q # p
    <3>1. state[q] = "ZOMBIE" /\ r # p
      BY <1>d, <1>f, <2>2
    <3>2. state'[r] = state[r] \/ state'[r] = "RUNNABLE"
      BY <1>d, <3>1
    <3>3. pc'[r] = pc[r] /\ idx'[r] = idx[r]
      BY <1>d, <3>1
    <3>4. /\ pc[r] \in {"kids", "kid"} => q >= idx[r]
          /\ pc[r] # "nokid" /\ state[r] # "SLEEPING"
      BY <3>1 DEF NotYetExited
    <3> QED BY <3>2, <3>3, <3>4
  <2> QED BY <2>1, <2>2
<1> QED BY <1>1, <1>2, <1>3, <1>4, <1>5, <1>6, <1>7, <1>8, <1>9

(* sched() of a zombie preserves the invariant. *)
LEMMA ExitSchedKeeps ==
  ASSUME ProcIndInv, NEW c \in CPU, NEW p \in Slot, ExitSched(c, p) PROVE ProcIndInv'
<1> USE SlotFacts, CpuAssumption DEF ProcIndInv
<1>0. /\ proc[c] = p /\ spc[c] = "run" /\ \A d \in CPU : d # c => proc[d] # p
      /\ pc[p] # "sched" => state[p] = "RUNNING"
  BY DEF ExitSched, At, CpuState, PType, StatePc
<1>1. PType'
  BY <1>0 DEF ExitSched, PType, Labels, States, At, Goto, Steps, procVars, Swtch
<1>2. StatePc'
  BY <1>0 DEF ExitSched, StatePc, PType, Preemptible, CpuState, At, Goto, Steps, procVars, Swtch
<1>3. CpuState'
  BY <1>0 DEF ExitSched, CpuState, PType, StatePc, LockOwner, OwnsSelf, At, Goto, Steps, procVars, Swtch
<1>4. LockOwner'
  BY <1>0 DEF ExitSched, LockOwner, OwnsSelf, OwnsAsChild, WithOwnLock, WithParentLock, PType, CpuState, StatePc, ParentCopy, Exiting, Preemptible, At, Goto, Steps, procVars, Swtch
<1>5. Tree'
  BY <1>0 DEF ExitSched, Tree, PType, StatePc, Live, States, Exiting, At, Goto, Steps, procVars, Swtch
<1>6. ParentCopy'
  BY <1>0 DEF ExitSched, ParentCopy, Exiting, PType, Tree, StatePc, At, Goto, Steps, procVars, Swtch
<1>7. ChildFound'
  BY <1>0 DEF ExitSched, ChildFound, PType, Tree, StatePc, At, Goto, Steps, procVars, Swtch
<1>8. GivenAway'
  BY <1>0 DEF ExitSched, GivenAway, PType, Tree, StatePc, At, Goto, Steps, procVars, Swtch
<1>9. NotYetExited'
  BY <1>0 DEF ExitSched, NotYetExited, PType, StatePc, Tree, At, Goto, Steps, procVars, Swtch
<1> QED BY <1>1, <1>2, <1>3, <1>4, <1>5, <1>6, <1>7, <1>8, <1>9

(* The acquire() of wait() preserves the invariant. *)
LEMMA WaitKeeps ==
  ASSUME ProcIndInv, NEW c \in CPU, NEW p \in Slot, Wait(c, p) PROVE ProcIndInv'
<1> USE SlotFacts, CpuAssumption DEF ProcIndInv
<1>0. /\ proc[c] = p /\ spc[c] = "run" /\ \A d \in CPU : d # c => proc[d] # p
      /\ pc[p] # "sched" => state[p] = "RUNNING"
  BY DEF Wait, At, CpuState, PType, StatePc
<1>1. PType'
  BY <1>0 DEF Wait, PType, Labels, States, At, Goto, Steps, Free, procVars
<1>2. StatePc'
  BY <1>0 DEF Wait, StatePc, PType, Preemptible, CpuState, At, Goto, Steps, Free, procVars
<1>3. CpuState'
  BY <1>0 DEF Wait, CpuState, PType, StatePc, LockOwner, OwnsSelf, At, Goto, Steps, Free, procVars
<1>4. LockOwner'
  BY <1>0 DEF Wait, LockOwner, OwnsSelf, OwnsAsChild, WithOwnLock, WithParentLock, PType, CpuState, StatePc, ParentCopy, Exiting, Preemptible, At, Goto, Steps, Free, procVars
<1>5. Tree'
  BY <1>0 DEF Wait, Tree, PType, StatePc, Live, States, Exiting, At, Goto, Steps, Free, procVars
<1>6. ParentCopy'
  BY <1>0 DEF Wait, ParentCopy, Exiting, PType, Tree, StatePc, At, Goto, Steps, Free, procVars
<1>7. ChildFound'
  BY <1>0 DEF Wait, ChildFound, PType, Tree, StatePc, At, Goto, Steps, Free, procVars
<1>8. GivenAway'
  BY <1>0 DEF Wait, GivenAway, PType, Tree, StatePc, At, Goto, Steps, Free, procVars
<1>9. NotYetExited'
  BY <1>0 DEF Wait, NotYetExited, PType, StatePc, Tree, At, Goto, Steps, Free, procVars
<1> QED BY <1>1, <1>2, <1>3, <1>4, <1>5, <1>6, <1>7, <1>8, <1>9

(* wait()'s unlocked test preserves the invariant. *)
LEMMA WaitCheckKeeps ==
  ASSUME ProcIndInv, NEW c \in CPU, NEW p \in Slot, WaitCheck(c, p) PROVE ProcIndInv'
<1> USE SlotFacts, CpuAssumption DEF ProcIndInv
<1>0. /\ proc[c] = p /\ spc[c] = "run" /\ \A d \in CPU : d # c => proc[d] # p
      /\ pc[p] # "sched" => state[p] = "RUNNING"
  BY DEF WaitCheck, At, CpuState, PType, StatePc
<1>a. UNCHANGED <<procVars, cpuVars, arg, havekids>> /\ Steps(p) /\ pc[p] = "kids" /\ inYield[p] # "yes"
  BY DEF WaitCheck, Advance, At
<1>b. PICK l \in Labels, i \in Slot :
        /\ pc' = [pc EXCEPT ![p] = l] /\ idx' = [idx EXCEPT ![p] = i]
        /\ \/ parent[idx[p]] = p /\ l = "kid" /\ i = idx[p]
           \/ parent[idx[p]] # p /\ idx[p] # NPROC /\ l = "kids" /\ i = idx[p] + 1
           \/ parent[idx[p]] # p /\ idx[p] = NPROC /\ l = "nokid" /\ i = 1
  <2>1. idx[p] \in Slot /\ idx = [idx EXCEPT ![p] = idx[p]]
    BY DEF PType
  <2>2. CASE parent[idx[p]] = p
    BY <2>1, <2>2 DEF WaitCheck, Labels
  <2>3. CASE parent[idx[p]] # p /\ idx[p] # NPROC
    BY <1>a, <2>1, <2>3 DEF WaitCheck, Advance, Labels, PType
  <2>4. CASE parent[idx[p]] # p /\ idx[p] = NPROC
    BY <2>1, <2>4 DEF WaitCheck, Advance, Labels, PType
  <2> QED BY <2>2, <2>3, <2>4
<1>1. PType'
  BY <1>0, <1>a, <1>b DEF PType, Labels, States, Steps, procVars, cpuVars
<1>2. StatePc'
  BY <1>0, <1>a, <1>b DEF StatePc, PType, Preemptible, CpuState, Steps, procVars, cpuVars
<1>3. CpuState'
  BY <1>0, <1>a, <1>b DEF CpuState, PType, StatePc, LockOwner, OwnsSelf, Steps, procVars, cpuVars
<1>4. LockOwner'
  BY <1>0, <1>a, <1>b DEF LockOwner, OwnsSelf, OwnsAsChild, WithOwnLock, WithParentLock, PType, CpuState, StatePc, ParentCopy, Exiting, Preemptible, Steps, procVars, cpuVars
<1>5. Tree'
  BY <1>0, <1>a, <1>b DEF Tree, PType, StatePc, Live, States, Exiting, Steps, procVars, cpuVars
<1>6. ParentCopy'
  BY <1>0, <1>a, <1>b DEF ParentCopy, Exiting, PType, Tree, StatePc, Steps, procVars, cpuVars
<1>7. ChildFound'
  BY <1>0, <1>a, <1>b DEF ChildFound, PType, Tree, StatePc, Steps, procVars, cpuVars
<1>8. GivenAway'
  BY <1>0, <1>a, <1>b DEF GivenAway, PType, Tree, StatePc, Steps, procVars, cpuVars
<1>9. NotYetExited'
  <2> SUFFICES ASSUME NEW r \in Slot, NEW q \in Slot, r # initproc, parent[q] = r, state[q] = "ZOMBIE"
               PROVE  /\ pc'[r] \in {"kids", "kid"} => q >= idx'[r]
                      /\ pc'[r] # "nokid" /\ state[r] # "SLEEPING"
    BY <1>a DEF NotYetExited, procVars
  <2>1. CASE r # p
    BY <1>b, <2>1 DEF NotYetExited, PType
  <2>2. CASE r = p
    <3>1. q >= idx[p] /\ q \in Nat /\ idx[p] \in Nat /\ state[p] # "SLEEPING"
      BY <1>a, <2>2 DEF NotYetExited, PType
    <3>0. q <= NPROC /\ NPROC \in Nat
      OBVIOUS
    <3>2. parent[idx[p]] # p => q # idx[p] /\ idx[p] # NPROC /\ q >= idx[p] + 1
      <4> SUFFICES ASSUME parent[idx[p]] # p PROVE q # idx[p] /\ idx[p] # NPROC /\ q >= idx[p] + 1
        OBVIOUS
      <4>1. q # idx[p]
        BY <2>2
      <4> HIDE SlotFacts
      <4> QED BY <3>0, <3>1, <4>1
    <3> QED BY <1>b, <2>2, <3>1, <3>2 DEF PType
  <2> QED BY <2>1, <2>2
<1> QED BY <1>1, <1>2, <1>3, <1>4, <1>5, <1>6, <1>7, <1>8, <1>9

(* wait() at a child that is alive preserves the invariant. *)
LEMMA WaitAliveKeeps ==
  ASSUME ProcIndInv, NEW c \in CPU, NEW p \in Slot, WaitAlive(c, p) PROVE ProcIndInv'
<1> USE SlotFacts, CpuAssumption DEF ProcIndInv
<1>0. /\ proc[c] = p /\ spc[c] = "run" /\ \A d \in CPU : d # c => proc[d] # p
      /\ pc[p] # "sched" => state[p] = "RUNNING"
  BY DEF WaitAlive, At, CpuState, PType, StatePc
<1>1. PType'
  BY <1>0 DEF WaitAlive, PType, Labels, States, At, Steps, Free, procVars, cpuVars
<1>2. StatePc'
  BY <1>0 DEF WaitAlive, StatePc, PType, Preemptible, CpuState, At, Steps, Free, procVars, cpuVars
<1>3. CpuState'
  BY <1>0 DEF WaitAlive, CpuState, PType, StatePc, LockOwner, OwnsSelf, At, Steps, Free, procVars, cpuVars
<1>4. LockOwner'
  BY <1>0 DEF WaitAlive, LockOwner, OwnsSelf, OwnsAsChild, WithOwnLock, WithParentLock, PType, CpuState, StatePc, ParentCopy, Exiting, Preemptible, At, Steps, Free, procVars, cpuVars
<1>5. Tree'
  BY <1>0 DEF WaitAlive, Tree, PType, StatePc, Live, States, Exiting, At, Steps, Free, procVars, cpuVars
<1>6. ParentCopy'
  BY <1>0 DEF WaitAlive, ParentCopy, Exiting, PType, Tree, StatePc, At, Steps, Free, procVars, cpuVars
<1>7. ChildFound'
  BY <1>0 DEF WaitAlive, ChildFound, PType, Tree, StatePc, At, Steps, Free, procVars, cpuVars
<1>8. GivenAway'
  BY <1>0 DEF WaitAlive, GivenAway, PType, Tree, StatePc, At, Steps, Free, procVars, cpuVars
<1>9. NotYetExited'
  <2>a. /\ pc[p] = "kid" /\ UNCHANGED <<state, parent>> /\ state[idx[p]] # "ZOMBIE" /\ idx[p] \in Slot
        /\ pc' = [pc EXCEPT ![p] = IF idx[p] = NPROC THEN "nokid" ELSE "kids"]
        /\ idx' = [idx EXCEPT ![p] = IF idx[p] = NPROC THEN 1 ELSE idx[p] + 1]
    BY DEF WaitAlive, At, procVars, PType
  <2> SUFFICES ASSUME NEW r \in Slot, NEW q \in Slot, r # initproc, parent[q] = r, state[q] = "ZOMBIE"
               PROVE  /\ pc'[r] \in {"kids", "kid"} => q >= idx'[r]
                      /\ pc'[r] # "nokid" /\ state[r] # "SLEEPING"
    BY <2>a DEF NotYetExited
  <2>1. CASE r # p
    BY <2>a, <2>1 DEF NotYetExited, PType
  <2>2. CASE r = p
    <3>1. q >= idx[p] /\ q \in Nat /\ idx[p] \in Nat /\ state[p] # "SLEEPING" /\ q # idx[p]
      BY <2>a, <2>2 DEF NotYetExited, PType
    <3>0. q <= NPROC /\ NPROC \in Nat
      OBVIOUS
    <3>2. idx[p] # NPROC /\ q >= idx[p] + 1
      <4> HIDE SlotFacts
      <4> QED BY <3>0, <3>1
    <3> QED BY <2>a, <2>2, <3>1, <3>2 DEF PType
  <2> QED BY <2>1, <2>2
<1> QED BY <1>1, <1>2, <1>3, <1>4, <1>5, <1>6, <1>7, <1>8, <1>9

(* wait() that reaps preserves the invariant. *)
LEMMA WaitReapKeeps ==
  ASSUME ProcIndInv, NEW c \in CPU, NEW p \in Slot, WaitReap(c, p) PROVE ProcIndInv'
<1> USE SlotFacts, CpuAssumption DEF ProcIndInv
<1>0. /\ proc[c] = p /\ spc[c] = "run" /\ \A d \in CPU : d # c => proc[d] # p
      /\ pc[p] # "sched" => state[p] = "RUNNING"
  BY DEF WaitReap, At, CpuState, PType, StatePc
<1>a. PICK n \in Slot : n = idx[p]
  BY DEF PType
<1>b. /\ pc[p] = "kid" /\ inYield[p] # "yes" /\ lock[n] = NoCpu /\ state[n] = "ZOMBIE"
      /\ state' = [state EXCEPT ![n] = "UNUSED"] /\ lock' = [lock EXCEPT ![p] = NoCpu]
      /\ chan' = [chan EXCEPT ![n] = None]
      /\ pc' = [pc EXCEPT ![p] = "ret", ![n] = "unused"] /\ inYield' = [inYield EXCEPT ![p] = "no"]
      /\ UNCHANGED <<proc, spc, scan, arg>>
  BY <1>a DEF WaitReap, At, Goto, Steps, Free, procVars, cpuVars, localVars, Freeproc
<1>c. n # p /\ \A d \in CPU : proc[d] # n
  <2> SUFFICES ASSUME NEW d \in CPU, proc[d] = n PROVE FALSE
    BY <1>0, <1>b
  <2>1. spc[d] # "run"
    BY <1>b DEF CpuState, StatePc, LockOwner, OwnsSelf, WithOwnLock
  <2>2. spc[d] # "back"
    BY <1>b DEF CpuState, LockOwner, OwnsSelf
  <2> QED BY <2>1, <2>2 DEF CpuState, PType
<1>d. /\ state'[n] = "UNUSED" /\ pc'[n] = "unused" /\ pc'[p] = "ret" /\ inYield'[p] = "no"
      /\ state'[p] = "RUNNING" /\ lock[p] = c
      /\ \A q \in Slot : q # n => state'[q] = state[q] /\ chan'[q] = chan[q]
      /\ \A q \in Slot : q # p => inYield'[q] = inYield[q]
      /\ \A q \in Slot : q # p /\ q # n => pc'[q] = pc[q]
  BY <1>0, <1>b, <1>c DEF PType, LockOwner, OwnsSelf, WithOwnLock
<1>e. ASSUME NEW d \in CPU, d # c
      PROVE  /\ proc'[d] = proc[d] /\ spc'[d] = spc[d] /\ scan'[d] = scan[d]
             /\ spc[d] # "scan" => /\ proc[d] \in Slot /\ state'[proc[d]] = state[proc[d]]
                                   /\ pc'[proc[d]] = pc[proc[d]] /\ inYield'[proc[d]] = inYield[proc[d]]
                                   /\ arg'[proc[d]] = arg[proc[d]]
  <2>1. proc[d] # p /\ proc[d] # n /\ (spc[d] # "scan" => proc[d] \in Slot)
    BY <1>0, <1>c, <1>e DEF CpuState, PType
  <2> QED BY <1>b, <1>d, <1>e, <2>1
<1>1. PType'
  BY <1>0 DEF WaitReap, PType, Labels, States, At, Steps, Free, Freeproc
<1>2. StatePc'
  <2> SUFFICES ASSUME NEW q \in Slot
               PROVE  /\ state'[q] = "UNUSED" <=> pc'[q] = "unused"
                      /\ state'[q] = "ZOMBIE" <=> pc'[q] \in {"sched", "dead"}
                      /\ state'[q] = "SLEEPING" => pc'[q] = "slept" /\ chan'[q] = q
                      /\ state'[q] = "RUNNABLE" => pc'[q] \in {"forkret", "slept"} \/ inYield'[q] = "yes"
                      /\ inYield'[q] = "yes" => pc'[q] \in Preemptible
    BY DEF StatePc
  <2>1. CASE q = n
    BY <1>b, <1>c, <1>d, <2>1 DEF StatePc, Preemptible
  <2>2. CASE q = p
    BY <1>d, <2>2
  <2>3. CASE q # n /\ q # p
    BY <1>d, <2>3 DEF StatePc
  <2> QED BY <2>1, <2>2, <2>3
<1>3. CpuState'
  <2>1. \A d, e \in CPU : proc'[d] = proc'[e] /\ proc'[d] # None => d = e
    BY <1>b DEF CpuState
  <2>2. ASSUME NEW d \in CPU
        PROVE  /\ proc'[d] = None <=> spc'[d] = "scan"
               /\ spc'[d] # "scan" => proc'[d] = scan'[d]
               /\ spc'[d] = "run" => state'[proc'[d]] = "RUNNING" \/ pc'[proc'[d]] = "sched"
               /\ spc'[d] = "back" => state'[proc'[d]] \notin {"RUNNING", "UNUSED"} /\ pc'[proc'[d]] # "sched"
    <3>1. CASE d = c
      BY <1>0, <1>b, <1>d, <3>1 DEF CpuState
    <3>2. CASE d # c
      BY <1>e, <3>2 DEF CpuState
    <3> QED BY <3>1, <3>2
  <2>3. ASSUME NEW q \in Slot, state'[q] = "RUNNING"
        PROVE  \E d \in CPU : spc'[d] = "run" /\ proc'[d] = q
    <3>1. PICK d \in CPU : spc[d] = "run" /\ proc[d] = q
      <4>1. state[q] = "RUNNING"
        BY <1>d, <2>3
      <4> QED BY <4>1 DEF CpuState
    <3> QED BY <1>0, <1>b, <1>d, <1>e, <2>3, <3>1
  <2> QED BY <2>1, <2>2, <2>3 DEF CpuState
<1>4. LockOwner'
  <2> SUFFICES ASSUME NEW d \in CPU, NEW q \in Slot
               PROVE  lock'[q] = d <=> OwnsSelf(d, q)' \/ OwnsAsChild(d, q)'
    BY DEF LockOwner
  <2>0. lock[q] = d <=> OwnsSelf(d, q) \/ OwnsAsChild(d, q)
    BY DEF LockOwner
  <2>1. CASE d = c
    <3>1. lock[q] = c <=> q = p
      BY <1>0, <1>b, <2>0, <2>1 DEF OwnsSelf, OwnsAsChild, WithOwnLock, WithParentLock, Preemptible
    <3>2. lock'[q] = c <=> FALSE
      BY <1>b, <3>1 DEF PType
    <3>3. OwnsSelf(c, q)' \/ OwnsAsChild(c, q)' <=> FALSE
      BY <1>0, <1>b, <1>d DEF OwnsSelf, OwnsAsChild, WithOwnLock, WithParentLock, Preemptible
    <3> QED BY <2>1, <3>2, <3>3
  <2>2. CASE d # c
    <3>1. lock'[q] = d <=> lock[q] = d
      BY <1>0, <1>b, <1>d, <2>0, <2>2 DEF PType
    <3>2. (OwnsSelf(d, q)' <=> OwnsSelf(d, q)) /\ (OwnsAsChild(d, q)' <=> OwnsAsChild(d, q))
      BY <1>e, <2>2 DEF OwnsSelf, OwnsAsChild, CpuState
    <3> QED BY <2>0, <3>1, <3>2
  <2> QED BY <2>1, <2>2
<1>5. Tree'
  BY <1>0 DEF WaitReap, Tree, PType, StatePc, Live, States, Exiting, At, Steps, Free, Freeproc
<1>6. ParentCopy'
  BY <1>0 DEF WaitReap, ParentCopy, Exiting, PType, Tree, StatePc, At, Steps, Free, Freeproc
<1>7. ChildFound'
  BY <1>0 DEF WaitReap, ChildFound, PType, Tree, StatePc, At, Steps, Free, Freeproc
<1>8. GivenAway'
  BY <1>0 DEF WaitReap, GivenAway, PType, Tree, StatePc, At, Steps, Free, Freeproc
<1>9. NotYetExited'
  BY <1>0 DEF WaitReap, NotYetExited, PType, StatePc, Tree, At, Steps, Free, Freeproc
<1> QED BY <1>1, <1>2, <1>3, <1>4, <1>5, <1>6, <1>7, <1>8, <1>9

(* wait() that cannot copy the status out preserves the invariant. *)
LEMMA WaitBadAddrKeeps ==
  ASSUME ProcIndInv, NEW c \in CPU, NEW p \in Slot, WaitBadAddr(c, p) PROVE ProcIndInv'
<1> USE SlotFacts, CpuAssumption DEF ProcIndInv
<1>0. /\ proc[c] = p /\ spc[c] = "run" /\ \A d \in CPU : d # c => proc[d] # p
      /\ pc[p] # "sched" => state[p] = "RUNNING"
  BY DEF WaitBadAddr, At, CpuState, PType, StatePc
<1>1. PType'
  BY <1>0 DEF WaitBadAddr, PType, Labels, States, At, Goto, Steps, Free, procVars, Return
<1>2. StatePc'
  BY <1>0 DEF WaitBadAddr, StatePc, PType, Preemptible, CpuState, At, Goto, Steps, Free, procVars, Return
<1>3. CpuState'
  BY <1>0 DEF WaitBadAddr, CpuState, PType, StatePc, LockOwner, OwnsSelf, At, Goto, Steps, Free, procVars, Return
<1>4. LockOwner'
  BY <1>0 DEF WaitBadAddr, LockOwner, OwnsSelf, OwnsAsChild, WithOwnLock, WithParentLock, PType, CpuState, StatePc, ParentCopy, Exiting, Preemptible, At, Goto, Steps, Free, procVars, Return
<1>5. Tree'
  BY <1>0 DEF WaitBadAddr, Tree, PType, StatePc, Live, States, Exiting, At, Goto, Steps, Free, procVars, Return
<1>6. ParentCopy'
  BY <1>0 DEF WaitBadAddr, ParentCopy, Exiting, PType, Tree, StatePc, At, Goto, Steps, Free, procVars, Return
<1>7. ChildFound'
  BY <1>0 DEF WaitBadAddr, ChildFound, PType, Tree, StatePc, At, Goto, Steps, Free, procVars, Return
<1>8. GivenAway'
  BY <1>0 DEF WaitBadAddr, GivenAway, PType, Tree, StatePc, At, Goto, Steps, Free, procVars, Return
<1>9. NotYetExited'
  BY <1>0 DEF WaitBadAddr, NotYetExited, PType, StatePc, Tree, At, Goto, Steps, Free, procVars, Return
<1> QED BY <1>1, <1>2, <1>3, <1>4, <1>5, <1>6, <1>7, <1>8, <1>9

(* wait() that gives up preserves the invariant. *)
LEMMA WaitFailsKeeps ==
  ASSUME ProcIndInv, NEW c \in CPU, NEW p \in Slot, WaitFails(c, p) PROVE ProcIndInv'
<1> USE SlotFacts, CpuAssumption DEF ProcIndInv
<1>0. /\ proc[c] = p /\ spc[c] = "run" /\ \A d \in CPU : d # c => proc[d] # p
      /\ pc[p] # "sched" => state[p] = "RUNNING"
  BY DEF WaitFails, At, CpuState, PType, StatePc
<1>1. PType'
  BY <1>0 DEF WaitFails, PType, Labels, States, At, Goto, Steps, procVars, Return
<1>2. StatePc'
  BY <1>0 DEF WaitFails, StatePc, PType, Preemptible, CpuState, At, Goto, Steps, procVars, Return
<1>3. CpuState'
  BY <1>0 DEF WaitFails, CpuState, PType, StatePc, LockOwner, OwnsSelf, At, Goto, Steps, procVars, Return
<1>4. LockOwner'
  BY <1>0 DEF WaitFails, LockOwner, OwnsSelf, OwnsAsChild, WithOwnLock, WithParentLock, PType, CpuState, StatePc, ParentCopy, Exiting, Preemptible, At, Goto, Steps, procVars, Return
<1>5. Tree'
  BY <1>0 DEF WaitFails, Tree, PType, StatePc, Live, States, Exiting, At, Goto, Steps, procVars, Return
<1>6. ParentCopy'
  BY <1>0 DEF WaitFails, ParentCopy, Exiting, PType, Tree, StatePc, At, Goto, Steps, procVars, Return
<1>7. ChildFound'
  BY <1>0 DEF WaitFails, ChildFound, PType, Tree, StatePc, At, Goto, Steps, procVars, Return
<1>8. GivenAway'
  BY <1>0 DEF WaitFails, GivenAway, PType, Tree, StatePc, At, Goto, Steps, procVars, Return
<1>9. NotYetExited'
  BY <1>0 DEF WaitFails, NotYetExited, PType, StatePc, Tree, At, Goto, Steps, procVars, Return
<1> QED BY <1>1, <1>2, <1>3, <1>4, <1>5, <1>6, <1>7, <1>8, <1>9

(* sleep() in wait() preserves the invariant. *)
LEMMA WaitSleepKeeps ==
  ASSUME ProcIndInv, NEW c \in CPU, NEW p \in Slot, WaitSleep(c, p) PROVE ProcIndInv'
<1> USE SlotFacts, CpuAssumption DEF ProcIndInv
<1>0. /\ proc[c] = p /\ spc[c] = "run" /\ \A d \in CPU : d # c => proc[d] # p
      /\ pc[p] # "sched" => state[p] = "RUNNING"
  BY DEF WaitSleep, At, CpuState, PType, StatePc
<1>1. PType'
  BY <1>0 DEF WaitSleep, PType, Labels, States, At, Goto, Steps, Swtch
<1>2. StatePc'
  BY <1>0 DEF WaitSleep, StatePc, PType, Preemptible, CpuState, At, Goto, Steps, Swtch
<1>3. CpuState'
  BY <1>0 DEF WaitSleep, CpuState, PType, StatePc, LockOwner, OwnsSelf, At, Goto, Steps, Swtch
<1>4. LockOwner'
  BY <1>0 DEF WaitSleep, LockOwner, OwnsSelf, OwnsAsChild, WithOwnLock, WithParentLock, PType, CpuState, StatePc, ParentCopy, Exiting, Preemptible, At, Goto, Steps, Swtch
<1>5. Tree'
  BY <1>0 DEF WaitSleep, Tree, PType, StatePc, Live, States, Exiting, At, Goto, Steps, Swtch
<1>6. ParentCopy'
  BY <1>0 DEF WaitSleep, ParentCopy, Exiting, PType, Tree, StatePc, At, Goto, Steps, Swtch
<1>7. ChildFound'
  BY <1>0 DEF WaitSleep, ChildFound, PType, Tree, StatePc, At, Goto, Steps, Swtch
<1>8. GivenAway'
  BY <1>0 DEF WaitSleep, GivenAway, PType, Tree, StatePc, At, Goto, Steps, Swtch
<1>9. NotYetExited'
  BY <1>0 DEF WaitSleep, NotYetExited, PType, StatePc, Tree, At, Goto, Steps, Swtch
<1> QED BY <1>1, <1>2, <1>3, <1>4, <1>5, <1>6, <1>7, <1>8, <1>9

(* The return of sleep() preserves the invariant. *)
LEMMA WaitWokenKeeps ==
  ASSUME ProcIndInv, NEW c \in CPU, NEW p \in Slot, WaitWoken(c, p) PROVE ProcIndInv'
<1> USE SlotFacts, CpuAssumption DEF ProcIndInv
<1>0. /\ proc[c] = p /\ spc[c] = "run" /\ \A d \in CPU : d # c => proc[d] # p
      /\ pc[p] # "sched" => state[p] = "RUNNING"
  BY DEF WaitWoken, At, CpuState, PType, StatePc
<1>1. PType'
  BY <1>0 DEF WaitWoken, PType, Labels, States, At, Goto, Steps, cpuVars
<1>2. StatePc'
  BY <1>0 DEF WaitWoken, StatePc, PType, Preemptible, CpuState, At, Goto, Steps, cpuVars
<1>3. CpuState'
  BY <1>0 DEF WaitWoken, CpuState, PType, StatePc, LockOwner, OwnsSelf, At, Goto, Steps, cpuVars
<1>4. LockOwner'
  BY <1>0 DEF WaitWoken, LockOwner, OwnsSelf, OwnsAsChild, WithOwnLock, WithParentLock, PType, CpuState, StatePc, ParentCopy, Exiting, Preemptible, At, Goto, Steps, cpuVars
<1>5. Tree'
  BY <1>0 DEF WaitWoken, Tree, PType, StatePc, Live, States, Exiting, At, Goto, Steps, cpuVars
<1>6. ParentCopy'
  BY <1>0 DEF WaitWoken, ParentCopy, Exiting, PType, Tree, StatePc, At, Goto, Steps, cpuVars
<1>7. ChildFound'
  BY <1>0 DEF WaitWoken, ChildFound, PType, Tree, StatePc, At, Goto, Steps, cpuVars
<1>8. GivenAway'
  BY <1>0 DEF WaitWoken, GivenAway, PType, Tree, StatePc, At, Goto, Steps, cpuVars
<1>9. NotYetExited'
  BY <1>0 DEF WaitWoken, NotYetExited, PType, StatePc, Tree, At, Goto, Steps, cpuVars
<1> QED BY <1>1, <1>2, <1>3, <1>4, <1>5, <1>6, <1>7, <1>8, <1>9

(* The call of kill() preserves the invariant. *)
LEMMA SysKillKeeps ==
  ASSUME ProcIndInv, NEW c \in CPU, NEW p \in Slot, NEW n \in KillPids, SysKill(c, p, n) PROVE ProcIndInv'
<1> USE SlotFacts, CpuAssumption DEF ProcIndInv
<1>0. /\ proc[c] = p /\ spc[c] = "run" /\ \A d \in CPU : d # c => proc[d] # p
      /\ pc[p] # "sched" => state[p] = "RUNNING"
  BY DEF SysKill, At, CpuState, PType, StatePc
<1>1. PType'
  BY <1>0, KillPidsAssumption DEF SysKill, PType, Labels, Goto, Steps, procVars, cpuVars
<1>2. StatePc'
  BY <1>0 DEF SysKill, StatePc, PType, Preemptible, CpuState, At, Goto, Steps, procVars, cpuVars
<1>3. CpuState'
  BY <1>0 DEF SysKill, CpuState, PType, StatePc, LockOwner, OwnsSelf, At, Goto, Steps, procVars, cpuVars
<1>4. LockOwner'
  BY <1>0 DEF SysKill, LockOwner, OwnsSelf, OwnsAsChild, WithOwnLock, WithParentLock, PType, CpuState, StatePc, ParentCopy, Exiting, Preemptible, At, Goto, Steps, procVars, cpuVars
<1>5. Tree'
  BY <1>0 DEF SysKill, Tree, PType, StatePc, Live, States, Exiting, At, Goto, Steps, procVars, cpuVars
<1>6. ParentCopy'
  BY <1>0 DEF SysKill, ParentCopy, Exiting, PType, Tree, StatePc, At, Goto, Steps, procVars, cpuVars
<1>7. ChildFound'
  BY <1>0 DEF SysKill, ChildFound, PType, Tree, StatePc, At, Goto, Steps, procVars, cpuVars
<1>8. GivenAway'
  BY <1>0 DEF SysKill, GivenAway, PType, Tree, StatePc, At, Goto, Steps, procVars, cpuVars
<1>9. NotYetExited'
  BY <1>0 DEF SysKill, NotYetExited, PType, StatePc, Tree, At, Goto, Steps, procVars, cpuVars
<1> QED BY <1>1, <1>2, <1>3, <1>4, <1>5, <1>6, <1>7, <1>8, <1>9

-----------------------------------------------------------------------------
(* After procinit() and userinit() the invariant holds.                    *)
LEMMA InitInv == Init => ProcIndInv
<1> SUFFICES ASSUME Init PROVE ProcIndInv
  OBVIOUS
<1> USE SlotFacts, CpuAssumption DEF Init
<1>1. PType
  BY DEF PType, Labels, States
<1>2. StatePc
  BY DEF StatePc, Preemptible
<1>3. CpuState
  BY DEF CpuState
<1>4. LockOwner
  BY DEF LockOwner, OwnsSelf, OwnsAsChild
<1>5. Tree
  BY DEF Tree, Exiting
<1>6. ParentCopy /\ ChildFound /\ GivenAway /\ NotYetExited
  BY DEF ParentCopy, ChildFound, GivenAway, NotYetExited, Exiting
<1> QED BY <1>1, <1>2, <1>3, <1>4, <1>5, <1>6 DEF ProcIndInv

(* Every step of every hart preserves it.                                  *)
LEMMA StepInv == ProcIndInv /\ [Next]_vars => ProcIndInv'
<1> SUFFICES ASSUME ProcIndInv, [Next]_vars PROVE ProcIndInv'
  OBVIOUS
<1>1. CASE UNCHANGED vars
  <2> USE <1>1 DEF vars, procVars, cpuVars, localVars
  <2>1. PType' /\ StatePc' /\ CpuState' /\ Tree'
    BY DEF ProcIndInv, PType, StatePc, CpuState, Tree
  <2>2. LockOwner'
    BY DEF ProcIndInv, LockOwner, OwnsSelf, OwnsAsChild
  <2>3. ParentCopy' /\ ChildFound' /\ GivenAway' /\ NotYetExited'
    BY DEF ProcIndInv, ParentCopy, ChildFound, GivenAway, NotYetExited
  <2> QED BY <2>1, <2>2, <2>3 DEF ProcIndInv
<1>2. ASSUME NEW c \in CPU, Scheduler(c) PROVE ProcIndInv'
  BY <1>2, SchedScanKeeps, SchedRunKeeps, SchedBackKeeps DEF Scheduler
<1>3. ASSUME NEW c \in CPU, NEW p \in Slot, Trap(c, p) PROVE ProcIndInv'
  BY <1>3, ForkretKeeps, YieldKeeps, YieldReturnKeeps, UserExitKeeps, SysForkKeeps,
     SysWaitKeeps, SysKillKeeps, SysReturnKeeps DEF Trap
<1>4. ASSUME NEW c \in CPU, NEW p \in Slot, Fork(c, p) PROVE ProcIndInv'
  BY <1>4, ForkScanKeeps, ForkNoTrapframeKeeps, ForkNoMemoryKeeps, ForkChildKeeps DEF Fork
<1>5. ASSUME NEW c \in CPU, NEW p \in Slot, Kill(c, p) PROVE ProcIndInv'
  BY <1>5, KillScanKeeps, KillFoundKeeps DEF Kill
<1>6. ASSUME NEW c \in CPU, NEW p \in Slot, Exits(c, p) PROVE ProcIndInv'
  BY <1>6, ExitKeeps, ExitWakeInitKeeps, ExitGetParentKeeps, ExitLockParentKeeps,
     ExitLockSelfKeeps, ReparentCheckKeeps, ReparentGiveKeeps, ExitZombieKeeps,
     ExitSchedKeeps DEF Exits
<1>7. ASSUME NEW c \in CPU, NEW p \in Slot, Waits(c, p) PROVE ProcIndInv'
  BY <1>7, WaitKeeps, WaitCheckKeeps, WaitAliveKeeps, WaitReapKeeps, WaitBadAddrKeeps,
     WaitFailsKeeps, WaitSleepKeeps, WaitWokenKeeps DEF Waits
<1> QED BY <1>1, <1>2, <1>3, <1>4, <1>5, <1>6, <1>7 DEF Next

(* The inductive invariant of the process table: what state, p->lock,      *)
(* c->proc and p->parent say of where each process is in proc.c.           *)
THEOREM Invariance == Spec => []ProcIndInv
<1> QED BY InitInv, StepInv, PTL DEF Spec

(* scheduler() and sched(): a process is on at most one hart, and wait()   *)
(* does not free the slot of one that is still switching out.              *)
THEOREM OneHart == Spec => []OnOneCpu
<1>1. ProcIndInv => OnOneCpu
  <2> SUFFICES ASSUME ProcIndInv PROVE OnOneCpu
    OBVIOUS
  <2> USE SlotFacts DEF ProcIndInv
  <2>1. ASSUME NEW c \in CPU, proc[c] # None PROVE state[proc[c]] # "UNUSED"
    <3>1. proc[c] \in Slot /\ (spc[c] = "run" \/ spc[c] = "back")
      BY <2>1 DEF PType, CpuState
    <3> QED BY <3>1 DEF CpuState, StatePc
  <2>2. ASSUME NEW p \in Slot, state[p] = "RUNNING" PROVE \E c \in CPU : proc[c] = p
    BY <2>2 DEF CpuState
  <2> QED BY <2>1, <2>2 DEF OnOneCpu, CpuState
<1> QED BY <1>1, Invariance, PTL

(* exit() and reparent(): every process but init has a parent that has not *)
(* exited and can wait() for it.                                           *)
THEOREM Parents == Spec => []NoOrphan
<1>1. ProcIndInv => NoOrphan
  BY DEF ProcIndInv, NoOrphan, Tree
<1> QED BY <1>1, Invariance, PTL

(* wait() holds p->lock from its scan to its sleep(): no process but init  *)
(* sleeps there beside a child that has exited.                            *)
THEOREM ExitsSeen == Spec => []NoMissedExit
<1>1. ProcIndInv => NoMissedExit
  BY DEF ProcIndInv, NoMissedExit, NotYetExited
<1> QED BY <1>1, Invariance, PTL

(* A hart that spins for a lock spins for the lock of some slot.           *)
LEMMA SpinsForSlot ==
  ASSUME ProcIndInv, NEW c \in CPU, BlockedBy(c) # NoCpu
  PROVE  /\ WantsOnCpu(c) \in Slot /\ lock[WantsOnCpu(c)] = BlockedBy(c)
         /\ BlockedBy(c) \in CPU
         /\ spc[c] = "scan" \/ (/\ spc[c] = "run" /\ proc[c] \in Slot
                                /\ inYield[proc[c]] # "yes"
                                /\ WantsOnCpu(c) = Wants(proc[c]) /\ Wants(proc[c]) # None)
<1> USE SlotFacts, CpuAssumption DEF ProcIndInv
<1>1. WantsOnCpu(c) # None /\ lock[WantsOnCpu(c)] = BlockedBy(c)
  BY DEF BlockedBy
<1>2. CASE spc[c] = "scan"
  <2>1. WantsOnCpu(c) = scan[c] /\ scan[c] \in Slot
    BY <1>2 DEF WantsOnCpu, PType
  <2>2. lock[scan[c]] \in CPU \cup {NoCpu}
    BY <2>1 DEF PType
  <2> QED BY <1>1, <1>2, <2>1, <2>2
<1>3. CASE spc[c] # "scan"
  <2>1. spc[c] = "run" /\ inYield[proc[c]] # "yes" /\ WantsOnCpu(c) = Wants(proc[c])
    BY <1>1, <1>3 DEF WantsOnCpu
  <2>2. PICK p \in Slot : p = proc[c]
    <3>1. proc[c] # None
      BY <1>3 DEF CpuState
    <3> QED BY <3>1 DEF PType
  <2>3. Wants(p) # None
    BY <1>1, <2>1, <2>2
  <2>4. Wants(p) \in Slot
    BY <2>3 DEF Wants, PType, ParentCopy, Exiting
  <2>5. lock[Wants(p)] \in CPU \cup {NoCpu}
    BY <2>4 DEF PType
  <2> QED BY <1>1, <2>1, <2>2, <2>3, <2>4, <2>5
<1> QED BY <1>2, <1>3

(* The parent-then-child rule: a process that spins while its hart owns a  *)
(* lock is in exit() or wait(); it owns its own lock or that of the parent *)
(* it copied, and spins for its own or for a child's.                      *)
LEMMA SpinnerLocks ==
  ASSUME ProcIndInv, NEW c \in CPU, BlockedBy(c) # NoCpu, NEW u \in Slot, lock[u] = c,
         NEW p, p = proc[c], NEW w, w = WantsOnCpu(c)
  PROVE  /\ p \in Slot /\ w \in Slot /\ state[p] # "UNUSED"
         /\ \/ pc[p] = "lockself" /\ w = p /\ u = arg[p]
            \/ pc[p] = "give" /\ parent[w] = p /\ u \in {p, arg[p]}
            \/ pc[p] = "kid" /\ parent[w] = p /\ u = p
<1> USE SlotFacts, CpuAssumption DEF ProcIndInv
<1>1. OwnsSelf(c, u) \/ OwnsAsChild(c, u)
  BY DEF LockOwner
<1>2. spc[c] # "scan"
  BY <1>1 DEF OwnsSelf, OwnsAsChild, CpuState
<1>3. spc[c] = "run" /\ p \in Slot /\ w \in Slot /\ inYield[p] # "yes" /\ w = Wants(p) /\ w # None
  BY <1>2, SpinsForSlot
<1>4. \/ u = p /\ pc[p] \in WithOwnLock
      \/ u = arg[p] /\ pc[p] \in WithParentLock
  BY <1>1, <1>3 DEF OwnsSelf, OwnsAsChild
<1>5. state[p] # "UNUSED"
  BY <1>3, <1>4 DEF StatePc, WithOwnLock, WithParentLock
<1>6. pc[p] \in {"lockself", "give", "kid"}
  BY <1>3, <1>4 DEF Wants, WithOwnLock, WithParentLock
<1>7. CASE pc[p] = "lockself"
  BY <1>3, <1>4, <1>5, <1>7 DEF Wants, WithOwnLock
<1>8. CASE pc[p] \in {"give", "kid"}
  <2>1. w = idx[p]
    BY <1>3, <1>8 DEF Wants
  <2>2. parent[w] = p
    BY <1>3, <1>8, <2>1 DEF ChildFound
  <2> QED BY <1>3, <1>4, <1>5, <1>8, <2>2 DEF WithParentLock
<1> QED BY <1>6, <1>7, <1>8

(* Pids grow from parent to child, and a fresh copy of p->parent is the    *)
(* parent: so a process owns nothing younger than itself and spins for     *)
(* nothing older.                                                          *)
LEMMA PidOrder ==
  ASSUME ProcIndInv, NEW c \in CPU, BlockedBy(c) # NoCpu, NEW u \in Slot, lock[u] = c,
         NEW p, p = proc[c], NEW w, w = WantsOnCpu(c), ~Stale(p)
  PROVE  /\ p \in Slot /\ w \in Slot
         /\ pid[u] < pid[p] \/ u = p
         /\ pid[p] < pid[w] \/ w = p
<1> USE SlotFacts DEF ProcIndInv
<1>1. /\ p \in Slot /\ w \in Slot /\ state[p] # "UNUSED"
      /\ \/ pc[p] = "lockself" /\ w = p /\ u = arg[p]
         \/ pc[p] = "give" /\ parent[w] = p /\ u \in {p, arg[p]}
         \/ pc[p] = "kid" /\ parent[w] = p /\ u = p
  BY SpinnerLocks
<1>2. u # p => pid[u] < pid[p]
  <2> SUFFICES ASSUME u # p PROVE pid[u] < pid[p]
    OBVIOUS
  <2>1. pc[p] \in Exiting /\ u = arg[p]
    BY <1>1 DEF Exiting
  <2>2. u = parent[p] /\ p # initproc
    BY <1>1, <2>1 DEF Stale, Tree
  <2> QED BY <1>1, <2>2 DEF Tree
<1>3. w # p => pid[p] < pid[w]
  <2> SUFFICES ASSUME w # p PROVE pid[p] < pid[w]
    OBVIOUS
  <2>1. parent[w] = p
    BY <1>1
  <2>2. w # initproc /\ state[w] # "UNUSED"
    BY <1>1, <2>1 DEF Tree
  <2> QED BY <1>1, <2>1, <2>2 DEF Tree
<1> QED BY <1>1, <1>2, <1>3

(* exit() and wait(): no hart spins for a lock it owns, and no two for     *)
(* each other's, unless one of the processes goes by a stale copy of its   *)
(* parent.                                                                 *)
THEOREM Ordered == Spec => []NoLockCycle
<1>1. ProcIndInv => NoLockCycle
  <2> SUFFICES ASSUME ProcIndInv, NEW c \in CPU, BlockedBy(c) # NoCpu
               PROVE  /\ BlockedBy(c) # c
                      /\ BlockedBy(BlockedBy(c)) = c => Stale(proc[c]) \/ Stale(proc[BlockedBy(c)])
    BY DEF NoLockCycle
  <2> USE SlotFacts, CpuAssumption
  <2> DEFINE d == BlockedBy(c)
             p == proc[c]
             q == proc[d]
             w == WantsOnCpu(c)
             v == WantsOnCpu(d)
  <2>1. w \in Slot /\ lock[w] = d /\ d \in CPU
    BY SpinsForSlot
  <2>2. d # c
    <3> SUFFICES ASSUME d = c PROVE FALSE
      OBVIOUS
    <3>0. lock[w] = c /\ BlockedBy(c) # NoCpu
      BY <2>1
    <3>1. /\ p \in Slot /\ state[p] # "UNUSED"
          /\ \/ pc[p] = "lockself" /\ w = p /\ w = arg[p]
             \/ pc[p] = "give" /\ parent[w] = p /\ w \in {p, arg[p]}
             \/ pc[p] = "kid" /\ parent[w] = p /\ w = p
      <4>1. p = proc[c] /\ w = WantsOnCpu(c)
        OBVIOUS
      <4> HIDE DEF p, w, d
      <4> QED BY <2>1, <3>0, <4>1, SpinnerLocks
    <3>2. parent[p] # p
      <4>1. CASE p = initproc
        BY <4>1 DEF ProcIndInv, Tree
      <4>2. CASE p # initproc
        <5>1. pid[parent[p]] < pid[p] /\ pid[p] \in Nat
          BY <3>1, <4>2 DEF ProcIndInv, Tree, PType
        <5> QED BY <5>1
      <4> QED BY <4>1, <4>2
    <3>3. pc[p] \in Exiting => arg[p] # p /\ parent[arg[p]] # p
      BY <3>1 DEF ProcIndInv, ParentCopy
    <3> QED BY <3>1, <3>2, <3>3 DEF Exiting
  <2>3. ASSUME BlockedBy(d) = c, ~Stale(p), ~Stale(q) PROVE FALSE
    <3>1. BlockedBy(d) # NoCpu /\ v \in Slot /\ lock[v] = c
      BY <2>1, <2>3, SpinsForSlot
    <3>2. p \in Slot /\ (pid[v] < pid[p] \/ v = p) /\ (pid[p] < pid[w] \/ w = p)
      <4> HIDE DEF p, w, v
      <4> QED BY <2>3, <3>1, PidOrder DEF p, w
    <3>3. q \in Slot /\ (pid[w] < pid[q] \/ w = q) /\ (pid[q] < pid[v] \/ v = q)
      <4> HIDE DEF q, w, v, d
      <4> QED BY <2>1, <2>3, <3>1, PidOrder DEF q, v
    <3>4. p # q
      BY <2>1, <2>2, <3>2 DEF ProcIndInv, CpuState
    <3>5. /\ pid[p] \in Nat /\ pid[q] \in Nat /\ pid[w] \in Nat /\ pid[v] \in Nat
      <4> HIDE DEF p, q, w, v
      <4> QED BY <2>1, <3>1, <3>2, <3>3 DEF ProcIndInv, PType
    <3> HIDE DEF p, q, w, v, d
    <3> QED BY <3>2, <3>3, <3>4, <3>5
  <2> QED BY <2>2, <2>3
<1> QED BY <1>1, Invariance, PTL
=============================================================================
