-------------------------------- MODULE Proc --------------------------------
(***************************************************************************)
(* The process table of kernel/proc.c: scheduler, sched, yield, forkret,   *)
(* fork/allocproc/freeproc, exit/reparent, wait/sleep/wakeup1 and kill,    *)
(* with the killed checks of usertrap and the preemption of kerneltrap     *)
(* (kernel/trap.c).                                                        *)
(*                                                                         *)
(* p->lock is a spin lock (module SpinLock): lock[p] is the CPU that owns  *)
(* it.  A critical section on one lock that no unlocked read can look into *)
(* is one step, enabled while the lock is free; the sections that nest     *)
(* locks (exit, wait) or carry a lock across swtch are split into their    *)
(* steps.  A CPU that owns a lock has interrupts masked, so a process is   *)
(* preempted in the kernel only where it owns none.                        *)
(***************************************************************************)
EXTENDS Integers, FiniteSets

CONSTANTS CPU,        \* the harts
          NPROC,      \* size of the process table
          KillPids,   \* arguments user programs pass to kill()
          MaxPid      \* bound of the model: fork is not called beyond this pid

ASSUME NPROCAssumption == NPROC \in Nat \ {0}
ASSUME KillPidsAssumption == KillPids \subseteq Nat
ASSUME MaxPidAssumption == MaxPid \in Nat \ {0}

Slot == 1..NPROC
None == 0                         \* a null struct proc pointer, channel or pid
NoCpu == "nocpu"
ASSUME CpuAssumption == NoCpu \notin CPU
initproc == 1                     \* userinit() fills the first slot

VARIABLES
  state, parent, chan, killed, pid,   \* the fields of struct proc
  lock,     \* lock[p]: the CPU that owns p->lock, or NoCpu
  proc,     \* proc[c]: mycpu()->proc
  spc,      \* spc[c]: scheduler: "scan" the table, "run" a process, "back" in it
  scan,     \* scan[c]: the slot scheduler()'s loop is at
  pc,       \* pc[p]: where the process is in the kernel, or "user"
  inYield,  \* inYield[p]: "yes": a timer interrupt put p into yield() at pc[p];
            \*   "back": p has not executed kernel code since it returned
  idx,      \* idx[p]: the slot p's loop over the table is at
  arg,      \* arg[p]: kill's pid, or exit's original_parent
  havekids, \* havekids[p]: wait's local variable
  nextpid

procVars == <<state, parent, chan, killed, pid, nextpid>>
cpuVars == <<lock, proc, spc, scan>>
localVars == <<pc, inYield, idx, arg, havekids>>
vars == <<procVars, cpuVars, localVars>>

Labels == {"unused", "forkret", "user", "ret", "fork", "kill", "exit", "wakeinit",
           "getparent", "lockparent", "lockself", "reparent", "give", "zombie",
           "sched", "dead", "wait", "kids", "kid", "nokid", "slept", "panic"}

States == {"UNUSED", "SLEEPING", "RUNNABLE", "RUNNING", "ZOMBIE"}

TypeOK ==
  /\ state \in [Slot -> States]
  /\ parent \in [Slot -> Slot \cup {None}]
  /\ chan \in [Slot -> Slot \cup {None}]
  /\ killed \in [Slot -> BOOLEAN]
  /\ pid \in [Slot -> 0..MaxPid]
  /\ nextpid \in 1..(MaxPid + 1)
  /\ lock \in [Slot -> CPU \cup {NoCpu}]
  /\ proc \in [CPU -> Slot \cup {None}]
  /\ spc \in [CPU -> {"scan", "run", "back"}]
  /\ scan \in [CPU -> Slot]
  /\ pc \in [Slot -> Labels]
  /\ inYield \in [Slot -> {"no", "yes", "back"}]
  /\ idx \in [Slot -> 1..(NPROC + 1)]
  /\ arg \in [Slot -> Nat]
  /\ havekids \in [Slot -> BOOLEAN]

(* After procinit() and userinit(): init is the only process. *)
Init ==
  /\ state = [p \in Slot |-> IF p = initproc THEN "RUNNABLE" ELSE "UNUSED"]
  /\ parent = [p \in Slot |-> None]
  /\ chan = [p \in Slot |-> None]
  /\ killed = [p \in Slot |-> FALSE]
  /\ pid = [p \in Slot |-> IF p = initproc THEN 1 ELSE 0]
  /\ nextpid = 2
  /\ lock = [p \in Slot |-> NoCpu]
  /\ proc = [c \in CPU |-> None]
  /\ spc = [c \in CPU |-> "scan"]
  /\ scan = [c \in CPU |-> 1]
  /\ pc = [p \in Slot |-> IF p = initproc THEN "forkret" ELSE "unused"]
  /\ inYield = [p \in Slot |-> "no"]
  /\ idx = [p \in Slot |-> 1]
  /\ arg = [p \in Slot |-> 0]
  /\ havekids = [p \in Slot |-> FALSE]

-----------------------------------------------------------------------------
Free(p) == lock[p] = NoCpu

(* Process p executes label l on CPU c. *)
At(c, p, l) == spc[c] = "run" /\ proc[c] = p /\ pc[p] = l /\ inYield[p] # "yes"

(* p executes kernel code. *)
Steps(p) == inYield' = [inYield EXCEPT ![p] = "no"]

(* p moves on to label l, its loop over the table restarted. *)
Goto(p, l) ==
  /\ pc' = [pc EXCEPT ![p] = l]
  /\ idx' = [idx EXCEPT ![p] = 1]
  /\ Steps(p)

(* p returns from the system call. *)
Return(p) ==
  /\ Goto(p, "ret")
  /\ arg' = [arg EXCEPT ![p] = 0]
  /\ havekids' = [havekids EXCEPT ![p] = FALSE]

(* p's loop over the table moves on to the next slot, or ends at label l. *)
Advance(p, l) ==
  /\ pc' = [pc EXCEPT ![p] = IF idx[p] = NPROC THEN l ELSE @]
  /\ idx' = [idx EXCEPT ![p] = IF @ = NPROC THEN 1 ELSE @ + 1]
  /\ Steps(p)

AdvanceOrReturn(p) ==
  /\ Advance(p, "ret")
  /\ arg' = [arg EXCEPT ![p] = IF idx[p] = NPROC THEN 0 ELSE @]
  /\ UNCHANGED havekids

(* sched(): p gives the CPU back to scheduler(), which owns p->lock then. *)
Swtch(c, p) ==
  /\ spc' = [spc EXCEPT ![c] = "back"]
  /\ UNCHANGED <<proc, scan>>

-----------------------------------------------------------------------------
(* scheduler(): one iteration of the loop over the table. *)
SchedScan(c) ==
  LET p == scan[c] IN
  /\ spc[c] = "scan"
  /\ Free(p)
  /\ state[p] # "RUNNABLE"
  /\ scan' = [scan EXCEPT ![c] = (p % NPROC) + 1]
  /\ UNCHANGED <<procVars, lock, proc, spc, localVars>>

SchedRun(c) ==
  LET p == scan[c] IN
  /\ spc[c] = "scan"
  /\ Free(p)
  /\ state[p] = "RUNNABLE"
  /\ state' = [state EXCEPT ![p] = "RUNNING"]
  /\ lock' = [lock EXCEPT ![p] = c]
  /\ proc' = [proc EXCEPT ![c] = p]
  /\ spc' = [spc EXCEPT ![c] = "run"]
  /\ UNCHANGED <<parent, chan, killed, pid, nextpid, scan, localVars>>

(* Mutant of SchedBack: the scan restarts at the top of the table. *)
SchedBackRestarts(c) ==
  /\ spc[c] = "back"
  /\ lock' = [lock EXCEPT ![scan[c]] = NoCpu]
  /\ proc' = [proc EXCEPT ![c] = None]
  /\ spc' = [spc EXCEPT ![c] = "scan"]
  /\ scan' = [scan EXCEPT ![c] = 1]
  /\ UNCHANGED <<procVars, localVars>>

SchedBack(c) ==
  LET p == scan[c] IN
  /\ spc[c] = "back"
  /\ lock' = [lock EXCEPT ![p] = NoCpu]
  /\ proc' = [proc EXCEPT ![c] = None]
  /\ spc' = [spc EXCEPT ![c] = "scan"]
  /\ scan' = [scan EXCEPT ![c] = (p % NPROC) + 1]
  /\ UNCHANGED <<procVars, localVars>>

(* forkret(): release the lock scheduler() took and go to user space. *)
Forkret(c, p) ==
  /\ At(c, p, "forkret")
  /\ lock' = [lock EXCEPT ![p] = NoCpu]
  /\ Goto(p, "user")
  /\ UNCHANGED <<procVars, proc, spc, scan, arg, havekids>>

(* yield(): on a timer interrupt, from user space (usertrap, when p is not *)
(* killed) or from kernel code that owns no lock (kerneltrap).  The timer  *)
(* interval is far longer than a kernel step, so a process that returns to *)
(* kernel code executes some before the next interrupt.                    *)
Preemptible == {"user", "ret", "fork", "kill", "exit", "wakeinit", "getparent",
                "lockparent", "wait"}

Yield(c, p) ==
  /\ spc[c] = "run" /\ proc[c] = p /\ inYield[p] = "no"
  /\ pc[p] \in Preemptible
  /\ pc[p] = "user" => ~killed[p]
  /\ Free(p)
  /\ lock' = [lock EXCEPT ![p] = c]
  /\ state' = [state EXCEPT ![p] = "RUNNABLE"]
  /\ inYield' = [inYield EXCEPT ![p] = "yes"]
  /\ Swtch(c, p)
  /\ UNCHANGED <<parent, chan, killed, pid, nextpid, pc, idx, arg, havekids>>

YieldReturn(c, p) ==
  /\ spc[c] = "run" /\ proc[c] = p /\ inYield[p] = "yes"
  /\ lock' = [lock EXCEPT ![p] = NoCpu]
  /\ inYield' = [inYield EXCEPT ![p] = IF pc[p] = "user" THEN "no" ELSE "back"]
  /\ UNCHANGED <<procVars, proc, spc, scan, pc, idx, arg, havekids>>

-----------------------------------------------------------------------------
(* usertrap(): a killed process exits instead of entering a system call;   *)
(* user code that faults is killed and exits too.  Programs other than     *)
(* /init call exit at will (/init would panic the kernel, see Exit).       *)
UserExit(c, p) ==
  /\ At(c, p, "user")
  /\ killed[p] \/ p # initproc
  /\ Goto(p, "exit")
  /\ UNCHANGED <<procVars, cpuVars, arg, havekids>>

SysFork(c, p) ==
  /\ At(c, p, "user")
  /\ ~killed[p]
  /\ nextpid + Cardinality({q \in Slot : pc[q] = "fork"}) <= MaxPid
  /\ Goto(p, "fork")
  /\ UNCHANGED <<procVars, cpuVars, arg, havekids>>

SysWait(c, p) ==
  /\ At(c, p, "user")
  /\ ~killed[p]
  /\ Goto(p, "wait")
  /\ UNCHANGED <<procVars, cpuVars, arg, havekids>>

SysKill(c, p, n) ==
  /\ At(c, p, "user")
  /\ ~killed[p]
  /\ Goto(p, "kill")
  /\ arg' = [arg EXCEPT ![p] = n]
  /\ UNCHANGED <<procVars, cpuVars, havekids>>

(* usertrap() after syscall(): exit if killed meanwhile, else usertrapret. *)
SysReturn(c, p) ==
  /\ At(c, p, "ret")
  /\ Goto(p, IF killed[p] THEN "exit" ELSE "user")
  /\ UNCHANGED <<procVars, cpuVars, arg, havekids>>

-----------------------------------------------------------------------------
(* allocproc(): a slot in use is skipped; at the table's end fork fails. *)
ForkScan(c, p) ==
  /\ At(c, p, "fork")
  /\ Free(idx[p])
  /\ state[idx[p]] # "UNUSED"
  /\ AdvanceOrReturn(p)
  /\ UNCHANGED <<procVars, cpuVars>>

(* freeproc(): what it leaves in the slot. *)
Freeproc(np) ==
  /\ state' = [state EXCEPT ![np] = "UNUSED"]
  /\ parent' = [parent EXCEPT ![np] = None]
  /\ chan' = [chan EXCEPT ![np] = None]
  /\ killed' = [killed EXCEPT ![np] = FALSE]
  /\ pid' = [pid EXCEPT ![np] = 0]

ForkFound(c, p, np) ==
  /\ At(c, p, "fork")
  /\ idx[p] = np
  /\ Free(np)
  /\ state[np] = "UNUSED"
  /\ nextpid' = nextpid + 1
  /\ UNCHANGED <<cpuVars, arg, havekids>>

(* allocproc(): no page for the trapframe; the new pid stays in the slot. *)
ForkNoTrapframe(c, p) ==
  LET np == idx[p] IN
  /\ ForkFound(c, p, np)
  /\ pid' = [pid EXCEPT ![np] = nextpid]
  /\ Goto(p, "ret")
  /\ UNCHANGED <<state, parent, chan, killed>>

(* No memory for the page tables or for the copy of the parent's memory. *)
ForkNoMemory(c, p) ==
  LET np == idx[p] IN
  /\ ForkFound(c, p, np)
  /\ Freeproc(np)
  /\ Goto(p, "ret")

ForkChild(c, p) ==
  LET np == idx[p] IN
  /\ ForkFound(c, p, np)
  /\ pid' = [pid EXCEPT ![np] = nextpid]
  /\ parent' = [parent EXCEPT ![np] = p]
  /\ state' = [state EXCEPT ![np] = "RUNNABLE"]
  /\ pc' = [pc EXCEPT ![p] = "ret", ![np] = "forkret"]
  /\ idx' = [idx EXCEPT ![p] = 1]
  /\ Steps(p)
  /\ UNCHANGED <<chan, killed>>

-----------------------------------------------------------------------------
(* kill(): the first slot with that pid, whatever its state. *)
KillScan(c, p) ==
  /\ At(c, p, "kill")
  /\ Free(idx[p])
  /\ pid[idx[p]] # arg[p]
  /\ AdvanceOrReturn(p)
  /\ UNCHANGED <<procVars, cpuVars>>

(* Mutant of KillFound: the sleeping victim is not woken. *)
KillFoundNoWake(c, p) ==
  /\ At(c, p, "kill")
  /\ Free(idx[p])
  /\ pid[idx[p]] = arg[p]
  /\ killed' = [killed EXCEPT ![idx[p]] = TRUE]
  /\ Return(p)
  /\ UNCHANGED <<state, parent, chan, pid, nextpid, cpuVars>>

KillFound(c, p) ==
  LET v == idx[p] IN
  /\ At(c, p, "kill")
  /\ Free(v)
  /\ pid[v] = arg[p]
  /\ killed' = [killed EXCEPT ![v] = TRUE]
  /\ state' = [state EXCEPT ![v] = IF @ = "SLEEPING" THEN "RUNNABLE" ELSE @]
  /\ Return(p)
  /\ UNCHANGED <<parent, chan, pid, nextpid, cpuVars>>

-----------------------------------------------------------------------------
(* wakeup1(p): wake p if it sleeps in wait(). *)
Wakeup1(p) ==
  [state EXCEPT ![p] = IF chan[p] = p /\ @ = "SLEEPING" THEN "RUNNABLE" ELSE @]

(* exit(): init must not exit; files and cwd are closed here. *)
Exit(c, p) ==
  /\ At(c, p, "exit")
  /\ Goto(p, IF p = initproc THEN "panic" ELSE "wakeinit")
  /\ UNCHANGED <<procVars, cpuVars, arg, havekids>>

(* exit() wakes init before it owns any lock. *)
ExitWakeInit(c, p) ==
  /\ At(c, p, "wakeinit")
  /\ Free(initproc)
  /\ state' = Wakeup1(initproc)
  /\ Goto(p, "getparent")
  /\ UNCHANGED <<parent, chan, killed, pid, nextpid, cpuVars, arg, havekids>>

(* exit() copies p->parent, then locks that parent and itself. *)
ExitGetParent(c, p) ==
  /\ At(c, p, "getparent")
  /\ Free(p)
  /\ arg' = [arg EXCEPT ![p] = parent[p]]
  /\ Goto(p, "lockparent")
  /\ UNCHANGED <<procVars, cpuVars, havekids>>

ExitLockParent(c, p) ==
  /\ At(c, p, "lockparent")
  /\ Free(arg[p])
  /\ lock' = [lock EXCEPT ![arg[p]] = c]
  /\ Goto(p, "lockself")
  /\ UNCHANGED <<procVars, proc, spc, scan, arg, havekids>>

(* Mutant of ExitLockSelf: reparent() is not called. *)
ExitLockSelfNoReparent(c, p) ==
  /\ At(c, p, "lockself")
  /\ Free(p)
  /\ lock' = [lock EXCEPT ![p] = c]
  /\ Goto(p, "zombie")
  /\ UNCHANGED <<procVars, proc, spc, scan, arg, havekids>>

ExitLockSelf(c, p) ==
  /\ At(c, p, "lockself")
  /\ Free(p)
  /\ lock' = [lock EXCEPT ![p] = c]
  /\ Goto(p, "reparent")
  /\ UNCHANGED <<procVars, proc, spc, scan, arg, havekids>>

(* reparent(): reads pp->parent without pp->lock, then takes the lock. *)
ReparentCheck(c, p) ==
  /\ At(c, p, "reparent")
  /\ IF parent[idx[p]] = p
     THEN /\ pc' = [pc EXCEPT ![p] = "give"]
          /\ Steps(p)
          /\ UNCHANGED idx
     ELSE Advance(p, "zombie")
  /\ UNCHANGED <<procVars, cpuVars, arg, havekids>>

ReparentGive(c, p) ==
  LET pp == idx[p] IN
  /\ At(c, p, "give")
  /\ Free(pp)
  /\ parent' = [parent EXCEPT ![pp] = initproc]
  /\ pc' = [pc EXCEPT ![p] = IF pp = NPROC THEN "zombie" ELSE "reparent"]
  /\ idx' = [idx EXCEPT ![p] = IF pp = NPROC THEN 1 ELSE pp + 1]
  /\ Steps(p)
  /\ UNCHANGED <<state, chan, killed, pid, nextpid, cpuVars, arg, havekids>>

(* Mutants of ExitZombie: its own lock released before sched(), the        *)
(* parent's lock kept, the parent not woken.                               *)
ExitZombieUnlocksSelf(c, p) ==
  LET woken == Wakeup1(arg[p]) IN
  /\ At(c, p, "zombie")
  /\ state' = [woken EXCEPT ![p] = "ZOMBIE"]
  /\ lock' = [lock EXCEPT ![arg[p]] = NoCpu, ![p] = NoCpu]
  /\ arg' = [arg EXCEPT ![p] = 0]
  /\ Goto(p, "sched")
  /\ UNCHANGED <<parent, chan, killed, pid, nextpid, proc, spc, scan, havekids>>

ExitZombieNoWakeup(c, p) ==
  /\ At(c, p, "zombie")
  /\ state' = [state EXCEPT ![p] = "ZOMBIE"]
  /\ lock' = [lock EXCEPT ![arg[p]] = NoCpu]
  /\ arg' = [arg EXCEPT ![p] = 0]
  /\ Goto(p, "sched")
  /\ UNCHANGED <<parent, chan, killed, pid, nextpid, proc, spc, scan, havekids>>

(* exit(): wake the parent, become a zombie, release the parent's lock. *)
ExitZombie(c, p) ==
  LET woken == Wakeup1(arg[p]) IN
  /\ At(c, p, "zombie")
  /\ state' = [woken EXCEPT ![p] = "ZOMBIE"]
  /\ lock' = [lock EXCEPT ![arg[p]] = NoCpu]
  /\ arg' = [arg EXCEPT ![p] = 0]
  /\ Goto(p, "sched")
  /\ UNCHANGED <<parent, chan, killed, pid, nextpid, proc, spc, scan, havekids>>

ExitSched(c, p) ==
  /\ At(c, p, "sched")
  /\ Goto(p, "dead")
  /\ Swtch(c, p)
  /\ UNCHANGED <<procVars, lock, arg, havekids>>

-----------------------------------------------------------------------------
(* wait(): holds p->lock for the whole scan. *)
Wait(c, p) ==
  /\ At(c, p, "wait")
  /\ Free(p)
  /\ lock' = [lock EXCEPT ![p] = c]
  /\ Goto(p, "kids")
  /\ UNCHANGED <<procVars, proc, spc, scan, arg, havekids>>

(* Mutant of WaitCheck: np->lock is taken before np->parent is read. *)
WaitCheckLocksFirst(c, p) ==
  /\ At(c, p, "kids")
  /\ IF idx[p] # p
     THEN /\ pc' = [pc EXCEPT ![p] = "kid"]
          /\ Steps(p)
          /\ UNCHANGED idx
     ELSE Advance(p, "nokid")
  /\ UNCHANGED <<procVars, cpuVars, arg, havekids>>

(* wait() reads np->parent without np->lock, then takes the lock. *)
WaitCheck(c, p) ==
  /\ At(c, p, "kids")
  /\ IF parent[idx[p]] = p
     THEN /\ pc' = [pc EXCEPT ![p] = "kid"]
          /\ Steps(p)
          /\ UNCHANGED idx
     ELSE Advance(p, "nokid")
  /\ UNCHANGED <<procVars, cpuVars, arg, havekids>>

WaitAlive(c, p) ==
  LET np == idx[p] IN
  /\ At(c, p, "kid")
  /\ Free(np)
  /\ state[np] # "ZOMBIE"
  /\ havekids' = [havekids EXCEPT ![p] = TRUE]
  /\ pc' = [pc EXCEPT ![p] = IF np = NPROC THEN "nokid" ELSE "kids"]
  /\ idx' = [idx EXCEPT ![p] = IF np = NPROC THEN 1 ELSE np + 1]
  /\ Steps(p)
  /\ UNCHANGED <<procVars, cpuVars, arg>>

WaitReap(c, p) ==
  LET np == idx[p] IN
  /\ At(c, p, "kid")
  /\ Free(np)
  /\ state[np] = "ZOMBIE"
  /\ Freeproc(np)
  /\ lock' = [lock EXCEPT ![p] = NoCpu]
  /\ pc' = [pc EXCEPT ![p] = "ret", ![np] = "unused"]
  /\ idx' = [idx EXCEPT ![p] = 1]
  /\ havekids' = [havekids EXCEPT ![p] = FALSE]
  /\ Steps(p)
  /\ UNCHANGED <<nextpid, proc, spc, scan, arg>>

(* copyout2() of the exit status to the caller's address fails. *)
WaitBadAddr(c, p) ==
  /\ At(c, p, "kid")
  /\ Free(idx[p])
  /\ state[idx[p]] = "ZOMBIE"
  /\ lock' = [lock EXCEPT ![p] = NoCpu]
  /\ Return(p)
  /\ UNCHANGED <<procVars, proc, spc, scan>>

WaitFails(c, p) ==
  /\ At(c, p, "nokid")
  /\ ~havekids[p] \/ killed[p]
  /\ lock' = [lock EXCEPT ![p] = NoCpu]
  /\ Return(p)
  /\ UNCHANGED <<procVars, proc, spc, scan>>

(* sleep(p, &p->lock): the lock stays held across swtch. *)
WaitSleep(c, p) ==
  /\ At(c, p, "nokid")
  /\ havekids[p] /\ ~killed[p]
  /\ chan' = [chan EXCEPT ![p] = p]
  /\ state' = [state EXCEPT ![p] = "SLEEPING"]
  /\ Goto(p, "slept")
  /\ Swtch(c, p)
  /\ UNCHANGED <<parent, killed, pid, nextpid, lock, arg, havekids>>

WaitWoken(c, p) ==
  /\ At(c, p, "slept")
  /\ chan' = [chan EXCEPT ![p] = None]
  /\ havekids' = [havekids EXCEPT ![p] = FALSE]
  /\ Goto(p, "kids")
  /\ UNCHANGED <<state, parent, killed, pid, nextpid, cpuVars, arg>>

-----------------------------------------------------------------------------
Trap(c, p) ==
  \/ Forkret(c, p) \/ Yield(c, p) \/ YieldReturn(c, p)
  \/ UserExit(c, p) \/ SysFork(c, p) \/ SysWait(c, p)
  \/ \E n \in KillPids : SysKill(c, p, n)
  \/ SysReturn(c, p)

Fork(c, p) ==
  ForkScan(c, p) \/ ForkNoTrapframe(c, p) \/ ForkNoMemory(c, p) \/ ForkChild(c, p)

Kill(c, p) == KillScan(c, p) \/ KillFound(c, p)

Exits(c, p) ==
  \/ Exit(c, p) \/ ExitWakeInit(c, p) \/ ExitGetParent(c, p)
  \/ ExitLockParent(c, p) \/ ExitLockSelf(c, p)
  \/ ReparentCheck(c, p) \/ ReparentGive(c, p)
  \/ ExitZombie(c, p) \/ ExitSched(c, p)

Waits(c, p) ==
  \/ Wait(c, p) \/ WaitCheck(c, p) \/ WaitAlive(c, p) \/ WaitReap(c, p)
  \/ WaitBadAddr(c, p) \/ WaitFails(c, p) \/ WaitSleep(c, p) \/ WaitWoken(c, p)

Scheduler(c) == SchedScan(c) \/ SchedRun(c) \/ SchedBack(c)

Next ==
  \E c \in CPU :
     \/ Scheduler(c)
     \/ \E p \in Slot : Trap(c, p) \/ Fork(c, p) \/ Kill(c, p) \/ Exits(c, p) \/ Waits(c, p)

Spec == Init /\ [][Next]_vars

(* Fairness, used for a single CPU, where no lock is ever contended: the   *)
(* CPU executes what it is at, and timer interrupts keep coming.           *)
KernelCode(c) ==
  \/ Scheduler(c)
  \/ \E p \in Slot : \/ Forkret(c, p) \/ YieldReturn(c, p) \/ SysReturn(c, p)
                     \/ Fork(c, p) \/ Kill(c, p) \/ Exits(c, p) \/ Waits(c, p)

Timer(c) ==
  \E p \in Slot : Yield(c, p) \/ (killed[p] /\ UserExit(c, p))

FairSpec ==
  /\ Spec
  /\ \A c \in CPU : WF_vars(KernelCode(c)) /\ SF_vars(Timer(c))

-----------------------------------------------------------------------------
Live == {"SLEEPING", "RUNNABLE", "RUNNING"}

(* scheduler/sched: a process is on at most one CPU, exactly the RUNNING   *)
(* ones and the ones still switching out are, and the table entry (kernel  *)
(* stack included) of a process that is on a CPU is not freed by wait().   *)
OnOneCpu ==
  /\ \A c, d \in CPU : proc[c] = proc[d] /\ proc[c] # None => c = d
  /\ \A c \in CPU : proc[c] # None => state[proc[c]] # "UNUSED"
  /\ \A p \in Slot : state[p] = "RUNNING" => \E c \in CPU : proc[c] = p

(* exit()/reparent(): every process but init has a parent that has not     *)
(* exited, so some process can still wait() for it.                        *)
NoOrphan ==
  \A p \in Slot : state[p] # "UNUSED" /\ p # initproc =>
     parent[p] # None /\ state[parent[p]] \in Live

(* wait(): "hold p->lock for the whole time to avoid lost wakeups from a   *)
(* child's exit()" - no process other than init sleeps in wait() while it  *)
(* has a child to reap.                                                    *)
NoMissedExit ==
  \A p, q \in Slot :
     /\ p # initproc
     /\ state[p] = "SLEEPING"
     /\ chan[p] = p
     => ~(parent[q] = p /\ state[q] = "ZOMBIE")

(* The slot whose lock a process is spinning for, if any. *)
Wants(p) ==
  CASE pc[p] \in {"fork", "kill", "give", "kid"} -> idx[p]
    [] pc[p] = "wakeinit" -> initproc
    [] pc[p] = "lockparent" -> arg[p]
    [] pc[p] \in {"getparent", "lockself", "wait"} -> p
    [] OTHER -> None

WantsOnCpu(c) ==
  IF spc[c] = "scan" THEN scan[c]
  ELSE IF spc[c] = "run" /\ inYield[proc[c]] # "yes" THEN Wants(proc[c]) ELSE None

BlockedBy(c) ==
  IF WantsOnCpu(c) = None THEN NoCpu ELSE lock[WantsOnCpu(c)]

Exiting == {"lockparent", "lockself", "reparent", "give", "zombie"}

(* p was given to init after exit() copied p->parent. *)
Stale(p) == pc[p] \in Exiting /\ arg[p] # parent[p]

(* The parent-then-child rule of exit() and wait(): no CPU spins for a     *)
(* lock it owns itself (panic "acquire"), and no two wait for each other   *)
(* unless one of them goes by a stale copy of its parent.                  *)
NoLockCycle ==
  \A c \in CPU : BlockedBy(c) # NoCpu =>
     /\ BlockedBy(c) # c
     /\ BlockedBy(BlockedBy(c)) = c => Stale(proc[c]) \/ Stale(proc[BlockedBy(c)])

(* exit() on that copy: "the result will be a harmless spurious wakeup to  *)
(* a dead or wrong process" - and no two CPUs that wait for each other.    *)
StaleParentHarmless ==
  \A c \in CPU : BlockedBy(c) # NoCpu => BlockedBy(BlockedBy(c)) # c

(* wait(): "hold p->lock for the whole time to avoid lost wakeups from a   *)
(* child's exit()", said of every process: one that sleeps in wait() while *)
(* it has an exited child is woken.                                        *)
SleepsOnZombie ==
  \E p, q \in Slot :
     state[p] = "SLEEPING" /\ chan[p] = p /\ parent[q] = p /\ state[q] = "ZOMBIE"

ZombieWakesWaiter == SleepsOnZombie ~> ~SleepsOnZombie

(* kill(): "Kill the process with the given pid" - only those.             *)
KilledOnRequest ==
  \A p \in Slot : state[p] \in Live /\ killed[p] => pid[p] \in KillPids

(* scheduler(): a RUNNABLE process gets the CPU.                           *)
RunnableRuns == \A p \in Slot : state[p] = "RUNNABLE" ~> state[p] # "RUNNABLE"

(* kill() and usertrap(): a killed process exits, even one that was asleep *)
(* in wait() or about to sleep there.                                      *)
KilledExits == \A p \in Slot : killed[p] /\ state[p] \in Live ~> state[p] \notin Live

-----------------------------------------------------------------------------
(* The inductive invariant, in parts: types (of any pid) ...               *)
PType ==
  /\ state \in [Slot -> States] /\ parent \in [Slot -> Slot \cup {None}]
  /\ chan \in [Slot -> Slot \cup {None}] /\ killed \in [Slot -> BOOLEAN]
  /\ pid \in [Slot -> Nat] /\ nextpid \in Nat
  /\ lock \in [Slot -> CPU \cup {NoCpu}]
  /\ proc \in [CPU -> Slot \cup {None}] /\ scan \in [CPU -> Slot]
  /\ spc \in [CPU -> {"scan", "run", "back"}]
  /\ pc \in [Slot -> Labels] /\ inYield \in [Slot -> {"no", "yes", "back"}]
  /\ idx \in [Slot -> Slot] /\ arg \in [Slot -> Nat]
  /\ havekids \in [Slot -> BOOLEAN]

(* ... where a process in each state is in the code ... *)
StatePc ==
  \A p \in Slot :
    /\ state[p] = "UNUSED" <=> pc[p] = "unused"
    /\ state[p] = "ZOMBIE" <=> pc[p] \in {"sched", "dead"}
    /\ state[p] = "SLEEPING" => pc[p] = "slept" /\ chan[p] = p
    /\ state[p] = "RUNNABLE" => pc[p] \in {"forkret", "slept"} \/ inYield[p] = "yes"
    /\ inYield[p] = "yes" => pc[p] \in Preemptible

(* ... which process a CPU is running, or still switching away from ...    *)
CpuState ==
  /\ \A c, d \in CPU : proc[c] = proc[d] /\ proc[c] # None => c = d
  /\ \A c \in CPU :
       /\ proc[c] = None <=> spc[c] = "scan"
       /\ spc[c] # "scan" => proc[c] = scan[c]
       /\ spc[c] = "run" => state[proc[c]] = "RUNNING" \/ pc[proc[c]] = "sched"
       /\ spc[c] = "back" => state[proc[c]] \notin {"RUNNING", "UNUSED"} /\ pc[proc[c]] # "sched"
  /\ \A p \in Slot : state[p] = "RUNNING" => \E c \in CPU : spc[c] = "run" /\ proc[c] = p

(* ... who owns which p->lock: scheduler() after swtch(), the process      *)
(* itself, or a child in exit() ...                                        *)
WithOwnLock == {"forkret", "reparent", "give", "zombie", "sched", "kids", "kid", "nokid", "slept"}
WithParentLock == {"lockself", "reparent", "give", "zombie"}
OwnsSelf(c, p) ==
  proc[c] = p /\ (spc[c] = "back" \/ (spc[c] = "run" /\ (inYield[p] = "yes" \/ pc[p] \in WithOwnLock)))
OwnsAsChild(c, p) ==
  spc[c] = "run" /\ pc[proc[c]] \in WithParentLock /\ arg[proc[c]] = p
LockOwner == \A c \in CPU, p \in Slot : lock[p] = c <=> OwnsSelf(c, p) \/ OwnsAsChild(c, p)

(* ... the family tree, whose pids grow from parent to child ...           *)
Tree ==
  /\ parent[initproc] = None /\ pid[initproc] = 1 /\ nextpid >= 2
  /\ pc[initproc] \notin {"unused", "wakeinit", "getparent", "sched", "dead"} \cup Exiting
  /\ \A p \in Slot : /\ pid[p] < nextpid
                     /\ state[p] = "UNUSED" => parent[p] = None
                     /\ state[p] # "UNUSED" /\ p # initproc =>
                          /\ parent[p] # None /\ state[parent[p]] \in Live
                          /\ pid[parent[p]] < pid[p] /\ pid[p] > 1

(* ... what exit() knows of the parent it copied and of p's children, and  *)
(* wait() and reparent() of the slots they have seen.                      *)
ParentCopy ==
  \A p \in Slot : pc[p] \in Exiting =>
    /\ arg[p] \in Slot /\ arg[p] # p
    /\ parent[arg[p]] # p
    /\ parent[p] \in {arg[p], initproc}
ChildFound == \A p \in Slot : pc[p] \in {"give", "kid"} => parent[idx[p]] = p
GivenAway ==
  \A p, q \in Slot : parent[q] = p => /\ pc[p] \in {"reparent", "give"} => q >= idx[p]
                                      /\ pc[p] # "zombie"
NotYetExited ==
  \A p, q \in Slot : p # initproc /\ parent[q] = p /\ state[q] = "ZOMBIE" =>
    /\ pc[p] \in {"kids", "kid"} => q >= idx[p]
    /\ pc[p] # "nokid"
    /\ state[p] # "SLEEPING"

ProcIndInv ==
  /\ PType /\ StatePc /\ CpuState /\ LockOwner /\ Tree
  /\ ParentCopy /\ ChildFound /\ GivenAway /\ NotYetExited
=============================================================================
