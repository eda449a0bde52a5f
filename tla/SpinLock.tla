------------------------------ MODULE SpinLock ------------------------------
(***************************************************************************)
(* Spin locks and the interrupt-masking discipline they rest on:           *)
(* kernel/spinlock.c (acquire, release, holding) and kernel/intr.c         *)
(* (push_off, pop_off), with the trap entry and exit of kernel/trap.c and  *)
(* the bare intr_on()/intr_off() calls of the scheduler and usertrap.      *)
(*                                                                         *)
(* Two contexts can execute on a CPU: the kernel thread it runs and, when  *)
(* a device or timer interrupt arrives, the handler (kerneltrap) that runs *)
(* on top of it.  Every memory access another context could observe is a   *)
(* step of its own; noff, intena and sstatus.SIE are private to the CPU,   *)
(* but the thread and the handler of that CPU share them.  A local         *)
(* variable is reset once it is dead.                                      *)
(***************************************************************************)
EXTENDS Params

Level == {"thread", "intr"}
Ctx == CPU \X Level
NoLock == -1                      \* push_off/pop_off without a lock

VARIABLES
  locked,   \* locked[l]: lk->locked
  cpu,      \* cpu[l]: lk->cpu
  noff,     \* noff[c]: mycpu()->noff
  intena,   \* intena[c]: mycpu()->intena
  sie,      \* sie[c]: the SIE bit of sstatus, i.e. intr_get()
  irq,      \* irq[c]: an interrupt handler is running on c
  pc,       \* pc[x]: where context x is
  arg,      \* arg[x]: the lock of the call x executes, or NoLock
  old,      \* old[x]: the local variable of push_off
  seen,     \* seen[x]: the value of lk->locked that holding() read
  held,     \* held[x]: locks whose test-and-set x won and has not undone
  want      \* want[c]: SIE as c's thread last set it with intr_on/intr_off

vars == <<locked, cpu, noff, intena, sie, irq, pc, arg, old, seen, held, want>>
cpuVars == <<noff, intena, sie, irq, want>>
lockVars == <<locked, cpu, held>>

Labels == {"run", "push1", "push2", "push3", "hold1", "hold2", "swap", "own",
           "rhold1", "rhold2", "disown", "unlock", "pop", "panic"}

TypeOK ==
  /\ locked \in [Lock -> BOOLEAN]
  /\ cpu \in [Lock -> CPU \cup {NoCpu}]
  /\ noff \in [CPU -> 0..(Cardinality(Lock) + 1)]
  /\ intena \in [CPU -> BOOLEAN]
  /\ sie \in [CPU -> BOOLEAN]
  /\ irq \in [CPU -> BOOLEAN]
  /\ pc \in [Ctx -> Labels]
  /\ arg \in [Ctx -> Lock \cup {NoLock}]
  /\ old \in [Ctx -> BOOLEAN]
  /\ seen \in [Ctx -> BOOLEAN]
  /\ held \in [Ctx -> SUBSET Lock]
  /\ want \in [CPU -> BOOLEAN]

(* Boot: initlock() has run and main() has not yet enabled interrupts. *)
Init ==
  /\ locked = [l \in Lock |-> FALSE]
  /\ cpu = [l \in Lock |-> NoCpu]
  /\ noff = [c \in CPU |-> 0]
  /\ intena = [c \in CPU |-> FALSE]
  /\ sie = [c \in CPU |-> FALSE]
  /\ irq = [c \in CPU |-> FALSE]
  /\ pc = [x \in Ctx |-> "run"]
  /\ arg = [x \in Ctx |-> NoLock]
  /\ old = [x \in Ctx |-> FALSE]
  /\ seen = [x \in Ctx |-> FALSE]
  /\ held = [x \in Ctx |-> {}]
  /\ want = [c \in CPU |-> FALSE]

-----------------------------------------------------------------------------
(* The context a CPU executes: the handler while there is one. *)
Active(x) == x[2] = IF irq[x[1]] THEN "intr" ELSE "thread"

At(x, l) == Active(x) /\ pc[x] = l
Goto(x, l) == pc' = [pc EXCEPT ![x] = l]

(* Code outside spinlock.c calls acquire(l), release(l) or, as myproc()    *)
(* does, push_off() and pop_off() on their own.  Callers nest locks in     *)
(* ascending order and release what they hold.                             *)
CallAcquire(x, l) ==
  /\ At(x, "run")
  /\ \A k \in held[x] : k < l
  /\ Goto(x, "push1")
  /\ arg' = [arg EXCEPT ![x] = l]
  /\ UNCHANGED <<old, seen, lockVars, cpuVars>>

CallMyproc(x) ==
  /\ At(x, "run")
  /\ Goto(x, "push1")
  /\ arg' = [arg EXCEPT ![x] = NoLock]
  /\ UNCHANGED <<old, seen, lockVars, cpuVars>>

CallRelease(x, l) ==
  /\ At(x, "run")
  /\ l \in held[x]
  /\ Goto(x, "rhold1")
  /\ arg' = [arg EXCEPT ![x] = l]
  /\ UNCHANGED <<old, seen, lockVars, cpuVars>>

-----------------------------------------------------------------------------
(* push_off: int old = intr_get(); *)
PushRead(x) ==
  /\ At(x, "push1")
  /\ old' = [old EXCEPT ![x] = sie[x[1]]]
  /\ Goto(x, "push2")
  /\ UNCHANGED <<arg, seen, lockVars, cpuVars>>

(* push_off: intr_off(); *)
PushMask(x) ==
  /\ At(x, "push2")
  /\ sie' = [sie EXCEPT ![x[1]] = FALSE]
  /\ Goto(x, "push3")
  /\ UNCHANGED <<noff, intena, irq, want, arg, old, seen, lockVars>>

(* Mutant of PushCount: intena is overwritten at every level. *)
PushCountAlwaysSaves(x) ==
  /\ At(x, "push3")
  /\ intena' = [intena EXCEPT ![x[1]] = old[x]]
  /\ noff' = [noff EXCEPT ![x[1]] = @ + 1]
  /\ old' = [old EXCEPT ![x] = FALSE]
  /\ Goto(x, IF arg[x] = NoLock THEN "pop" ELSE "hold1")
  /\ UNCHANGED <<sie, irq, want, arg, seen, lockVars>>

(* push_off: remember old at the outermost level, count the level. *)
PushCount(x) ==
  LET c == x[1] IN
  /\ At(x, "push3")
  /\ intena' = [intena EXCEPT ![c] = IF noff[c] = 0 THEN old[x] ELSE @]
  /\ noff' = [noff EXCEPT ![c] = @ + 1]
  /\ old' = [old EXCEPT ![x] = FALSE]
  /\ Goto(x, IF arg[x] = NoLock THEN "pop" ELSE "hold1")
  /\ UNCHANGED <<sie, irq, want, arg, seen, lockVars>>

(* holding(lk): lk->locked && lk->cpu == mycpu(), read in that order. *)
AcquireHolding1(x) ==
  /\ At(x, "hold1")
  /\ seen' = [seen EXCEPT ![x] = locked[arg[x]]]
  /\ Goto(x, "hold2")
  /\ UNCHANGED <<arg, old, lockVars, cpuVars>>

AcquireHolding2(x) ==
  /\ At(x, "hold2")
  /\ Goto(x, IF seen[x] /\ cpu[arg[x]] = x[1] THEN "panic" ELSE "swap")
  /\ seen' = [seen EXCEPT ![x] = FALSE]
  /\ UNCHANGED <<arg, old, lockVars, cpuVars>>

(* Mutant of Swap: a plain store instead of an atomic swap. *)
SwapIsStore(x) ==
  /\ At(x, "swap")
  /\ locked' = [locked EXCEPT ![arg[x]] = TRUE]
  /\ held' = [held EXCEPT ![x] = @ \cup {arg[x]}]
  /\ Goto(x, "own")
  /\ UNCHANGED <<cpu, arg, old, seen, cpuVars>>

(* acquire: the amoswap that finds lk->locked == 0 and sets it; a failed   *)
(* swap writes 1 over 1 and loops, so it is a stuttering step.             *)
Swap(x) ==
  /\ At(x, "swap")
  /\ ~locked[arg[x]]
  /\ locked' = [locked EXCEPT ![arg[x]] = TRUE]
  /\ held' = [held EXCEPT ![x] = @ \cup {arg[x]}]
  /\ Goto(x, "own")
  /\ UNCHANGED <<cpu, arg, old, seen, cpuVars>>

(* acquire: lk->cpu = mycpu(); *)
SetCpu(x) ==
  /\ At(x, "own")
  /\ cpu' = [cpu EXCEPT ![arg[x]] = x[1]]
  /\ arg' = [arg EXCEPT ![x] = NoLock]
  /\ Goto(x, "run")
  /\ UNCHANGED <<locked, held, old, seen, cpuVars>>

ReleaseHolding1(x) ==
  /\ At(x, "rhold1")
  /\ seen' = [seen EXCEPT ![x] = locked[arg[x]]]
  /\ Goto(x, "rhold2")
  /\ UNCHANGED <<arg, old, lockVars, cpuVars>>

ReleaseHolding2(x) ==
  /\ At(x, "rhold2")
  /\ Goto(x, IF seen[x] /\ cpu[arg[x]] = x[1] THEN "disown" ELSE "panic")
  /\ seen' = [seen EXCEPT ![x] = FALSE]
  /\ UNCHANGED <<arg, old, lockVars, cpuVars>>

(* Mutant of ClearCpu: the owner field survives the release. *)
ClearCpuForgotten(x) ==
  /\ At(x, "disown")
  /\ Goto(x, "unlock")
  /\ UNCHANGED <<locked, cpu, held, arg, old, seen, cpuVars>>

(* release: lk->cpu = 0; *)
ClearCpu(x) ==
  /\ At(x, "disown")
  /\ cpu' = [cpu EXCEPT ![arg[x]] = NoCpu]
  /\ Goto(x, "unlock")
  /\ UNCHANGED <<locked, held, arg, old, seen, cpuVars>>

(* release: __sync_lock_release(&lk->locked); *)
Unlock(x) ==
  /\ At(x, "unlock")
  /\ locked' = [locked EXCEPT ![arg[x]] = FALSE]
  /\ held' = [held EXCEPT ![x] = @ \ {arg[x]}]
  /\ arg' = [arg EXCEPT ![x] = NoLock]
  /\ Goto(x, "pop")
  /\ UNCHANGED <<cpu, old, seen, cpuVars>>

(* pop_off: with interrupts off nothing else on this CPU can intervene. *)
PopPanics(c) == sie[c] \/ noff[c] < 1

PopOff(x) ==
  LET c == x[1]
      ok == ~PopPanics(c)
  IN
  /\ At(x, "pop")
  /\ noff' = [noff EXCEPT ![c] = IF ok THEN @ - 1 ELSE @]
  /\ sie' = [sie EXCEPT ![c] = IF ok THEN noff[c] = 1 /\ intena[c] ELSE @]
  /\ Goto(x, IF ok THEN "run" ELSE "panic")
  /\ UNCHANGED <<intena, irq, want, arg, old, seen, lockVars>>

-----------------------------------------------------------------------------
(* The thread switches interrupts itself (scheduler() and usertrap() call  *)
(* intr_on, usertrapret() calls intr_off), never inside push_off/pop_off.  *)
ThreadIntr(c, on) ==
  /\ At(<<c, "thread">>, "run")
  /\ held[<<c, "thread">>] = {}
  /\ sie[c] # on
  /\ sie' = [sie EXCEPT ![c] = on]
  /\ want' = [want EXCEPT ![c] = on]
  /\ UNCHANGED <<noff, intena, irq, pc, arg, old, seen, lockVars>>

(* The hardware takes an interrupt only while SIE is set, and clears it. *)
Interrupt(c) ==
  /\ sie[c]
  /\ ~irq[c]
  /\ irq' = [irq EXCEPT ![c] = TRUE]
  /\ sie' = [sie EXCEPT ![c] = FALSE]
  /\ UNCHANGED <<noff, intena, want, pc, arg, old, seen, lockVars>>

(* kerneltrap returns through sret, which restores SIE from SPIE. *)
InterruptReturn(c) ==
  /\ At(<<c, "intr">>, "run")
  /\ held[<<c, "intr">>] = {}
  /\ irq' = [irq EXCEPT ![c] = FALSE]
  /\ sie' = [sie EXCEPT ![c] = TRUE]
  /\ UNCHANGED <<noff, intena, want, pc, arg, old, seen, lockVars>>

Calls(x) ==
  \/ CallMyproc(x)
  \/ \E l \in Lock : CallAcquire(x, l)
  \/ \E l \in Lock : CallRelease(x, l)

Steps(x) ==
  \/ PushRead(x)
  \/ PushMask(x)
  \/ PushCount(x)
  \/ AcquireHolding1(x)
  \/ AcquireHolding2(x)
  \/ Swap(x)
  \/ SetCpu(x)
  \/ ReleaseHolding1(x)
  \/ ReleaseHolding2(x)
  \/ ClearCpu(x)
  \/ Unlock(x)
  \/ PopOff(x)

Next ==
  \/ \E x \in Ctx : Calls(x) \/ Steps(x)
  \/ \E c \in CPU : \/ \E on \in BOOLEAN : ThreadIntr(c, on)
                    \/ Interrupt(c)
                    \/ InterruptReturn(c)

Spec == Init /\ [][Next]_vars

-----------------------------------------------------------------------------
(* acquire() excludes: no two contexts, on the same CPU or on different    *)
(* ones, are past the test-and-set of the same lock (spinlock.c:34).       *)
MutualExclusion ==
  \A x, y \in Ctx : x # y => held[x] \cap held[y] = {}

(* "disable interrupts to avoid deadlock" (spinlock.c:26): while a context *)
(* owns a lock no interrupt can be taken on its CPU, so a handler never    *)
(* runs on top of a lock owner.                                            *)
MaskedWhileHeld ==
  \A c \in CPU :
     /\ held[<<c, "thread">>] \cup held[<<c, "intr">>] # {} => ~sie[c]
     /\ irq[c] => held[<<c, "thread">>] = {}

(* None of the panics of acquire(), release() and pop_off() is reachable   *)
(* by callers that nest locks in order and release what they hold.         *)
NoPanic == \A x \in Ctx : pc[x] # "panic"

(* intr.c:7-9, "matched": whatever nesting of push_off/pop_off and of      *)
(* interrupts happened, at level 0 a thread outside push_off sees SIE as   *)
(* it last set it, although the handler overwrites the shared intena.      *)
IntrRestored ==
  \A c \in CPU :
     /\ noff[c] = 0
     /\ ~irq[c]
     /\ pc[<<c, "thread">>] = "run"
     => sie[c] = want[c]

(* A context that spins waits for another CPU, never for its own: neither  *)
(* for itself nor, in a handler, for the thread it interrupted.            *)
SpinsOnOtherCpu ==
  \A x, y \in Ctx :
     /\ pc[x] = "swap"
     /\ arg[x] \in held[y]
     => x[1] # y[1]

-----------------------------------------------------------------------------
(* The inductive strengthening: T(c) and H(c) are the two contexts of c.   *)
T(c) == <<c, "thread">>
H(c) == <<c, "intr">>

(* Lock words say who won the swap and, outside the two windows around     *)
(* the swap and the unlock, on which CPU.                                  *)
LockWords ==
  /\ \A l \in Lock : locked[l] <=> \E x \in Ctx : l \in held[x]
  /\ \A l \in Lock : ~locked[l] => cpu[l] = NoCpu
  /\ \A x \in Ctx : \A l \in held[x] :
        cpu[l] = IF arg[x] = l /\ pc[x] \in {"own", "unlock"} THEN NoCpu ELSE x[1]

(* What each point of acquire and release knows of its argument. *)
Arguments ==
  \A x \in Ctx :
     /\ pc[x] \in {"push1", "push2", "push3"} => arg[x] \notin held[x]
     /\ pc[x] \in {"hold1", "hold2", "swap"} => arg[x] \in Lock \ held[x]
     /\ pc[x] \in {"own", "rhold1", "rhold2", "disown", "unlock"} => arg[x] \in held[x]
     /\ pc[x] \in {"run", "pop"} => arg[x] = NoLock
     /\ pc[x] = "rhold2" => seen[x]
     /\ pc[x] = "disown" => cpu[arg[x]] = x[1]

(* One push_off per lock owned, and one more between push_off and the swap *)
(* and between the unlock and pop_off.                                     *)
Depth(x) ==
  Cardinality(held[x]) + IF pc[x] \in {"hold1", "hold2", "swap", "pop"} THEN 1 ELSE 0

Levels == \A c \in CPU : noff[c] = Depth(T(c)) + Depth(H(c))

(* A handler runs only over a thread that is outside every masked section. *)
Handlers ==
  \A c \in CPU :
     /\ ~irq[c] => pc[H(c)] = "run" /\ held[H(c)] = {}
     /\ irq[c] =>
          /\ held[T(c)] = {} /\ pc[T(c)] \in {"run", "push1", "push2"}
          /\ pc[T(c)] = "push2" => old[T(c)]
          /\ want[c] /\ ~sie[c]
          /\ pc[H(c)] \in {"push2", "push3"} => ~old[H(c)]
          /\ noff[c] > 0 => ~intena[c]

(* What the thread will find again in SIE. *)
Masking ==
  \A c \in CPU : ~irq[c] =>
     /\ sie[c] => noff[c] = 0 /\ pc[T(c)] \in {"run", "push1", "push2"}
     /\ noff[c] = 0 /\ pc[T(c)] \in {"run", "push1", "push2"} => sie[c] = want[c]
     /\ noff[c] = 0 /\ pc[T(c)] \in {"push2", "push3"} => old[T(c)] = want[c]
     /\ noff[c] > 0 => intena[c] = want[c]

(* The inductive invariant of acquire, release, push_off and pop_off. *)
IndInv ==
  /\ TypeOK
  /\ NoPanic
  /\ MutualExclusion
  /\ LockWords
  /\ Arguments
  /\ Levels
  /\ Handlers
  /\ Masking
=============================================================================
