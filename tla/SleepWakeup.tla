----------------------------- MODULE SleepWakeup -----------------------------
(***************************************************************************)
(* sleep(chan, lk) and wakeup(chan) of kernel/proc.c at the grain of the   *)
(* two locks they use: the condition lock lk of the caller (pi->lock,      *)
(* tickslock, cons.lock, ...) and each process's p->lock.  The scheduler   *)
(* is reduced to what it does to p->lock and p->state.  Shown to implement *)
(* CondVar.                                                                *)
(***************************************************************************)
EXTENDS Params

Proc == 1..NPROC
None == 0

VARIABLES
  lk,      \* the process that owns the condition lock, or None
  plock,   \* plock[p]: p->lock is owned (by p, or the scheduler for p)
  state,   \* p->state
  chan,    \* p->chan
  swpc,    \* where p is
  swarg,   \* swarg[p]: the channel of the call p executes
  idx      \* idx[p]: the slot wakeup()'s loop is at

swvars == <<lk, plock, state, chan, swpc, swarg, idx>>

(* "out" without lk, "in" with it; sleep(): "locked" p->lock, "unlocked"   *)
(* lk, "sched" before the scheduler releases p->lock, "off" the CPU,       *)
(* "woken" with p->lock; "wake" in wakeup()'s loop.                        *)
SwLabels == {"out", "in", "locked", "unlocked", "sched", "off", "woken", "wake"}

SwTypeOK ==
  /\ lk \in Proc \cup {None}
  /\ plock \in [Proc -> BOOLEAN]
  /\ state \in [Proc -> {"RUNNING", "SLEEPING", "RUNNABLE"}]
  /\ chan \in [Proc -> Chan \cup {NoChan}]
  /\ swpc \in [Proc -> SwLabels]
  /\ swarg \in [Proc -> Chan \cup {NoChan}]
  /\ idx \in [Proc -> Proc]

SwInit ==
  /\ lk = None
  /\ plock = [p \in Proc |-> FALSE]
  /\ state = [p \in Proc |-> "RUNNING"]
  /\ chan = [p \in Proc |-> NoChan]
  /\ swpc = [p \in Proc |-> "out"]
  /\ swarg = [p \in Proc |-> NoChan]
  /\ idx = [p \in Proc |-> 1]

SwGoto(p, l) == swpc' = [swpc EXCEPT ![p] = l]

AcquireLk(p) ==
  /\ swpc[p] = "out"
  /\ lk = None
  /\ lk' = p
  /\ SwGoto(p, "in")
  /\ UNCHANGED <<plock, state, chan, swarg, idx>>

ReleaseLk(p) ==
  /\ swpc[p] = "in"
  /\ lk' = None
  /\ SwGoto(p, "out")
  /\ UNCHANGED <<plock, state, chan, swarg, idx>>

(* sleep(): acquire(&p->lock) ... *)
SleepLockSelf(p, ch) ==
  /\ swpc[p] = "in"
  /\ ~plock[p]
  /\ plock' = [plock EXCEPT ![p] = TRUE]
  /\ swarg' = [swarg EXCEPT ![p] = ch]
  /\ SwGoto(p, "locked")
  /\ UNCHANGED <<lk, state, chan, idx>>

(* ... release(lk) ... *)
SleepReleaseLk(p) ==
  /\ swpc[p] = "locked"
  /\ lk' = None
  /\ SwGoto(p, "unlocked")
  /\ UNCHANGED <<plock, state, chan, swarg, idx>>

(* ... p->chan = chan; p->state = SLEEPING; sched() ... *)
SleepSched(p) ==
  /\ swpc[p] = "unlocked"
  /\ chan' = [chan EXCEPT ![p] = swarg[p]]
  /\ state' = [state EXCEPT ![p] = "SLEEPING"]
  /\ swarg' = [swarg EXCEPT ![p] = NoChan]
  /\ SwGoto(p, "sched")
  /\ UNCHANGED <<lk, plock, idx>>

(* scheduler(): off p's stack, release(&p->lock). *)
SchedRelease(p) ==
  /\ swpc[p] = "sched"
  /\ plock' = [plock EXCEPT ![p] = FALSE]
  /\ SwGoto(p, "off")
  /\ UNCHANGED <<lk, state, chan, swarg, idx>>

(* scheduler(): a RUNNABLE process runs again, with p->lock held. *)
SchedRun(p) ==
  /\ swpc[p] = "off"
  /\ state[p] = "RUNNABLE"
  /\ ~plock[p]
  /\ plock' = [plock EXCEPT ![p] = TRUE]
  /\ state' = [state EXCEPT ![p] = "RUNNING"]
  /\ SwGoto(p, "woken")
  /\ UNCHANGED <<lk, chan, swarg, idx>>

(* sleep(): p->chan = 0; release(&p->lock); then acquire(lk), AcquireLk. *)
SleepReturn(p) ==
  /\ swpc[p] = "woken"
  /\ chan' = [chan EXCEPT ![p] = NoChan]
  /\ plock' = [plock EXCEPT ![p] = FALSE]
  /\ SwGoto(p, "out")
  /\ UNCHANGED <<lk, state, swarg, idx>>

WakeupBegin(p, ch) ==
  /\ swpc[p] = "in"
  /\ swarg' = [swarg EXCEPT ![p] = ch]
  /\ SwGoto(p, "wake")
  /\ UNCHANGED <<lk, plock, state, chan, idx>>

(* wakeup(): one iteration, under the p->lock of the slot it looks at. *)
Roused(q, ch) == state[q] = "SLEEPING" /\ chan[q] = ch

(* Mutant of WakeupSlot: p->lock is not waited for, a busy slot is skipped. *)
WakeupSlotSkipsBusy(p) ==
  LET q == idx[p] IN
  /\ swpc[p] = "wake"
  /\ state' = [state EXCEPT ![q] = IF Roused(q, swarg[p]) /\ ~plock[q] THEN "RUNNABLE" ELSE @]
  /\ idx' = [idx EXCEPT ![p] = IF q = NPROC THEN 1 ELSE q + 1]
  /\ swarg' = [swarg EXCEPT ![p] = IF q = NPROC THEN NoChan ELSE @]
  /\ swpc' = [swpc EXCEPT ![p] = IF q = NPROC THEN "in" ELSE "wake"]
  /\ UNCHANGED <<lk, plock, chan>>

WakeupSlot(p) ==
  LET q == idx[p] IN
  /\ swpc[p] = "wake"
  /\ ~plock[q]
  /\ state' = [state EXCEPT ![q] = IF Roused(q, swarg[p]) THEN "RUNNABLE" ELSE @]
  /\ idx' = [idx EXCEPT ![p] = IF q = NPROC THEN 1 ELSE q + 1]
  /\ swarg' = [swarg EXCEPT ![p] = IF q = NPROC THEN NoChan ELSE @]
  /\ swpc' = [swpc EXCEPT ![p] = IF q = NPROC THEN "in" ELSE "wake"]
  /\ UNCHANGED <<lk, plock, chan>>

(* kill(): by any process, without lk. *)
KillWakesSleeper(q) ==
  /\ ~plock[q]
  /\ state[q] = "SLEEPING"
  /\ state' = [state EXCEPT ![q] = "RUNNABLE"]
  /\ UNCHANGED <<lk, plock, chan, swpc, swarg, idx>>

SwNext ==
  \E p \in Proc :
     \/ AcquireLk(p) \/ ReleaseLk(p)
     \/ \E ch \in Chan : SleepLockSelf(p, ch)
     \/ SleepReleaseLk(p) \/ SleepSched(p) \/ SchedRelease(p) \/ SchedRun(p)
     \/ SleepReturn(p)
     \/ \E ch \in Chan : WakeupBegin(p, ch)
     \/ WakeupSlot(p) \/ KillWakesSleeper(p)

SwSpec == SwInit /\ [][SwNext]_swvars

-----------------------------------------------------------------------------
(* The refinement.  p counts as asleep from the moment it gives up lk, and *)
(* as awake from the moment a wakeup() that will reach it has begun.       *)
SleepsOn(p) ==
  IF swpc[p] = "unlocked" THEN swarg[p]
  ELSE IF state[p] = "SLEEPING" THEN chan[p] ELSE NoChan

BeingWoken(p) ==
  /\ lk # None
  /\ swpc[lk] = "wake"
  /\ swarg[lk] = SleepsOn(p)
  /\ idx[lk] <= p

asleepBar == [p \in Proc |-> IF BeingWoken(p) THEN NoChan ELSE SleepsOn(p)]

CV == INSTANCE CondVar WITH NoProc <- None, owner <- lk, asleep <- asleepBar

(* sleep() and wakeup() implement the condition variable: no wakeup issued *)
(* under lk is lost on a process that gave lk up to sleep.                 *)
ImplementsCondVar == CV!CSpec

-----------------------------------------------------------------------------
(* The inductive invariant: where the two kinds of locks are owned, and    *)
(* what the fields of a process hold at each point of sleep and wakeup.    *)
LkOwner == \A p \in Proc : lk = p <=> swpc[p] \in {"in", "locked", "wake"}

PlockOwner ==
  \A p \in Proc : plock[p] <=> swpc[p] \in {"locked", "unlocked", "sched", "woken"}

Sleepers ==
  \A p \in Proc :
     /\ state[p] = "SLEEPING" => swpc[p] \in {"sched", "off"}
     /\ state[p] = "RUNNABLE" => swpc[p] = "off"
     /\ swpc[p] = "sched" => state[p] = "SLEEPING"
     /\ swpc[p] = "off" => state[p] # "RUNNING"

SwArguments ==
  \A p \in Proc :
     /\ swpc[p] \in {"locked", "unlocked", "wake"} => swarg[p] \in Chan
     /\ swpc[p] \in {"sched", "off"} => chan[p] \in Chan
     /\ swpc[p] # "wake" => idx[p] = 1

(* sleep() holds p->lock from before it gives up lk until it is off the    *)
(* CPU, and wakeup() holds lk for its whole loop.                          *)
SwIndInv == SwTypeOK /\ LkOwner /\ PlockOwner /\ Sleepers /\ SwArguments
=============================================================================
