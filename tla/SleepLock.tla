------------------------------ MODULE SleepLock ------------------------------
(***************************************************************************)
(* kernel/sleeplock.c: one sleep lock.  Every function takes lk->lk first  *)
(* and gives it up when it returns or sleeps, so what it does in between   *)
(* is one step; sleep() and wakeup() are those of CondVar.  kill() wakes a *)
(* waiter without the lock being free, which the while in acquiresleep()   *)
(* has to cope with, and leaves the waiter waiting: this lock ignores it.  *)
(***************************************************************************)
EXTENDS Params

NoPid == 0

VARIABLES sllocked, \* lk->locked
          pid,      \* lk->pid
          slpc      \* "out", "want" (spinning on lk->lk), "asleep" on lk, "own"

slvars == <<sllocked, pid, slpc>>

SlTypeOK ==
  /\ sllocked \in BOOLEAN
  /\ pid \in Pids \cup {NoPid}
  /\ slpc \in [Pids -> {"out", "want", "asleep", "own"}]

(* initsleeplock() *)
SlInit ==
  /\ sllocked = FALSE
  /\ pid = NoPid
  /\ slpc = [p \in Pids |-> "out"]

Call(p) ==
  /\ slpc[p] = "out"
  /\ slpc' = [slpc EXCEPT ![p] = "want"]
  /\ UNCHANGED <<sllocked, pid>>

(* acquiresleep(): the while finds the lock taken. *)
AcquireSleeps(p) ==
  /\ slpc[p] = "want"
  /\ sllocked
  /\ slpc' = [slpc EXCEPT ![p] = "asleep"]
  /\ UNCHANGED <<sllocked, pid>>

(* Mutant of Acquire: the while is an if, a woken waiter takes the lock. *)
AcquireUntested(p) ==
  /\ slpc[p] = "want"
  /\ sllocked' = TRUE
  /\ pid' = p
  /\ slpc' = [slpc EXCEPT ![p] = "own"]

(* acquiresleep(): the while finds the lock free. *)
Acquire(p) ==
  /\ slpc[p] = "want"
  /\ ~sllocked
  /\ sllocked' = TRUE
  /\ pid' = p
  /\ slpc' = [slpc EXCEPT ![p] = "own"]

(* Mutant of Release: nobody is woken. *)
ReleaseQuiet(p) ==
  /\ slpc[p] = "own"
  /\ sllocked' = FALSE
  /\ pid' = NoPid
  /\ slpc' = [slpc EXCEPT ![p] = "out"]

(* releasesleep(): wakeup(lk) wakes every waiter. *)
Release(p) ==
  /\ slpc[p] = "own"
  /\ sllocked' = FALSE
  /\ pid' = NoPid
  /\ slpc' = [q \in Pids |-> IF q = p THEN "out"
                             ELSE IF slpc[q] = "asleep" THEN "want" ELSE slpc[q]]

(* kill() of a waiter. *)
KillWakes(p) ==
  /\ slpc[p] = "asleep"
  /\ slpc' = [slpc EXCEPT ![p] = "want"]
  /\ UNCHANGED <<sllocked, pid>>

(* holdingsleep(), as bwrite(), brelse() and eunlock() ask it. *)
Holding(p) == sllocked /\ pid = p

SlNext ==
  \E p \in Pids :
     Call(p) \/ AcquireSleeps(p) \/ Acquire(p) \/ Release(p) \/ KillWakes(p)

SlSpec == SlInit /\ [][SlNext]_slvars

(* A process in acquiresleep() goes on, and an owner gives the lock up.    *)
SlFairness ==
  \A p \in Pids : WF_slvars(Acquire(p)) /\ WF_slvars(AcquireSleeps(p)) /\ WF_slvars(Release(p))
SlFairSpec == SlSpec /\ SlFairness

-----------------------------------------------------------------------------
(* holdingsleep() tells the truth: it is true of p exactly when p has come *)
(* out of acquiresleep() and has not called releasesleep().                *)
HoldingIsOwning == \A p \in Pids : Holding(p) <=> slpc[p] = "own"

(* Nobody sleeps on a lock that is free: the wakeup that would end the     *)
(* sleep has already been made.                                            *)
NoLostWakeup == \A p \in Pids : slpc[p] = "asleep" => sllocked

SlIndInv == SlTypeOK /\ HoldingIsOwning /\ NoLostWakeup /\ (pid = NoPid <=> ~sllocked)

Abs == INSTANCE Mutex WITH Procs <- Pids, NoProc <- NoPid, owner <- pid

(* The lock word lk->pid is that of a mutex. *)
ImplementsMutex == Abs!MSpec

(* While anyone wants the lock somebody gets it: those who sleep, those    *)
(* who were woken and those who come later are never all left without it.  *)
SomebodyGetsIt ==
  (\E p \in Pids : slpc[p] \in {"want", "asleep"}) ~> (\E p \in Pids : slpc[p] = "own")
=============================================================================
