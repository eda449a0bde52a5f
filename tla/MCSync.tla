------------------------------- MODULE MCSync --------------------------------
(***************************************************************************)
(* Spin locks, sleep() and wakeup(), sleep locks and the buffer cache,     *)
(* which rest on one another, each as its own system: part says which one  *)
(* runs, the others keep their initial state.  Two harts and two locks,    *)
(* for nesting, an interrupt in every window of push_off() and pop_off()   *)
(* and contention; three processes and two channels; five processes at a   *)
(* sleep lock; three processes, three sectors and two buffers.             *)
(***************************************************************************)
EXTENDS SpinLock, SleepWakeup, SleepLock, BCache, TLC

VARIABLE part
all == <<part, vars, swvars, slvars, bvars>>

MCInit ==
  /\ part \in {"spinlock", "sleepwakeup", "sleeplock", "bcache"}
  /\ Init /\ SwInit /\ SlInit /\ BInit
  /\ part = "bcache" \/ \A s, t \in Sector : disk[s] = disk[t] /\ \A b \in Buf : data[b] = disk[s]

SpinLockStep == part = "spinlock" /\ Next /\ UNCHANGED <<part, swvars, slvars, bvars>>
SleepWakeupStep == part = "sleepwakeup" /\ SwNext /\ UNCHANGED <<part, vars, slvars, bvars>>
SleepLockStep == part = "sleeplock" /\ SlNext /\ UNCHANGED <<part, vars, swvars, bvars>>
BCacheStep == part = "bcache" /\ BNext /\ UNCHANGED <<part, vars, swvars, slvars>>
Panicked == panicked /\ UNCHANGED all    \* panic("bget: no buffers")

MCNext == SpinLockStep \/ SleepWakeupStep \/ SleepLockStep \/ BCacheStep \/ Panicked
MCSpec == MCInit /\ [][MCNext]_all /\ SlFairness

(* Only the buffer cache knows sectors and their contents. *)
Sym == Permutations(Sector) \cup Permutations(Val)
=============================================================================
