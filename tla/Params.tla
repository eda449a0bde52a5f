-------------------------------- MODULE Params --------------------------------
(***************************************************************************)
(* The parameters of the modules on locks and sleeping, as libs/param.h    *)
(* has them for the kernel, and what is assumed of them.                   *)
(***************************************************************************)
EXTENDS Integers, FiniteSets

CONSTANTS
  CPU,      \* the harts
  Lock,     \* the spin locks, numbered in the order callers nest them
  NPROC,    \* size of the process table
  Chan,     \* the channels used with a condition lock
  Pids      \* process ids

NoCpu == "nocpu"                  \* lk->cpu == 0
NoChan == "nochan"

ASSUME LockAssumption == Lock \subseteq Nat /\ IsFiniteSet(Lock)
ASSUME CpuAssumption == NoCpu \notin CPU
ASSUME NPROCAssumption == NPROC \in Nat \ {0}
ASSUME ChanAssumption == NoChan \notin Chan
ASSUME PidAssumption == Pids \subseteq Nat \ {0}
=============================================================================
