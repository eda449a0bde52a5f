------------------------------ MODULE MCProgress ------------------------------
(***************************************************************************)
(* What must eventually happen: the scheduler, and a pipe whose holders    *)
(* are killed, each as its own system.  part says which one runs, the      *)
(* other keeps its initial state.  One hart and three slots of the process *)
(* table; two processes at the ends of a pipe of one byte, whose indices   *)
(* wrap.                                                                   *)
(***************************************************************************)
EXTENDS Proc

CONSTANTS Procs, Killable, PIPESIZE, UMod, Byte, MaxN               \* Pipe

VARIABLES
  part,
  allocated, nread, nwrite, readopen, writeopen, data,              \* Pipe
  plock, holds, pkilled, ppc, todo, closing, ch

P == INSTANCE Pipe WITH lock <- plock, killed <- pkilled, pc <- ppc

pvars == <<allocated, nread, nwrite, readopen, writeopen, data,
           plock, holds, pkilled, ppc, todo, closing, ch>>
all == <<part, vars, pvars>>

MCInit == part \in {"proc", "pipe"} /\ Init /\ P!Init

ProcStep == part = "proc" /\ Next /\ UNCHANGED <<part, pvars>>
PipeStep == part = "pipe" /\ P!Next /\ UNCHANGED <<part, vars>>
PipeIdle == part = "pipe" /\ UNCHANGED all    \* the only holder may sleep at its own pipe
MCNext == ProcStep \/ PipeStep \/ PipeIdle

(* The fairness of FairSpec in Proc and in Pipe. *)
MCSpec ==
  /\ MCInit /\ [][MCNext]_all
  /\ \A c \in CPU : /\ WF_vars(part = "proc" /\ KernelCode(c))
                    /\ SF_vars(part = "proc" /\ Timer(c))
  /\ \A p \in Procs : WF_pvars(P!Inside(p)) /\ SF_pvars(P!Acquires(p))

(* scheduler(): a runnable process runs.                                   *)
ReadyRuns == part = "proc" => RunnableRuns
(* kill(): the victim exits, also when it sleeps in wait().                *)
VictimExits == part = "proc" => KilledExits
(* pipewrite() returns once its readers are gone, and piperead() once its  *)
(* writers are, asleep or awake.                                           *)
CallsReturn == P!CallsReturn
=============================================================================
