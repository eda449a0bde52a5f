------------------------------ MODULE MCStreams ------------------------------
(***************************************************************************)
(* The two byte streams of the kernel, a pipe and the console, each as its *)
(* own system: part says which one runs, the other keeps its initial       *)
(* state.  Three processes share a pipe of two bytes and nobody is killed; *)
(* two readers share a console ring of two characters and are killed.      *)
(* The indices of both rings wrap.                                         *)
(***************************************************************************)
EXTENDS Pipe, Console, TLC

VARIABLE part
all == <<part, vars, cvars>>

MCInit ==
  /\ part \in {"pipe", "console"} /\ Init /\ CInit
PipeStep == part = "pipe" /\ Next /\ UNCHANGED <<part, cvars>>
PipeIdle == part = "pipe" /\ UNCHANGED all    \* the only holder may sleep at its own pipe
ConsoleStep == part = "console" /\ CNext /\ UNCHANGED <<part, vars>>
MCNext == PipeStep \/ PipeIdle \/ ConsoleStep

(* The fairness of CFairSpec in Console. *)
MCSpec ==
  /\ MCInit /\ [][MCNext]_all
  /\ \A p \in Readers : WF_cvars(CInside(p)) /\ SF_cvars(CReadAcquire(p))

(* Nothing of the console is symmetric in these sets. *)
Sym == Permutations(Procs) \cup Permutations(Byte)
=============================================================================
