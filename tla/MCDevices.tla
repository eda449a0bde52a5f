------------------------------ MODULE MCDevices ------------------------------
(***************************************************************************)
(* The board from reset to the scheduler, and the disk drivers after it:   *)
(* part says which of the two runs, the other keeps an initial state.      *)
(* NUM = 8 is the code's; at most two requests of three descriptors are in *)
(* flight then, and two of the four processes wait.                        *)
(***************************************************************************)
EXTENDS Disk, Board, TLC

VARIABLE part
all == <<part, vars, boardVars>>

(* The board keeps one of its initial states while the disk is used. *)
BoardIdle ==
  /\ BoardInit
  /\ \A n \in Pins : io[n].ch_sel = FUNC_RESV0
  /\ ~sd.high /\ sd.warm = 0

DiskAbsent ==
  /\ build = Absent /\ lock = Absent /\ pc = Absent /\ chan = Absent /\ pending = Absent
  /\ card = Absent /\ staged = Absent /\ busy = Absent /\ op = Absent /\ sec = Absent
  /\ buf = Absent /\ bounce = Absent /\ free = Absent /\ chain = Absent /\ head = Absent
  /\ info = Absent /\ bdisk = Absent /\ avail = Absent /\ availIdx = Absent /\ devIdx = Absent
  /\ inflight = Absent /\ used = Absent /\ usedId = Absent /\ usedIdx = Absent /\ isr = Absent
  /\ moved = Absent /\ hpc = Absent

MCInit ==
  \/ part = "disk" /\ BoardIdle /\ Init
  \/ part = "board" /\ DiskAbsent /\ BoardInit
DiskStep == part = "disk" /\ Next /\ UNCHANGED <<part, boardVars>>
BoardStep == part = "board" /\ BoardNext /\ UNCHANGED <<part, vars>>
MCNext == DiskStep \/ BoardStep
MCSpec == MCInit /\ [][MCNext]_all

(* Nothing of the board is symmetric in these sets. *)
Sym == Permutations(SdProcs) \cup Permutations(VdProcs)
         \cup Permutations(Sector) \cup Permutations(Val)

(* Ring entries that were consumed are written again before they are read: *)
(* states that differ in them only are one state to the checker.           *)
Pending(r, from, to) == [k \in 0..(((to - from) % NUM) - 1) |-> r[(from + k) % NUM]]

LiveRings ==
  CASE part = "board" -> boardVars
    [] build = "qemu" ->
         <<lock, pc, free, chain, head, info, bdisk, Pending(avail, devIdx, availIdx), availIdx,
           devIdx, inflight, Pending(used, usedIdx, usedId), usedId, usedIdx, isr, moved, hpc>>
    [] build = "k210" -> <<lock, pc, sdState>>
=============================================================================
