-------------------------------- MODULE Disk ---------------------------------
(***************************************************************************)
(* kernel/disk.c: disk_read(), disk_write() and disk_intr() are those of   *)
(* the SD card in the k210 build and those of the virtio disk in the qemu  *)
(* build (#ifdef QEMU).  The kernel is the one or the other from the       *)
(* beginning; the variables of the driver that is not built are not there. *)
(***************************************************************************)
EXTENDS Integers

CONSTANTS
  SdProcs, Sector, Val,   \* of SdCard
  VdProcs, NUM, UMod      \* of VirtioDisk

ASSUME DiskAssumption ==
  /\ NUM \in Nat /\ NUM > 2
  /\ UMod \in Nat /\ UMod > 0 /\ UMod % NUM = 0

VARIABLES
  build,                                                        \* "k210" or "qemu"
  lock, pc,                                                     \* of the driver that is built
  chan, pending, card, staged, busy, op, sec, buf, bounce,      \* of SdCard
  free, chain, head, info, bdisk, avail, availIdx, devIdx,
  inflight, used, usedId, usedIdx, isr, moved, hpc              \* of VirtioDisk

sdState == <<chan, pending, card, staged, busy, op, sec, buf, bounce>>
vdState == <<free, chain, head, info, bdisk, avail, availIdx, devIdx, inflight, used,
             usedId, usedIdx, isr, moved, hpc>>
vars == <<build, lock, pc, sdState, vdState>>

Sd == INSTANCE SdCard WITH Procs <- SdProcs
Vd == INSTANCE VirtioDisk WITH Procs <- VdProcs

ASSUME DiskProcsAssumption == Sd!NoProc \notin SdProcs /\ Vd!None \notin VdProcs

Absent == "absent"

(* disk_init() *)
Init ==
  \/ /\ build = "k210"
     /\ Sd!Init
     /\ free = Absent /\ chain = Absent /\ head = Absent /\ info = Absent /\ bdisk = Absent
     /\ avail = Absent /\ availIdx = Absent /\ devIdx = Absent /\ inflight = Absent
     /\ used = Absent /\ usedId = Absent /\ usedIdx = Absent /\ isr = Absent
     /\ moved = Absent /\ hpc = Absent
  \/ /\ build = "qemu"
     /\ Vd!Init
     /\ chan = Absent /\ pending = Absent /\ card = Absent /\ staged = Absent
     /\ busy = Absent /\ op = Absent /\ sec = Absent /\ buf = Absent /\ bounce = Absent

SdNext == build = "k210" /\ Sd!Next /\ UNCHANGED <<build, vdState>>
VdNext == build = "qemu" /\ Vd!Next /\ UNCHANGED <<build, sdState>>

Next == SdNext \/ VdNext

Spec == Init /\ [][Next]_vars

-----------------------------------------------------------------------------
(* The type of the driver that is built. *)
TypeOK ==
  \/ build = "k210" /\ Sd!TypeOK
  \/ build = "qemu" /\ Vd!TypeOK

(* disk_read() and disk_write() return when their own transfer is over.    *)
(* k210: a read has what the card holds and a write has put the caller's   *)
(* data there; qemu: the device has moved the data (SdCard, VirtioDisk).   *)
TransferComplete ==
  /\ build = "k210" => Sd!TransferComplete
  /\ build = "qemu" => Vd!TransferComplete

(* qemu: whoever sleeps for descriptors waits for a request in progress    *)
(* (module VirtioDisk).                                                    *)
DescSleepersHaveReason == build = "qemu" => Vd!DescSleepersHaveReason
(* The inductive invariant of the kernel with its one driver.              *)
DiskIndInv ==
  /\ build \in {"k210", "qemu"}
  /\ build = "k210" => Sd!SdIndInv
  /\ build = "qemu" => Vd!VdIndInv
=============================================================================
