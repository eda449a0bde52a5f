------------------------------- MODULE SdCard --------------------------------
(***************************************************************************)
(* The k210's disk: sdcard_read_sector() and sdcard_write_sector() of      *)
(* kernel/sdcard.c, over the DMA transfer of kernel/spi.c and the wait for *)
(* it in kernel/dmac.c.  sdcard_lock is a mutex (module SleepLock).  The   *)
(* bytes of commands and answers are left out, the choice between success  *)
(* and panic they lead to is kept.  The DMA controller and the card are    *)
(* external: they are modelled by what the code waits for.                 *)
(***************************************************************************)
EXTENDS Integers

CONSTANTS Procs, Sector, Val

NoProc == "noproc"

VARIABLES
  lock,      \* who has sdcard_lock
  chan,      \* whose transfer DMA channel 0 is doing (its bit in chen)
  pending,   \* the channel's interrupt is raised
  card,      \* card[s]: what the card holds
  staged,    \* the data block the card was sent, and is programming
  busy,      \* the process whose write it is programming, or NoProc
  op,        \* op[p]: "read" or "write", the call p is in
  sec,       \* sec[p]: its sector
  buf,       \* buf[p]: the data of the caller's struct buf
  bounce,    \* bounce[p]: the page of spi_*_standard_dma() the DMA uses
  pc         \* where p is

vars == <<lock, chan, pending, card, staged, busy, op, sec, buf, bounce, pc>>
call == <<op, sec>>

(* "out"; "lock" at acquiresleep(); "cmd" sending the command; in          *)
(* dmac_wait_idle(): "wait" before its test, "tested" after it found the   *)
(* channel busy, "asleep"; "moved" after the transfer; "prog" waiting for  *)
(* the card; "unlock" at releasesleep(); "panic", in panic()'s loop, which *)
(* stops one hart and not the others.                                      *)
Labels == {"out", "lock", "cmd", "wait", "tested", "asleep", "moved", "prog", "unlock", "panic"}

TypeOK ==
  /\ lock \in Procs \cup {NoProc}
  /\ chan \in Procs \cup {NoProc}
  /\ pending \in BOOLEAN
  /\ card \in [Sector -> Val]
  /\ staged \in Val
  /\ busy \in Procs \cup {NoProc}
  /\ op \in [Procs -> {"read", "write"}]
  /\ sec \in [Procs -> Sector]
  /\ buf \in [Procs -> Val]
  /\ bounce \in [Procs -> Val]
  /\ pc \in [Procs -> Labels]

Init ==
  /\ lock = NoProc /\ chan = NoProc
  /\ pending = FALSE /\ busy = NoProc
  /\ card \in [Sector -> Val]
  /\ staged \in Val
  /\ op = [p \in Procs |-> "read"]
  /\ \E s \in Sector : sec = [p \in Procs |-> s]
  /\ \E v \in Val : buf = [p \in Procs |-> v] /\ bounce = [p \in Procs |-> v]
  /\ pc = [p \in Procs |-> "out"]

Goto(p, l) == pc' = [pc EXCEPT ![p] = l]

-----------------------------------------------------------------------------
(* disk_read(b) or disk_write(b); what b holds is up to the caller. *)
Call(p, o, s, v) ==
  /\ pc[p] = "out"
  /\ op' = [op EXCEPT ![p] = o]
  /\ sec' = [sec EXCEPT ![p] = s]
  /\ buf' = [buf EXCEPT ![p] = v]
  /\ Goto(p, "lock")
  /\ UNCHANGED <<lock, chan, pending, card, staged, busy, bounce>>

Lock(p) ==
  /\ pc[p] = "lock"
  /\ lock = NoProc
  /\ lock' = p
  /\ Goto(p, "cmd")
  /\ UNCHANGED <<chan, pending, card, staged, busy, call, buf, bounce>>

(* The card refuses the command: the lock is released before the panic. *)
CommandFails(p) ==
  /\ pc[p] = "cmd"
  /\ lock' = NoProc
  /\ Goto(p, "panic")
  /\ UNCHANGED <<chan, pending, card, staged, busy, call, buf, bounce>>

(* The start token of a read never comes: the lock is not released. *)
TokenTimeout(p) ==
  /\ pc[p] = "cmd" /\ op[p] = "read"
  /\ Goto(p, "panic")
  /\ UNCHANGED <<lock, chan, pending, card, staged, busy, call, buf, bounce>>

(* sd_read_data_dma(), sd_write_data_dma(): a bounce page, then            *)
(* dmac_set_single_mode(), which clears the interrupt, takes the channel   *)
(* (from whoever used it) and starts it.                                   *)
StartDma(p) ==
  /\ pc[p] = "cmd"
  /\ pending' = FALSE
  /\ chan' = p
  /\ bounce' = [bounce EXCEPT ![p] = IF op[p] = "write" THEN buf[p] ELSE @]
  /\ Goto(p, "wait")
  /\ UNCHANGED <<lock, card, staged, busy, call, buf>>

(* The controller and the card: all of the block was moved. *)
DmaFinish ==
  /\ chan # NoProc
  /\ bounce' = [bounce EXCEPT ![chan] = IF op[chan] = "read" THEN card[sec[chan]] ELSE @]
  /\ staged' = IF op[chan] = "write" THEN bounce[chan] ELSE staged
  /\ busy' = IF op[chan] = "write" THEN chan ELSE busy
  /\ chan' = NoProc
  /\ pending' = TRUE
  /\ UNCHANGED <<lock, card, call, buf, pc>>

(* devintr() -> disk_intr() -> dmac_intr(): clear it, wakeup(dmac_chan). *)
DmacIntr ==
  /\ pending
  /\ pending' = FALSE
  /\ pc' = [p \in Procs |-> IF pc[p] = "asleep" THEN "wait" ELSE pc[p]]
  /\ UNCHANGED <<lock, chan, card, staged, busy, call, buf, bounce>>

(* dmac_wait_idle(): the test ... *)
TestIdle(p) ==
  /\ pc[p] = "wait"
  /\ Goto(p, IF chan = NoProc THEN "moved" ELSE "tested")
  /\ UNCHANGED <<lock, chan, pending, card, staged, busy, call, buf, bounce>>

(* ... then acquire(&myproc()->lock) and sleep(). *)
Sleep(p) ==
  /\ pc[p] = "tested"
  /\ Goto(p, "asleep")
  /\ UNCHANGED <<lock, chan, pending, card, staged, busy, call, buf, bounce>>

(* kill() wakes the sleeper, who tests again. *)
KillWakes(p) ==
  /\ pc[p] = "asleep"
  /\ Goto(p, "wait")
  /\ UNCHANGED <<lock, chan, pending, card, staged, busy, call, buf, bounce>>

(* The page is copied to the caller's buffer and freed. *)
ReadDone(p) ==
  /\ pc[p] = "moved" /\ op[p] = "read"
  /\ buf' = [buf EXCEPT ![p] = bounce[p]]
  /\ Goto(p, "unlock")
  /\ UNCHANGED <<lock, chan, pending, card, staged, busy, call, bounce>>

(* The data response token. *)
WriteSent(p) ==
  /\ pc[p] = "moved" /\ op[p] = "write"
  /\ Goto(p, "prog")
  /\ UNCHANGED <<lock, chan, pending, card, staged, busy, call, buf, bounce>>

(* The card stores what p sent it, where p told it to. *)
Programmed ==
  /\ busy # NoProc
  /\ card' = [card EXCEPT ![sec[busy]] = staged]
  /\ busy' = NoProc
  /\ UNCHANGED <<lock, chan, pending, staged, call, buf, bounce, pc>>

(* Mutant of WriteDone: the card's busy answers are not waited for. *)
WriteDoneEarly(p) ==
  /\ pc[p] = "prog"
  /\ Goto(p, "unlock")
  /\ UNCHANGED <<lock, chan, pending, card, staged, busy, call, buf, bounce>>

(* The card is ready again, and CMD13 reports no error. *)
WriteDone(p) ==
  /\ pc[p] = "prog"
  /\ busy # p
  /\ Goto(p, "unlock")
  /\ UNCHANGED <<lock, chan, pending, card, staged, busy, call, buf, bounce>>

(* No response token, no end of programming in time, or an error status. *)
WriteFails(p) ==
  /\ pc[p] = "prog"
  /\ lock' = NoProc
  /\ Goto(p, "panic")
  /\ UNCHANGED <<chan, pending, card, staged, busy, call, buf, bounce>>

Unlock(p) ==
  /\ pc[p] = "unlock"
  /\ lock' = NoProc
  /\ Goto(p, "out")
  /\ UNCHANGED <<chan, pending, card, staged, busy, call, buf, bounce>>

Inside(p) ==
  \/ Lock(p) \/ CommandFails(p) \/ TokenTimeout(p) \/ StartDma(p) \/ TestIdle(p) \/ Sleep(p)
  \/ ReadDone(p) \/ WriteSent(p) \/ WriteDone(p) \/ WriteFails(p) \/ Unlock(p)

Next ==
  \/ \E p \in Procs :
       \/ \E o \in {"read", "write"}, s \in Sector, v \in Val : Call(p, o, s, v)
       \/ Inside(p) \/ KillWakes(p)
  \/ DmaFinish \/ DmacIntr \/ Programmed

Spec == Init /\ [][Next]_vars

(* Processes go on, transfers and programming end, interrupts are taken;   *)
(* nobody is obliged to kill anyone.                                       *)
FairSpec ==
  /\ Spec
  /\ \A p \in Procs : WF_vars(Inside(p))
  /\ WF_vars(DmaFinish) /\ WF_vars(DmacIntr) /\ WF_vars(Programmed)

-----------------------------------------------------------------------------
(* When a call is about to give the card back, a read has what the card    *)
(* holds and a write has put the caller's data there: the transfer that    *)
(* the buffer cache takes to be one step is over, and was its own.  (A     *)
(* write that panicked may leave the card busy with the lock released.)    *)
TransferComplete ==
  (\A q \in Procs : pc[q] # "panic") =>
     \A p \in Procs : pc[p] = "unlock" => buf[p] = card[sec[p]]

(* "Wait for dmac work done" (dmac.h): the wait for a transfer ends. *)
WaitReturns ==
  \A p \in Procs : pc[p] = "wait" ~> pc[p] = "moved"
-----------------------------------------------------------------------------
(* The inductive invariant, while no process has panicked: the lock is the *)
(* caller's from the command on, channel and card work for nobody else ... *)
WithLock == {"cmd", "wait", "tested", "asleep", "moved", "prog", "unlock"}
Waiting == {"wait", "tested", "asleep"}
LockOwner == \A p \in Procs : lock = p <=> pc[p] \in WithLock
OwnTransfer ==
  /\ chan # NoProc => pc[chan] \in Waiting /\ (op[chan] = "write" => bounce[chan] = buf[chan])
  /\ busy # NoProc => /\ pc[busy] \in Waiting \cup {"moved", "prog"} /\ op[busy] = "write"
                      /\ chan # busy /\ staged = buf[busy]

(* ... and once the transfer is over, what was to be moved has arrived.    *)
Arrived(p) ==
  IF op[p] = "read" THEN bounce[p] = card[sec[p]] ELSE busy = p \/ card[sec[p]] = buf[p]
Progress ==
  \A p \in Procs :
    /\ pc[p] \in Waiting => chan = p \/ Arrived(p)
    /\ pc[p] = "moved" => chan # p /\ Arrived(p)
    /\ pc[p] = "prog" => chan # p /\ op[p] = "write" /\ Arrived(p)
    /\ pc[p] = "unlock" => buf[p] = card[sec[p]]

SdIndInv ==
  /\ TypeOK
  /\ (\A q \in Procs : pc[q] # "panic") => LockOwner /\ OwnTransfer /\ Progress
=============================================================================
