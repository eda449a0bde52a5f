-------------------------------- MODULE Pipe --------------------------------
(***************************************************************************)
(* kernel/pipe.c: one pipe, the processes that hold its two ends, and the  *)
(* page it lives in.  Everything pi->lock protects is done in one step     *)
(* from acquire to release or sleep, except that the test of pr->killed,   *)
(* a field pi->lock does not protect, is a step apart from the sleep that  *)
(* follows it.  sleep() and wakeup() are the atomic ones of CondVar, which *)
(* module SleepWakeup shows proc.c to implement.                           *)
(***************************************************************************)
EXTENDS Integers, Sequences, FiniteSets

CONSTANTS
  Procs,      \* the processes that can share the pipe
  Killable,   \* those of them somebody may kill
  PIPESIZE,   \* bytes the ring holds
  UMod,       \* nread and nwrite are uint: they count modulo UMod
  Byte,       \* what a byte can be
  MaxN        \* the largest n of a read or a write

ASSUME PipeAssumption ==
  /\ PIPESIZE \in Nat \ {0}
  /\ UMod \in Nat
  /\ UMod > PIPESIZE /\ UMod % PIPESIZE = 0
  /\ MaxN \in Nat
  /\ Killable \subseteq Procs

NoByte == "nobyte"
NoProc == "noproc"
ASSUME NamesAssumption == NoByte \notin Byte /\ NoProc \notin Procs

Ends == {"r", "w"}

VARIABLES
  allocated,  \* the page holds a pipe: pipealloc() returned, kfree() not yet called
  nread, nwrite, readopen, writeopen, data,  \* struct pipe
  lock,       \* who holds pi->lock
  holds,      \* holds[p]: the ends p has a file descriptor for
  killed,     \* pr->killed
  pc,         \* where p is
  todo,       \* todo[p]: n - i, bytes p's call has left
  closing,    \* closing[p]: the end whose last reference p dropped, or "none"
  ch          \* the byte piperead() took out of the ring

pipe == <<nread, nwrite, readopen, writeopen, data>>
vars == <<allocated, nread, nwrite, readopen, writeopen, data, lock, holds,
          killed, pc, todo, closing, ch>>

(* "user" outside the pipe; "wacq", "wloop", "wfull", "wasleep" in         *)
(* pipewrite(); "racq", "rtop", "rempty", "rasleep", "rcopy", "rout" in    *)
(* piperead(); "cacq" and "kfree" in pipeclose().                          *)
Labels == {"user", "wacq", "wloop", "wfull", "wasleep",
           "racq", "rtop", "rempty", "rasleep", "rcopy", "rout", "cacq", "kfree"}

Holding == {"wloop", "wfull", "rtop", "rempty", "rcopy", "rout"}

TypeOK ==
  /\ allocated \in BOOLEAN
  /\ nread \in 0..(UMod - 1)
  /\ nwrite \in 0..(UMod - 1)
  /\ readopen \in BOOLEAN
  /\ writeopen \in BOOLEAN
  /\ data \in [0..(PIPESIZE - 1) -> Byte]
  /\ lock \in Procs \cup {NoProc}
  /\ holds \in [Procs -> SUBSET Ends]
  /\ killed \in [Procs -> BOOLEAN]
  /\ pc \in [Procs -> Labels]
  /\ todo \in [Procs -> 0..MaxN]
  /\ closing \in [Procs -> Ends \cup {"none"}]
  /\ ch \in Byte \cup {NoByte}

(* What kalloc() and kfree() fill a page with. *)
Junk(b) == [j \in 0..(PIPESIZE - 1) |-> b]

Init ==
  /\ allocated = FALSE
  /\ nread = 0 /\ nwrite = 0 /\ readopen = FALSE /\ writeopen = FALSE
  /\ \E b \in Byte : data = Junk(b)
  /\ lock = NoProc
  /\ holds = [p \in Procs |-> {}]
  /\ killed = [p \in Procs |-> FALSE]
  /\ pc = [p \in Procs |-> "user"]
  /\ todo = [p \in Procs |-> 0]
  /\ closing = [p \in Procs |-> "none"]
  /\ ch = NoByte

Goto(p, l) == pc' = [pc EXCEPT ![p] = l]

Empty == nread = nwrite
Full == nwrite = (nread + PIPESIZE) % UMod

(* Where wakeup(&pi->nread), or wakeup(&pi->nwrite), leaves process q once *)
(* p itself has gone on to l: a sleeper is back at sleep()'s acquire(lk).  *)
WokenReaders(p, l) ==
  [q \in Procs |-> IF q = p THEN l ELSE IF pc[q] = "rasleep" THEN "racq" ELSE pc[q]]
WokenWriters(p, l) ==
  [q \in Procs |-> IF q = p THEN l ELSE IF pc[q] = "wasleep" THEN "wacq" ELSE pc[q]]

-----------------------------------------------------------------------------
(* pipealloc(), called by sys_pipe(): a fresh pipe, both ends to p.        *)
PipeAlloc(p) ==
  /\ pc[p] = "user" /\ ~killed[p] /\ holds[p] = {}
  /\ ~allocated
  /\ allocated' = TRUE
  /\ nread' = 0 /\ nwrite' = 0 /\ readopen' = TRUE /\ writeopen' = TRUE
  /\ holds' = [holds EXCEPT ![p] = Ends]
  /\ UNCHANGED <<data, lock, killed, pc, todo, closing, ch>>

(* fork() duplicates p's descriptors for q. *)
Dup(p, q) ==
  /\ pc[p] = "user" /\ ~killed[p] /\ holds[p] # {}
  /\ pc[q] = "user" /\ ~killed[q] /\ holds[q] = {}
  /\ holds' = [holds EXCEPT ![q] = holds[p]]
  /\ UNCHANGED <<allocated, pipe, lock, killed, pc, todo, closing, ch>>

(* kill(): sets killed and wakes a sleeper. *)
Kill(q) ==
  /\ q \in Killable
  /\ ~killed[q]
  /\ holds[q] # {}
  /\ killed' = [killed EXCEPT ![q] = TRUE]
  /\ pc' = [pc EXCEPT ![q] = CASE @ = "rasleep" -> "racq"
                               [] @ = "wasleep" -> "wacq"
                               [] OTHER -> @]
  /\ UNCHANGED <<allocated, pipe, lock, holds, todo, closing, ch>>

(* The slot of a process that exited is used again. *)
Reborn(q) ==
  /\ pc[q] = "user" /\ killed[q] /\ holds[q] = {}
  /\ killed' = [killed EXCEPT ![q] = FALSE]
  /\ UNCHANGED <<allocated, pipe, lock, holds, pc, todo, closing, ch>>

-----------------------------------------------------------------------------
(* pipewrite() *)
WriteCall(p, n) ==
  /\ pc[p] = "user" /\ "w" \in holds[p]
  /\ ~killed[p]                       \* usertrap() exits a killed process
  /\ todo' = [todo EXCEPT ![p] = n]
  /\ Goto(p, "wacq")
  /\ UNCHANGED <<allocated, pipe, lock, holds, killed, closing, ch>>

Acquire(p, from, to) ==
  /\ pc[p] = from
  /\ lock = NoProc
  /\ lock' = p
  /\ Goto(p, to)
  /\ UNCHANGED <<allocated, pipe, holds, killed, todo, closing, ch>>

WriteAcquire(p) == Acquire(p, "wacq", "wloop")

(* Mutant of WriteByte: the ring is not tested for being full. *)
WriteByteOverrun(p, b) ==
  /\ pc[p] = "wloop" /\ todo[p] > 0
  /\ data' = [data EXCEPT ![nwrite % PIPESIZE] = b]
  /\ nwrite' = (nwrite + 1) % UMod
  /\ todo' = [todo EXCEPT ![p] = @ - 1]
  /\ UNCHANGED <<allocated, nread, readopen, writeopen, lock, holds, killed, pc, closing, ch>>

(* copyin2() gave byte b, which goes into the ring. *)
WriteByte(p, b) ==
  /\ pc[p] = "wloop" /\ todo[p] > 0
  /\ ~Full
  /\ data' = [data EXCEPT ![nwrite % PIPESIZE] = b]
  /\ nwrite' = (nwrite + 1) % UMod
  /\ todo' = [todo EXCEPT ![p] = @ - 1]
  /\ UNCHANGED <<allocated, nread, readopen, writeopen, lock, holds, killed, pc, closing, ch>>

(* Full, and nobody will make room or p is killed: return -1. *)
WriteFail(p) ==
  /\ pc[p] = "wloop" /\ todo[p] > 0
  /\ Full
  /\ ~readopen \/ killed[p]
  /\ lock' = NoProc
  /\ todo' = [todo EXCEPT ![p] = 0]
  /\ Goto(p, "user")
  /\ UNCHANGED <<allocated, pipe, holds, killed, closing, ch>>

(* Mutant of WriteFull: readopen is not tested. *)
WriteFullIgnoresClose(p) ==
  /\ pc[p] = "wloop" /\ todo[p] > 0
  /\ Full
  /\ ~killed[p]
  /\ Goto(p, "wfull")
  /\ UNCHANGED <<allocated, pipe, lock, holds, killed, todo, closing, ch>>

WriteFull(p) ==
  /\ pc[p] = "wloop" /\ todo[p] > 0
  /\ Full
  /\ readopen /\ ~killed[p]
  /\ Goto(p, "wfull")
  /\ UNCHANGED <<allocated, pipe, lock, holds, killed, todo, closing, ch>>

(* wakeup(&pi->nread); sleep(&pi->nwrite, &pi->lock) *)
WriteSleep(p) ==
  /\ pc[p] = "wfull"
  /\ lock' = NoProc
  /\ pc' = WokenReaders(p, "wasleep")
  /\ UNCHANGED <<allocated, pipe, holds, killed, todo, closing, ch>>

(* All written, or copyin2() failed: wakeup(&pi->nread), return i. *)
WriteDone(p) ==
  /\ pc[p] = "wloop"
  /\ todo[p] > 0 => ~Full
  /\ lock' = NoProc
  /\ todo' = [todo EXCEPT ![p] = 0]
  /\ pc' = WokenReaders(p, "user")
  /\ UNCHANGED <<allocated, pipe, holds, killed, closing, ch>>

-----------------------------------------------------------------------------
(* piperead() *)
ReadCall(p, n) ==
  /\ pc[p] = "user" /\ "r" \in holds[p]
  /\ ~killed[p]
  /\ todo' = [todo EXCEPT ![p] = n]
  /\ Goto(p, "racq")
  /\ UNCHANGED <<allocated, pipe, lock, holds, killed, closing, ch>>

ReadAcquire(p) == Acquire(p, "racq", "rtop")

(* The while: go on, give up, or sleep. *)
ReadReady(p) ==
  /\ pc[p] = "rtop"
  /\ ~Empty \/ ~writeopen
  /\ Goto(p, "rcopy")
  /\ UNCHANGED <<allocated, pipe, lock, holds, killed, todo, closing, ch>>

ReadFail(p) ==
  /\ pc[p] = "rtop"
  /\ Empty /\ writeopen
  /\ killed[p]
  /\ lock' = NoProc
  /\ todo' = [todo EXCEPT ![p] = 0]
  /\ Goto(p, "user")
  /\ UNCHANGED <<allocated, pipe, holds, killed, closing, ch>>

ReadEmpty(p) ==
  /\ pc[p] = "rtop"
  /\ Empty /\ writeopen
  /\ ~killed[p]
  /\ Goto(p, "rempty")
  /\ UNCHANGED <<allocated, pipe, lock, holds, killed, todo, closing, ch>>

ReadSleep(p) ==
  /\ pc[p] = "rempty"
  /\ lock' = NoProc
  /\ Goto(p, "rasleep")
  /\ UNCHANGED <<allocated, pipe, holds, killed, todo, closing, ch>>

(* ch = pi->data[pi->nread++ % PIPESIZE] ... *)
ReadByte(p) ==
  /\ pc[p] = "rcopy" /\ todo[p] > 0
  /\ ~Empty
  /\ ch' = data[nread % PIPESIZE]
  /\ nread' = (nread + 1) % UMod
  /\ Goto(p, "rout")
  /\ UNCHANGED <<allocated, nwrite, readopen, writeopen, data, lock, holds, killed, todo, closing>>

(* ... and copyout2() hands it over, or fails and ends the loop. *)
ReadCopyout(p, ok) ==
  /\ pc[p] = "rout"
  /\ ch' = NoByte
  /\ todo' = [todo EXCEPT ![p] = IF ok THEN @ - 1 ELSE 0]
  /\ Goto(p, "rcopy")
  /\ UNCHANGED <<allocated, pipe, lock, holds, killed, closing>>

(* Mutant of ReadDone: writers are woken only when the ring is empty. *)
ReadDoneLazyWakeup(p) ==
  /\ pc[p] = "rcopy"
  /\ todo[p] = 0 \/ Empty
  /\ lock' = NoProc
  /\ todo' = [todo EXCEPT ![p] = 0]
  /\ pc' = IF Empty THEN WokenWriters(p, "user") ELSE [pc EXCEPT ![p] = "user"]
  /\ UNCHANGED <<allocated, pipe, holds, killed, closing, ch>>

ReadDone(p) ==
  /\ pc[p] = "rcopy"
  /\ todo[p] = 0 \/ Empty
  /\ lock' = NoProc
  /\ todo' = [todo EXCEPT ![p] = 0]
  /\ pc' = WokenWriters(p, "user")
  /\ UNCHANGED <<allocated, pipe, holds, killed, closing, ch>>

-----------------------------------------------------------------------------
(* fileclose(), by close() or, for a killed process, by exit(): the last   *)
(* holder of an end goes on to pipeclose().                                *)
Close(p, e) ==
  /\ pc[p] = "user" /\ e \in holds[p]
  /\ holds' = [holds EXCEPT ![p] = @ \ {e}]
  /\ IF \E q \in Procs \ {p} : e \in holds[q]
     THEN UNCHANGED <<pc, closing>>
     ELSE Goto(p, "cacq") /\ closing' = [closing EXCEPT ![p] = e]
  /\ UNCHANGED <<allocated, pipe, lock, killed, todo, ch>>

(* Mutant of PipeClose: the page is freed when either end is closed. *)
PipeCloseFreesEarly(p) ==
  LET r == readopen /\ closing[p] # "r"
      w == writeopen /\ closing[p] # "w"
      l == IF ~r \/ ~w THEN "kfree" ELSE "user"
  IN /\ pc[p] = "cacq"
     /\ lock = NoProc
     /\ readopen' = r
     /\ writeopen' = w
     /\ pc' = IF closing[p] = "w" THEN WokenReaders(p, l) ELSE WokenWriters(p, l)
     /\ closing' = [closing EXCEPT ![p] = "none"]
     /\ UNCHANGED <<allocated, nread, nwrite, data, lock, holds, killed, todo, ch>>

(* pipeclose(), from acquire to release. *)
PipeClose(p) ==
  LET r == readopen /\ closing[p] # "r"
      w == writeopen /\ closing[p] # "w"
      l == IF ~r /\ ~w THEN "kfree" ELSE "user"
  IN /\ pc[p] = "cacq"
     /\ lock = NoProc
     /\ readopen' = r
     /\ writeopen' = w
     /\ pc' = IF closing[p] = "w" THEN WokenReaders(p, l) ELSE WokenWriters(p, l)
     /\ closing' = [closing EXCEPT ![p] = "none"]
     /\ UNCHANGED <<allocated, nread, nwrite, data, lock, holds, killed, todo, ch>>

(* kfree(pi), after the lock in the page was released: the page is junk. *)
PipeFree(p) ==
  /\ pc[p] = "kfree"
  /\ allocated' = FALSE
  /\ nread' = 0 /\ nwrite' = 0 /\ readopen' = FALSE /\ writeopen' = FALSE
  /\ \E b \in Byte : data' = Junk(b)
  /\ Goto(p, "user")
  /\ UNCHANGED <<lock, holds, killed, todo, closing, ch>>

-----------------------------------------------------------------------------
Inside(p) ==
  \/ \E b \in Byte : WriteByte(p, b)
  \/ WriteFail(p) \/ WriteFull(p) \/ WriteSleep(p) \/ WriteDone(p)
  \/ ReadReady(p) \/ ReadFail(p) \/ ReadEmpty(p) \/ ReadSleep(p)
  \/ ReadByte(p) \/ (\E ok \in BOOLEAN : ReadCopyout(p, ok)) \/ ReadDone(p)
  \/ PipeFree(p)

Acquires(p) == WriteAcquire(p) \/ ReadAcquire(p) \/ PipeClose(p)

Next ==
  \E p \in Procs :
     \/ PipeAlloc(p) \/ Kill(p) \/ Reborn(p)
     \/ \E q \in Procs : Dup(p, q)
     \/ \E n \in 0..MaxN : WriteCall(p, n) \/ ReadCall(p, n)
     \/ \E e \in Ends : Close(p, e)
     \/ Inside(p) \/ Acquires(p)

Spec == Init /\ [][Next]_vars

(* A process in the kernel goes on, and one that spins on pi->lock gets it *)
(* if it becomes free again and again (the AMO in acquire()).  Nobody is   *)
(* obliged to make a call or to close an end.                              *)
FairSpec ==
  Spec /\ \A p \in Procs : WF_vars(Inside(p)) /\ SF_vars(Acquires(p))

-----------------------------------------------------------------------------
InPipe(p) == pc[p] # "user"

(* The bytes in the ring, oldest first. *)
Contents ==
  IF allocated
  THEN [i \in 1..((nwrite - nread) % UMod) |-> data[(nread + i - 1) % PIPESIZE]]
  ELSE << >>

Channel == INSTANCE ByteChannel
  WITH Capacity <- PIPESIZE, exists <- allocated, queue <- Contents, taken <- ch

(* The ring of pipewrite() and piperead(), with counters that wrap, is a   *)
(* first-in first-out channel of at most PIPESIZE bytes.                   *)
ImplementsByteChannel == Channel!BSpec

(* The invariant of pi->lock: who is where in the code that holds it.      *)
LockOwner == \A p \in Procs : lock = p <=> pc[p] \in Holding

(* A process that is in pipewrite(), piperead() or pipeclose(), or that    *)
(* could call them, has a pipe: kfree() comes after everyone's last use.   *)
NoUseAfterFree == \A p \in Procs : InPipe(p) \/ holds[p] # {} => allocated

(* A sleeper has a reason ("pipe-empty", pipe.c:102): when pi->lock is     *)
(* free, the pipe of a sleeping writer is full and can still be read, and  *)
(* that of a sleeping reader is empty and can still be written.  A write   *)
(* that failed half way, or a copyout2() that did, leaves nobody behind.   *)
SleepersHaveReason ==
  lock = NoProc => \A p \in Procs : /\ pc[p] = "wasleep" => Full /\ readopen
                                    /\ pc[p] = "rasleep" => Empty /\ writeopen

(* A writer whose readers are all gone returns, and so does a reader whose *)
(* writers are all gone: pipeclose() reaches them asleep or awake.         *)
CallsReturn ==
  \A p \in Procs :
    \/ pc[p] \in {"wacq", "wloop", "wfull", "wasleep"} /\ ~readopen
    \/ pc[p] \in {"racq", "rtop", "rempty", "rasleep"} /\ ~writeopen
    ~> pc[p] = "user"

(* kill(): "Wake process from sleep()."  A killed process is not asleep in *)
(* the pipe.                                                               *)
KilledIsAwake == \A p \in Procs : killed[p] => pc[p] \notin {"rasleep", "wasleep"}

Writing == {"wacq", "wloop", "wfull", "wasleep"}
Reading == {"racq", "rtop", "rempty", "rasleep", "rcopy", "rout"}

(* Whoever is in a call has the end it is about (and a byte to deliver one *)
(* it asked for); the last holder of an end is the only one to close it;   *)
(* and kfree() is for the last of all.                                     *)
CallsHold ==
  \A p \in Procs : /\ pc[p] \in Writing => "w" \in holds[p]
                   /\ pc[p] \in Reading => "r" \in holds[p]
                   /\ closing[p] # "none" <=> pc[p] = "cacq"
                   /\ pc[p] = "rout" => todo[p] > 0
                   /\ killed[p] => p \in Killable
LastCloses ==
  \A p, q \in Procs : closing[p] # "none" =>
    closing[p] \notin holds[q] /\ (q # p => closing[q] # closing[p])
LastFrees ==
  \A p, q \in Procs : pc[p] = "kfree" =>
    holds[q] = {} /\ (q # p => pc[q] = "user") /\ ~readopen /\ ~writeopen

(* An end is open while somebody holds it or is on the way to close it.    *)
Held(e) == \E p \in Procs : e \in holds[p] \/ closing[p] = e
OpenFlags == (readopen <=> Held("r")) /\ (writeopen <=> Held("w"))

(* nread and nwrite are at most PIPESIZE apart, however often they wrapped. *)
Count == (nwrite - nread) % UMod
RingBounded == Count <= PIPESIZE

(* Why one sleeps, also while pi->lock is held: the holder who makes the   *)
(* reason go away has a wakeup() before its release().  (A writer found    *)
(* killed does not; hence Killable.)                                       *)
Reasons ==
  \A p \in Procs :
    /\ pc[p] \in {"wfull", "wasleep"} => readopen
    /\ pc[p] \in {"rempty", "rasleep"} => writeopen
    /\ (pc[p] = "wfull" => Full) /\ (pc[p] = "rempty" => Empty)
    /\ pc[p] = "wasleep" => Full \/ \E q \in Procs : pc[q] \in {"rcopy", "rout"}
    /\ pc[p] = "rasleep" /\ Killable = {} =>
         Empty \/ \E q \in Procs : pc[q] \in {"wloop", "wfull"}

(* The inductive invariant. *)
PipeIndInv ==
  /\ TypeOK /\ LockOwner /\ CallsHold /\ LastCloses /\ LastFrees
  /\ OpenFlags /\ NoUseAfterFree /\ RingBounded /\ Reasons
=============================================================================
