---------------------------- MODULE Streams_proof ----------------------------
(*****************************************************************************)
(* The pipe and the console, for every number of processes, every ring size  *)
(* and every counter width the ring size divides: the page of a pipe is      *)
(* freed after its last use, sleepers have a reason and its ring is a first- *)
(* in first-out channel; no reader of the console sleeps while there is      *)
(* input, and its ring with the three indices is a line discipline.          *)
(*****************************************************************************)
EXTENDS Console, Pipe, Modular, SequenceTheorems

(* One more byte written, one more read, and what the tests of the ring    *)
(* say about the number of bytes in it.                                    *)
LEMMA Ring ==
  ASSUME NEW rd \in 0..(UMod - 1), NEW wr \in 0..(UMod - 1)
  PROVE  /\ (rd + 1) % UMod = (IF rd + 1 = UMod THEN 0 ELSE rd + 1)
         /\ (wr - rd) % UMod = (IF wr >= rd THEN wr - rd ELSE wr - rd + UMod)
         /\ (rd + PIPESIZE) % UMod = (IF rd + PIPESIZE < UMod THEN rd + PIPESIZE
                                     ELSE rd + PIPESIZE - UMod)
<1> USE PipeAssumption
<1>1. (rd + 1) % UMod = (IF rd + 1 = UMod THEN 0 ELSE rd + 1)
  <2>1. CASE rd + 1 = UMod
    BY <2>1
  <2>2. CASE rd + 1 < UMod
    BY <2>2
  <2> QED BY <2>1, <2>2
<1>2. (wr - rd) % UMod = (IF wr >= rd THEN wr - rd ELSE wr - rd + UMod)
  <2>1. CASE wr >= rd
    BY <2>1
  <2>2. CASE wr < rd
    <3>1. (-1 * UMod + (wr - rd + UMod)) % UMod = wr - rd + UMod
      BY <2>2, ModIs
    <3> QED BY <2>2, <3>1
  <2> QED BY <2>1, <2>2
<1>3. (rd + PIPESIZE) % UMod = (IF rd + PIPESIZE < UMod THEN rd + PIPESIZE
                              ELSE rd + PIPESIZE - UMod)
  <2>1. CASE rd + PIPESIZE < UMod
    BY <2>1
  <2>2. CASE rd + PIPESIZE >= UMod
    <3>1. (1 * UMod + (rd + PIPESIZE - UMod)) % UMod = rd + PIPESIZE - UMod
      BY <2>2, ModIs
    <3> QED BY <2>2, <3>1
  <2> QED BY <2>1, <2>2
<1> QED BY <1>1, <1>2, <1>3

(* nwrite - nread is what the tests of pipewrite() and piperead() read, and  *)
(* moves by one.                                                             *)
LEMMA Counts ==
  ASSUME TypeOK
  PROVE  /\ Count \in 0..(UMod - 1)
         /\ Empty <=> Count = 0
         /\ Full <=> Count = PIPESIZE
         /\ (((nwrite + 1) % UMod) - nread) % UMod = (IF Count + 1 = UMod THEN 0 ELSE Count + 1)
         /\ (nwrite - ((nread + 1) % UMod)) % UMod = (IF Count = 0 THEN UMod - 1 ELSE Count - 1)
<1> USE PipeAssumption
<1>1. nread \in 0..(UMod - 1) /\ nwrite \in 0..(UMod - 1)
  BY DEF TypeOK
<1>2. Count = (IF nwrite >= nread THEN nwrite - nread ELSE nwrite - nread + UMod)
  BY <1>1, Ring DEF Count
<1>3. /\ (nread + 1) % UMod = (IF nread + 1 = UMod THEN 0 ELSE nread + 1)
      /\ (nwrite + 1) % UMod = (IF nwrite + 1 = UMod THEN 0 ELSE nwrite + 1)
  BY <1>1, Ring
<1>4. Count \in 0..(UMod - 1) /\ (Empty <=> Count = 0)
  BY <1>1, <1>2 DEF Empty
<1>5. Full <=> Count = PIPESIZE
  <2>1. (nread + PIPESIZE) % UMod = (IF nread + PIPESIZE < UMod THEN nread + PIPESIZE
                                    ELSE nread + PIPESIZE - UMod)
    BY <1>1, Ring
  <2> QED BY <1>1, <1>2, <2>1 DEF Full
<1>6. (((nwrite + 1) % UMod) - nread) % UMod = (IF Count + 1 = UMod THEN 0 ELSE Count + 1)
  <2>1. PICK wr \in 0..(UMod - 1) : wr = (nwrite + 1) % UMod
    BY <1>1, <1>3
  <2>2. (wr - nread) % UMod = (IF wr >= nread THEN wr - nread ELSE wr - nread + UMod)
    BY <1>1, Ring
  <2> QED BY <1>1, <1>2, <1>3, <2>1, <2>2
<1>7. (nwrite - ((nread + 1) % UMod)) % UMod = (IF Count = 0 THEN UMod - 1 ELSE Count - 1)
  <2>1. PICK rd \in 0..(UMod - 1) : rd = (nread + 1) % UMod
    BY <1>1, <1>3
  <2>2. (nwrite - rd) % UMod = (IF nwrite >= rd THEN nwrite - rd ELSE nwrite - rd + UMod)
    BY <1>1, Ring
  <2> QED BY <1>1, <1>2, <1>3, <2>1, <2>2
<1> QED BY <1>4, <1>5, <1>6, <1>7


(* pipealloc() preserves the invariant. *)
LEMMA PipeAllocKeeps ==
  ASSUME PipeIndInv, NEW p \in Procs, PipeAlloc(p) PROVE PipeIndInv'
<1> USE PipeAssumption, NamesAssumption DEF PipeIndInv, Goto, Acquire, pipe, WokenReaders, WokenWriters
<1>1. TypeOK'
  BY DEF PipeAlloc, TypeOK, Labels, Ends
<1>2. LockOwner'
  BY DEF PipeAlloc, LockOwner, Holding, TypeOK
<1>3. CallsHold'
  BY DEF PipeAlloc, CallsHold, Writing, Reading, TypeOK, Labels, Ends
<1>4. LastCloses'
  <2>1. \A q \in Procs : pc[q] = "user" /\ closing[q] = "none"
    BY DEF PipeAlloc, NoUseAfterFree, InPipe, CallsHold, TypeOK, Labels
  <2> QED BY <2>1 DEF PipeAlloc, LastCloses
<1>5. LastFrees'
  <2>1. \A q \in Procs : pc[q] = "user"
    BY DEF PipeAlloc, NoUseAfterFree, InPipe
  <2> QED BY <2>1 DEF PipeAlloc, LastFrees
<1>6. OpenFlags'
  <2>1. holds'[p] = Ends
    BY DEF PipeAlloc, TypeOK
  <2> QED BY <2>1 DEF PipeAlloc, OpenFlags, Held, Ends
<1>7. NoUseAfterFree'
  BY DEF PipeAlloc, NoUseAfterFree, InPipe, TypeOK
<1>8. RingBounded'
  BY DEF PipeAlloc, RingBounded, Count
<1>9. Reasons'
  <2>1. \A q \in Procs : pc'[q] = "user"
    BY DEF PipeAlloc, NoUseAfterFree, InPipe
  <2> QED BY <2>1 DEF Reasons
<1> QED BY <1>1, <1>2, <1>3, <1>4, <1>5, <1>6, <1>7, <1>8, <1>9

(* fork()'s duplicates preserves the invariant. *)
LEMMA DupKeeps ==
  ASSUME PipeIndInv, NEW p \in Procs, NEW q \in Procs, Dup(p, q) PROVE PipeIndInv'
<1> USE PipeAssumption, NamesAssumption DEF PipeIndInv, Goto, Acquire, pipe, WokenReaders, WokenWriters
<1>1. TypeOK'
  BY DEF Dup, TypeOK, Labels, Ends
<1>2. LockOwner'
  BY DEF Dup, LockOwner, Holding, TypeOK
<1>3. CallsHold'
  BY DEF Dup, CallsHold, Writing, Reading, TypeOK, Labels, Ends
<1>4. LastCloses'
  BY DEF Dup, LastCloses, TypeOK, CallsHold
<1>5. LastFrees'
  BY DEF Dup, LastFrees, TypeOK, CallsHold, Writing, Reading, Labels, Ends
<1>6. OpenFlags'
  BY DEF Dup, OpenFlags, Held, TypeOK
<1>7. NoUseAfterFree'
  BY DEF Dup, NoUseAfterFree, InPipe, TypeOK
<1>8. RingBounded'
  BY DEF Dup, RingBounded, Count
<1>9. Reasons'
  BY DEF Dup, Reasons, TypeOK, LockOwner, Holding, Full, Empty
<1> QED BY <1>1, <1>2, <1>3, <1>4, <1>5, <1>6, <1>7, <1>8, <1>9

(* kill() preserves the invariant. *)
LEMMA KillKeeps ==
  ASSUME PipeIndInv, NEW p \in Procs, Kill(p) PROVE PipeIndInv'
<1> USE PipeAssumption, NamesAssumption DEF PipeIndInv, Goto, Acquire, pipe, WokenReaders, WokenWriters
<1>1. TypeOK'
  BY DEF Kill, TypeOK, Labels, Ends
<1>2. LockOwner'
  BY DEF Kill, LockOwner, Holding, TypeOK
<1>3. CallsHold'
  BY DEF Kill, CallsHold, Writing, Reading, TypeOK, Labels, Ends
<1>4. LastCloses'
  BY DEF Kill, LastCloses, TypeOK, CallsHold
<1>5. LastFrees'
  BY DEF Kill, LastFrees, TypeOK, CallsHold, Writing, Reading, Labels, Ends
<1>6. OpenFlags'
  BY DEF Kill, OpenFlags, Held, TypeOK
<1>7. NoUseAfterFree'
  BY DEF Kill, NoUseAfterFree, InPipe, TypeOK
<1>8. RingBounded'
  BY DEF Kill, RingBounded, Count
<1>9. Reasons'
  BY DEF Kill, Reasons, TypeOK, LockOwner, Holding, Full, Empty
<1> QED BY <1>1, <1>2, <1>3, <1>4, <1>5, <1>6, <1>7, <1>8, <1>9

(* A new process in the slot preserves the invariant. *)
LEMMA RebornKeeps ==
  ASSUME PipeIndInv, NEW p \in Procs, Reborn(p) PROVE PipeIndInv'
<1> USE PipeAssumption, NamesAssumption DEF PipeIndInv, Goto, Acquire, pipe, WokenReaders, WokenWriters
<1>1. TypeOK'
  BY DEF Reborn, TypeOK, Labels, Ends
<1>2. LockOwner'
  BY DEF Reborn, LockOwner, Holding, TypeOK
<1>3. CallsHold'
  BY DEF Reborn, CallsHold, Writing, Reading, TypeOK, Labels, Ends
<1>4. LastCloses'
  BY DEF Reborn, LastCloses, TypeOK, CallsHold
<1>5. LastFrees'
  BY DEF Reborn, LastFrees, TypeOK, CallsHold, Writing, Reading, Labels, Ends
<1>6. OpenFlags'
  BY DEF Reborn, OpenFlags, Held, TypeOK
<1>7. NoUseAfterFree'
  BY DEF Reborn, NoUseAfterFree, InPipe, TypeOK
<1>8. RingBounded'
  BY DEF Reborn, RingBounded, Count
<1>9. Reasons'
  BY DEF Reborn, Reasons, TypeOK, LockOwner, Holding, Full, Empty
<1> QED BY <1>1, <1>2, <1>3, <1>4, <1>5, <1>6, <1>7, <1>8, <1>9

(* The call of pipewrite() preserves the invariant. *)
LEMMA WriteCallKeeps ==
  ASSUME PipeIndInv, NEW p \in Procs, NEW n \in 0..MaxN, WriteCall(p, n) PROVE PipeIndInv'
<1> USE PipeAssumption, NamesAssumption DEF PipeIndInv, Goto, Acquire, pipe, WokenReaders, WokenWriters
<1>1. TypeOK'
  BY DEF WriteCall, TypeOK, Labels, Ends
<1>2. LockOwner'
  BY DEF WriteCall, LockOwner, Holding, TypeOK
<1>3. CallsHold'
  BY DEF WriteCall, CallsHold, Writing, Reading, TypeOK, Labels, Ends
<1>4. LastCloses'
  BY DEF WriteCall, LastCloses, TypeOK, CallsHold
<1>5. LastFrees'
  BY DEF WriteCall, LastFrees, TypeOK, CallsHold, Writing, Reading, Labels, Ends
<1>6. OpenFlags'
  BY DEF WriteCall, OpenFlags, Held, TypeOK
<1>7. NoUseAfterFree'
  BY DEF WriteCall, NoUseAfterFree, InPipe, TypeOK
<1>8. RingBounded'
  BY DEF WriteCall, RingBounded, Count
<1>9. Reasons'
  BY DEF WriteCall, Reasons, TypeOK, LockOwner, Holding, Full, Empty
<1> QED BY <1>1, <1>2, <1>3, <1>4, <1>5, <1>6, <1>7, <1>8, <1>9

(* The call of piperead() preserves the invariant. *)
LEMMA ReadCallKeeps ==
  ASSUME PipeIndInv, NEW p \in Procs, NEW n \in 0..MaxN, ReadCall(p, n) PROVE PipeIndInv'
<1> USE PipeAssumption, NamesAssumption DEF PipeIndInv, Goto, Acquire, pipe, WokenReaders, WokenWriters
<1>1. TypeOK'
  BY DEF ReadCall, TypeOK, Labels, Ends
<1>2. LockOwner'
  BY DEF ReadCall, LockOwner, Holding, TypeOK
<1>3. CallsHold'
  BY DEF ReadCall, CallsHold, Writing, Reading, TypeOK, Labels, Ends
<1>4. LastCloses'
  BY DEF ReadCall, LastCloses, TypeOK, CallsHold
<1>5. LastFrees'
  BY DEF ReadCall, LastFrees, TypeOK, CallsHold, Writing, Reading, Labels, Ends
<1>6. OpenFlags'
  BY DEF ReadCall, OpenFlags, Held, TypeOK
<1>7. NoUseAfterFree'
  BY DEF ReadCall, NoUseAfterFree, InPipe, TypeOK
<1>8. RingBounded'
  BY DEF ReadCall, RingBounded, Count
<1>9. Reasons'
  BY DEF ReadCall, Reasons, TypeOK, LockOwner, Holding, Full, Empty
<1> QED BY <1>1, <1>2, <1>3, <1>4, <1>5, <1>6, <1>7, <1>8, <1>9

(* fileclose() preserves the invariant. *)
LEMMA CloseKeeps ==
  ASSUME PipeIndInv, NEW p \in Procs, NEW en \in Ends, Close(p, en) PROVE PipeIndInv'
<1> USE PipeAssumption, NamesAssumption DEF PipeIndInv, Goto, Acquire, pipe, WokenReaders, WokenWriters
<1>1. TypeOK'
  BY DEF Close, TypeOK, Labels, Ends
<1>2. LockOwner'
  BY DEF Close, LockOwner, Holding, TypeOK
<1>3. CallsHold'
  BY DEF Close, CallsHold, Writing, Reading, TypeOK, Labels, Ends
<1>4. LastCloses'
  BY DEF Close, LastCloses, TypeOK, CallsHold
<1>5. LastFrees'
  BY DEF Close, LastFrees, TypeOK, CallsHold, Writing, Reading, Labels, Ends
<1>6. OpenFlags'
  <2>1. ASSUME NEW f \in Ends PROVE Held(f)' <=> Held(f)
    <3>1. CASE f = en
      <4>1. Held(en)
        BY DEF Held, Close
      <4>2. CASE \E q \in Procs \ {p} : en \in holds[q]
        BY <3>1, <4>1, <4>2 DEF Held, Close, TypeOK
      <4>3. CASE ~ \E q \in Procs \ {p} : en \in holds[q]
        <5>1. closing'[p] = en
          BY <4>3 DEF Close, TypeOK
        <5> QED BY <3>1, <4>1, <5>1 DEF Held
      <4> QED BY <4>2, <4>3
    <3>2. CASE f # en
      <4>1. closing[p] = "none" /\ closing'[p] \in {"none", en}
        BY DEF Close, TypeOK, CallsHold
      <4>2. f # "none"
        BY DEF Ends
      <4>3. \A q \in Procs : q # p => closing'[q] = closing[q]
        BY DEF Close, TypeOK
      <4>4. \A q \in Procs : f \in holds'[q] <=> f \in holds[q]
        BY <3>2 DEF Close, TypeOK
      <4> QED BY <3>2, <4>1, <4>2, <4>3, <4>4 DEF Held
    <3> QED BY <3>1, <3>2
  <2> QED BY <2>1 DEF OpenFlags, Close, Ends
<1>7. NoUseAfterFree'
  BY DEF Close, NoUseAfterFree, InPipe, TypeOK
<1>8. RingBounded'
  BY DEF Close, RingBounded, Count
<1>9. Reasons'
  BY DEF Close, Reasons, TypeOK, LockOwner, Holding, Full, Empty
<1> QED BY <1>1, <1>2, <1>3, <1>4, <1>5, <1>6, <1>7, <1>8, <1>9

(* acquire() in pipewrite() preserves the invariant. *)
LEMMA WriteAcquireKeeps ==
  ASSUME PipeIndInv, NEW p \in Procs, WriteAcquire(p) PROVE PipeIndInv'
<1> USE PipeAssumption, NamesAssumption DEF PipeIndInv, Goto, Acquire, pipe, WokenReaders, WokenWriters
<1>1. TypeOK'
  BY DEF WriteAcquire, TypeOK, Labels, Ends
<1>2. LockOwner'
  BY DEF WriteAcquire, LockOwner, Holding, TypeOK
<1>3. CallsHold'
  BY DEF WriteAcquire, CallsHold, Writing, Reading, TypeOK, Labels, Ends
<1>4. LastCloses'
  BY DEF WriteAcquire, LastCloses, TypeOK, CallsHold
<1>5. LastFrees'
  BY DEF WriteAcquire, LastFrees, TypeOK, CallsHold, Writing, Reading, Labels, Ends
<1>6. OpenFlags'
  BY DEF WriteAcquire, OpenFlags, Held, TypeOK
<1>7. NoUseAfterFree'
  BY DEF WriteAcquire, NoUseAfterFree, InPipe, TypeOK
<1>8. RingBounded'
  BY DEF WriteAcquire, RingBounded, Count
<1>9. Reasons'
  BY DEF WriteAcquire, Reasons, TypeOK, LockOwner, Holding, Full, Empty
<1> QED BY <1>1, <1>2, <1>3, <1>4, <1>5, <1>6, <1>7, <1>8, <1>9

(* acquire() in piperead() preserves the invariant. *)
LEMMA ReadAcquireKeeps ==
  ASSUME PipeIndInv, NEW p \in Procs, ReadAcquire(p) PROVE PipeIndInv'
<1> USE PipeAssumption, NamesAssumption DEF PipeIndInv, Goto, Acquire, pipe, WokenReaders, WokenWriters
<1>1. TypeOK'
  BY DEF ReadAcquire, TypeOK, Labels, Ends
<1>2. LockOwner'
  BY DEF ReadAcquire, LockOwner, Holding, TypeOK
<1>3. CallsHold'
  BY DEF ReadAcquire, CallsHold, Writing, Reading, TypeOK, Labels, Ends
<1>4. LastCloses'
  BY DEF ReadAcquire, LastCloses, TypeOK, CallsHold
<1>5. LastFrees'
  BY DEF ReadAcquire, LastFrees, TypeOK, CallsHold, Writing, Reading, Labels, Ends
<1>6. OpenFlags'
  BY DEF ReadAcquire, OpenFlags, Held, TypeOK
<1>7. NoUseAfterFree'
  BY DEF ReadAcquire, NoUseAfterFree, InPipe, TypeOK
<1>8. RingBounded'
  BY DEF ReadAcquire, RingBounded, Count
<1>9. Reasons'
  BY DEF ReadAcquire, Reasons, TypeOK, LockOwner, Holding, Full, Empty
<1> QED BY <1>1, <1>2, <1>3, <1>4, <1>5, <1>6, <1>7, <1>8, <1>9

(* A byte into the ring preserves the invariant. *)
LEMMA WriteByteKeeps ==
  ASSUME PipeIndInv, NEW p \in Procs, NEW b \in Byte, WriteByte(p, b) PROVE PipeIndInv'
<1> USE PipeAssumption, NamesAssumption DEF PipeIndInv, Goto, Acquire, pipe, WokenReaders, WokenWriters
<1>1. TypeOK'
  BY DEF WriteByte, TypeOK, Labels, Ends
<1>2. LockOwner'
  BY DEF WriteByte, LockOwner, Holding, TypeOK
<1>3. CallsHold'
  BY DEF WriteByte, CallsHold, Writing, Reading, TypeOK, Labels, Ends
<1>4. LastCloses'
  BY DEF WriteByte, LastCloses, TypeOK, CallsHold
<1>5. LastFrees'
  BY DEF WriteByte, LastFrees, TypeOK, CallsHold, Writing, Reading, Labels, Ends
<1>6. OpenFlags'
  BY DEF WriteByte, OpenFlags, Held, TypeOK
<1>7. NoUseAfterFree'
  BY DEF WriteByte, NoUseAfterFree, InPipe, TypeOK
<1>8. RingBounded'
  <2>1. Count' = (IF Count + 1 = UMod THEN 0 ELSE Count + 1)
    BY Counts DEF WriteByte, Count
  <2> QED BY <2>1, Counts DEF WriteByte, RingBounded
<1>9. Reasons'
  BY DEF WriteByte, Reasons, TypeOK, LockOwner, Holding, Full, Empty
<1> QED BY <1>1, <1>2, <1>3, <1>4, <1>5, <1>6, <1>7, <1>8, <1>9

(* The -1 of pipewrite() preserves the invariant. *)
LEMMA WriteFailKeeps ==
  ASSUME PipeIndInv, NEW p \in Procs, WriteFail(p) PROVE PipeIndInv'
<1> USE PipeAssumption, NamesAssumption DEF PipeIndInv, Goto, Acquire, pipe, WokenReaders, WokenWriters
<1>1. TypeOK'
  BY DEF WriteFail, TypeOK, Labels, Ends
<1>2. LockOwner'
  BY DEF WriteFail, LockOwner, Holding, TypeOK
<1>3. CallsHold'
  BY DEF WriteFail, CallsHold, Writing, Reading, TypeOK, Labels, Ends
<1>4. LastCloses'
  BY DEF WriteFail, LastCloses, TypeOK, CallsHold
<1>5. LastFrees'
  BY DEF WriteFail, LastFrees, TypeOK, CallsHold, Writing, Reading, Labels, Ends
<1>6. OpenFlags'
  BY DEF WriteFail, OpenFlags, Held, TypeOK
<1>7. NoUseAfterFree'
  BY DEF WriteFail, NoUseAfterFree, InPipe, TypeOK
<1>8. RingBounded'
  BY DEF WriteFail, RingBounded, Count
<1>9. Reasons'
  <2>1. lock = p /\ \A q \in Procs : pc[q] \in Holding => q = p
    BY DEF LockOwner, WriteFail, Holding
  <2>2. UNCHANGED <<readopen, writeopen>> /\ (Full' <=> Full) /\ (Empty' <=> Empty)
    BY DEF WriteFail, Full, Empty
  <2>3. ASSUME NEW q \in Procs, pc'[q] = "rasleep" PROVE writeopen /\ Killable # {}
    <3>1. pc[q] = "rasleep" /\ writeopen
      BY <2>3 DEF WriteFail, TypeOK, Reasons
    <3>2. readopen
      BY <3>1 DEF CallsHold, Reading, OpenFlags, Held
    <3> QED BY <3>1, <3>2 DEF WriteFail, CallsHold
  <2>4. ASSUME NEW q \in Procs, pc'[q] = "wasleep" PROVE Full /\ readopen
    BY <2>1, <2>4 DEF WriteFail, TypeOK, Reasons, Holding
  <2>5. \A q \in Procs : pc'[q] \notin {"wfull", "rempty"}
    BY <2>1 DEF WriteFail, TypeOK, Holding
  <2> QED BY <2>2, <2>3, <2>4, <2>5 DEF Reasons
<1> QED BY <1>1, <1>2, <1>3, <1>4, <1>5, <1>6, <1>7, <1>8, <1>9

(* The tests on a full ring preserves the invariant. *)
LEMMA WriteFullKeeps ==
  ASSUME PipeIndInv, NEW p \in Procs, WriteFull(p) PROVE PipeIndInv'
<1> USE PipeAssumption, NamesAssumption DEF PipeIndInv, Goto, Acquire, pipe, WokenReaders, WokenWriters
<1>1. TypeOK'
  BY DEF WriteFull, TypeOK, Labels, Ends
<1>2. LockOwner'
  BY DEF WriteFull, LockOwner, Holding, TypeOK
<1>3. CallsHold'
  BY DEF WriteFull, CallsHold, Writing, Reading, TypeOK, Labels, Ends
<1>4. LastCloses'
  BY DEF WriteFull, LastCloses, TypeOK, CallsHold
<1>5. LastFrees'
  BY DEF WriteFull, LastFrees, TypeOK, CallsHold, Writing, Reading, Labels, Ends
<1>6. OpenFlags'
  BY DEF WriteFull, OpenFlags, Held, TypeOK
<1>7. NoUseAfterFree'
  BY DEF WriteFull, NoUseAfterFree, InPipe, TypeOK
<1>8. RingBounded'
  BY DEF WriteFull, RingBounded, Count
<1>9. Reasons'
  BY DEF WriteFull, Reasons, TypeOK, LockOwner, Holding, Full, Empty
<1> QED BY <1>1, <1>2, <1>3, <1>4, <1>5, <1>6, <1>7, <1>8, <1>9

(* wakeup() and sleep() of a writer preserves the invariant. *)
LEMMA WriteSleepKeeps ==
  ASSUME PipeIndInv, NEW p \in Procs, WriteSleep(p) PROVE PipeIndInv'
<1> USE PipeAssumption, NamesAssumption DEF PipeIndInv, Goto, Acquire, pipe, WokenReaders, WokenWriters
<1>1. TypeOK'
  BY DEF WriteSleep, TypeOK, Labels, Ends
<1>2. LockOwner'
  BY DEF WriteSleep, LockOwner, Holding, TypeOK
<1>3. CallsHold'
  BY DEF WriteSleep, CallsHold, Writing, Reading, TypeOK, Labels, Ends
<1>4. LastCloses'
  BY DEF WriteSleep, LastCloses, TypeOK, CallsHold
<1>5. LastFrees'
  BY DEF WriteSleep, LastFrees, TypeOK, CallsHold, Writing, Reading, Labels, Ends
<1>6. OpenFlags'
  BY DEF WriteSleep, OpenFlags, Held, TypeOK
<1>7. NoUseAfterFree'
  BY DEF WriteSleep, NoUseAfterFree, InPipe, TypeOK
<1>8. RingBounded'
  BY DEF WriteSleep, RingBounded, Count
<1>9. Reasons'
  BY DEF WriteSleep, Reasons, TypeOK, LockOwner, Holding, Full, Empty
<1> QED BY <1>1, <1>2, <1>3, <1>4, <1>5, <1>6, <1>7, <1>8, <1>9

(* The end of pipewrite() preserves the invariant. *)
LEMMA WriteDoneKeeps ==
  ASSUME PipeIndInv, NEW p \in Procs, WriteDone(p) PROVE PipeIndInv'
<1> USE PipeAssumption, NamesAssumption DEF PipeIndInv, Goto, Acquire, pipe, WokenReaders, WokenWriters
<1>1. TypeOK'
  BY DEF WriteDone, TypeOK, Labels, Ends
<1>2. LockOwner'
  BY DEF WriteDone, LockOwner, Holding, TypeOK
<1>3. CallsHold'
  BY DEF WriteDone, CallsHold, Writing, Reading, TypeOK, Labels, Ends
<1>4. LastCloses'
  BY DEF WriteDone, LastCloses, TypeOK, CallsHold
<1>5. LastFrees'
  BY DEF WriteDone, LastFrees, TypeOK, CallsHold, Writing, Reading, Labels, Ends
<1>6. OpenFlags'
  BY DEF WriteDone, OpenFlags, Held, TypeOK
<1>7. NoUseAfterFree'
  BY DEF WriteDone, NoUseAfterFree, InPipe, TypeOK
<1>8. RingBounded'
  BY DEF WriteDone, RingBounded, Count
<1>9. Reasons'
  BY DEF WriteDone, Reasons, TypeOK, LockOwner, Holding, Full, Empty
<1> QED BY <1>1, <1>2, <1>3, <1>4, <1>5, <1>6, <1>7, <1>8, <1>9

(* The end of piperead()'s wait preserves the invariant. *)
LEMMA ReadReadyKeeps ==
  ASSUME PipeIndInv, NEW p \in Procs, ReadReady(p) PROVE PipeIndInv'
<1> USE PipeAssumption, NamesAssumption DEF PipeIndInv, Goto, Acquire, pipe, WokenReaders, WokenWriters
<1>1. TypeOK'
  BY DEF ReadReady, TypeOK, Labels, Ends
<1>2. LockOwner'
  BY DEF ReadReady, LockOwner, Holding, TypeOK
<1>3. CallsHold'
  BY DEF ReadReady, CallsHold, Writing, Reading, TypeOK, Labels, Ends
<1>4. LastCloses'
  BY DEF ReadReady, LastCloses, TypeOK, CallsHold
<1>5. LastFrees'
  BY DEF ReadReady, LastFrees, TypeOK, CallsHold, Writing, Reading, Labels, Ends
<1>6. OpenFlags'
  BY DEF ReadReady, OpenFlags, Held, TypeOK
<1>7. NoUseAfterFree'
  BY DEF ReadReady, NoUseAfterFree, InPipe, TypeOK
<1>8. RingBounded'
  BY DEF ReadReady, RingBounded, Count
<1>9. Reasons'
  BY DEF ReadReady, Reasons, TypeOK, LockOwner, Holding, Full, Empty
<1> QED BY <1>1, <1>2, <1>3, <1>4, <1>5, <1>6, <1>7, <1>8, <1>9

(* The -1 of piperead() preserves the invariant. *)
LEMMA ReadFailKeeps ==
  ASSUME PipeIndInv, NEW p \in Procs, ReadFail(p) PROVE PipeIndInv'
<1> USE PipeAssumption, NamesAssumption DEF PipeIndInv, Goto, Acquire, pipe, WokenReaders, WokenWriters
<1>1. TypeOK'
  BY DEF ReadFail, TypeOK, Labels, Ends
<1>2. LockOwner'
  BY DEF ReadFail, LockOwner, Holding, TypeOK
<1>3. CallsHold'
  BY DEF ReadFail, CallsHold, Writing, Reading, TypeOK, Labels, Ends
<1>4. LastCloses'
  BY DEF ReadFail, LastCloses, TypeOK, CallsHold
<1>5. LastFrees'
  BY DEF ReadFail, LastFrees, TypeOK, CallsHold, Writing, Reading, Labels, Ends
<1>6. OpenFlags'
  BY DEF ReadFail, OpenFlags, Held, TypeOK
<1>7. NoUseAfterFree'
  BY DEF ReadFail, NoUseAfterFree, InPipe, TypeOK
<1>8. RingBounded'
  BY DEF ReadFail, RingBounded, Count
<1>9. Reasons'
  BY DEF ReadFail, Reasons, TypeOK, LockOwner, Holding, Full, Empty
<1> QED BY <1>1, <1>2, <1>3, <1>4, <1>5, <1>6, <1>7, <1>8, <1>9

(* The tests on an empty ring preserves the invariant. *)
LEMMA ReadEmptyKeeps ==
  ASSUME PipeIndInv, NEW p \in Procs, ReadEmpty(p) PROVE PipeIndInv'
<1> USE PipeAssumption, NamesAssumption DEF PipeIndInv, Goto, Acquire, pipe, WokenReaders, WokenWriters
<1>1. TypeOK'
  BY DEF ReadEmpty, TypeOK, Labels, Ends
<1>2. LockOwner'
  BY DEF ReadEmpty, LockOwner, Holding, TypeOK
<1>3. CallsHold'
  BY DEF ReadEmpty, CallsHold, Writing, Reading, TypeOK, Labels, Ends
<1>4. LastCloses'
  BY DEF ReadEmpty, LastCloses, TypeOK, CallsHold
<1>5. LastFrees'
  BY DEF ReadEmpty, LastFrees, TypeOK, CallsHold, Writing, Reading, Labels, Ends
<1>6. OpenFlags'
  BY DEF ReadEmpty, OpenFlags, Held, TypeOK
<1>7. NoUseAfterFree'
  BY DEF ReadEmpty, NoUseAfterFree, InPipe, TypeOK
<1>8. RingBounded'
  BY DEF ReadEmpty, RingBounded, Count
<1>9. Reasons'
  BY DEF ReadEmpty, Reasons, TypeOK, LockOwner, Holding, Full, Empty
<1> QED BY <1>1, <1>2, <1>3, <1>4, <1>5, <1>6, <1>7, <1>8, <1>9

(* sleep() of a reader preserves the invariant. *)
LEMMA ReadSleepKeeps ==
  ASSUME PipeIndInv, NEW p \in Procs, ReadSleep(p) PROVE PipeIndInv'
<1> USE PipeAssumption, NamesAssumption DEF PipeIndInv, Goto, Acquire, pipe, WokenReaders, WokenWriters
<1>1. TypeOK'
  BY DEF ReadSleep, TypeOK, Labels, Ends
<1>2. LockOwner'
  BY DEF ReadSleep, LockOwner, Holding, TypeOK
<1>3. CallsHold'
  BY DEF ReadSleep, CallsHold, Writing, Reading, TypeOK, Labels, Ends
<1>4. LastCloses'
  BY DEF ReadSleep, LastCloses, TypeOK, CallsHold
<1>5. LastFrees'
  BY DEF ReadSleep, LastFrees, TypeOK, CallsHold, Writing, Reading, Labels, Ends
<1>6. OpenFlags'
  BY DEF ReadSleep, OpenFlags, Held, TypeOK
<1>7. NoUseAfterFree'
  BY DEF ReadSleep, NoUseAfterFree, InPipe, TypeOK
<1>8. RingBounded'
  BY DEF ReadSleep, RingBounded, Count
<1>9. Reasons'
  BY DEF ReadSleep, Reasons, TypeOK, LockOwner, Holding, Full, Empty
<1> QED BY <1>1, <1>2, <1>3, <1>4, <1>5, <1>6, <1>7, <1>8, <1>9

(* A byte out of the ring preserves the invariant. *)
LEMMA ReadByteKeeps ==
  ASSUME PipeIndInv, NEW p \in Procs, ReadByte(p) PROVE PipeIndInv'
<1> USE PipeAssumption, NamesAssumption DEF PipeIndInv, Goto, Acquire, pipe, WokenReaders, WokenWriters
<1>1. TypeOK'
  BY DEF ReadByte, TypeOK, Labels, Ends
<1>2. LockOwner'
  BY DEF ReadByte, LockOwner, Holding, TypeOK
<1>3. CallsHold'
  BY DEF ReadByte, CallsHold, Writing, Reading, TypeOK, Labels, Ends
<1>4. LastCloses'
  BY DEF ReadByte, LastCloses, TypeOK, CallsHold
<1>5. LastFrees'
  BY DEF ReadByte, LastFrees, TypeOK, CallsHold, Writing, Reading, Labels, Ends
<1>6. OpenFlags'
  BY DEF ReadByte, OpenFlags, Held, TypeOK
<1>7. NoUseAfterFree'
  BY DEF ReadByte, NoUseAfterFree, InPipe, TypeOK
<1>8. RingBounded'
  <2>1. Count' = (IF Count = 0 THEN UMod - 1 ELSE Count - 1)
    BY Counts DEF ReadByte, Count
  <2> QED BY <2>1, Counts DEF ReadByte, RingBounded
<1>9. Reasons'
  BY DEF ReadByte, Reasons, TypeOK, LockOwner, Holding, Full, Empty
<1> QED BY <1>1, <1>2, <1>3, <1>4, <1>5, <1>6, <1>7, <1>8, <1>9

(* copyout2() preserves the invariant. *)
LEMMA ReadCopyoutKeeps ==
  ASSUME PipeIndInv, NEW p \in Procs, NEW ok \in BOOLEAN, ReadCopyout(p, ok) PROVE PipeIndInv'
<1> USE PipeAssumption, NamesAssumption DEF PipeIndInv, Goto, Acquire, pipe, WokenReaders, WokenWriters
<1>1. TypeOK'
  BY DEF ReadCopyout, TypeOK, CallsHold, Labels
<1>2. LockOwner'
  BY DEF ReadCopyout, LockOwner, Holding, TypeOK
<1>3. CallsHold'
  BY DEF ReadCopyout, CallsHold, Writing, Reading, TypeOK, Labels, Ends
<1>4. LastCloses'
  BY DEF ReadCopyout, LastCloses, TypeOK, CallsHold
<1>5. LastFrees'
  BY DEF ReadCopyout, LastFrees, TypeOK, CallsHold, Writing, Reading, Labels, Ends
<1>6. OpenFlags'
  BY DEF ReadCopyout, OpenFlags, Held, TypeOK
<1>7. NoUseAfterFree'
  BY DEF ReadCopyout, NoUseAfterFree, InPipe, TypeOK
<1>8. RingBounded'
  BY DEF ReadCopyout, RingBounded, Count
<1>9. Reasons'
  BY DEF ReadCopyout, Reasons, TypeOK, LockOwner, Holding, Full, Empty
<1> QED BY <1>1, <1>2, <1>3, <1>4, <1>5, <1>6, <1>7, <1>8, <1>9

(* The end of piperead() preserves the invariant. *)
LEMMA ReadDoneKeeps ==
  ASSUME PipeIndInv, NEW p \in Procs, ReadDone(p) PROVE PipeIndInv'
<1> USE PipeAssumption, NamesAssumption DEF PipeIndInv, Goto, Acquire, pipe, WokenReaders, WokenWriters
<1>1. TypeOK'
  BY DEF ReadDone, TypeOK, Labels, Ends
<1>2. LockOwner'
  BY DEF ReadDone, LockOwner, Holding, TypeOK
<1>3. CallsHold'
  BY DEF ReadDone, CallsHold, Writing, Reading, TypeOK, Labels, Ends
<1>4. LastCloses'
  BY DEF ReadDone, LastCloses, TypeOK, CallsHold
<1>5. LastFrees'
  BY DEF ReadDone, LastFrees, TypeOK, CallsHold, Writing, Reading, Labels, Ends
<1>6. OpenFlags'
  BY DEF ReadDone, OpenFlags, Held, TypeOK
<1>7. NoUseAfterFree'
  BY DEF ReadDone, NoUseAfterFree, InPipe, TypeOK
<1>8. RingBounded'
  BY DEF ReadDone, RingBounded, Count
<1>9. Reasons'
  BY DEF ReadDone, Reasons, TypeOK, LockOwner, Holding, Full, Empty
<1> QED BY <1>1, <1>2, <1>3, <1>4, <1>5, <1>6, <1>7, <1>8, <1>9

(* pipeclose() preserves the invariant. *)
LEMMA PipeCloseKeeps ==
  ASSUME PipeIndInv, NEW p \in Procs, PipeClose(p) PROVE PipeIndInv'
<1> USE PipeAssumption, NamesAssumption DEF PipeIndInv, Goto, Acquire, pipe, WokenReaders, WokenWriters
<1>1. TypeOK'
  BY DEF PipeClose, TypeOK, Labels, Ends
<1>2. LockOwner'
  BY DEF PipeClose, LockOwner, Holding, TypeOK
<1>3. CallsHold'
  BY DEF PipeClose, CallsHold, Writing, Reading, TypeOK, Labels, Ends
<1>4. LastCloses'
  BY DEF PipeClose, LastCloses, TypeOK, CallsHold
<1>5. LastFrees'
  <2>1. \A q \in Procs : pc[q] # "kfree"
    BY DEF PipeClose, LastFrees
  <2>2. ASSUME NEW q \in Procs, pc'[q] = "kfree"
        PROVE  q = p /\ ~readopen' /\ ~writeopen'
    BY <2>1, <2>2 DEF PipeClose, TypeOK
  <2>3. ASSUME ~readopen', ~writeopen', NEW q \in Procs
        PROVE  holds[q] = {} /\ (q # p => pc[q] = "user")
    <3>1. "r" \notin holds[q]
      BY <2>3 DEF PipeClose, OpenFlags, Held, LastCloses, CallsHold
    <3>2. "w" \notin holds[q]
      BY <2>3 DEF PipeClose, OpenFlags, Held, LastCloses, CallsHold
    <3>3. q # p => pc[q] # "cacq"
      <4>1. closing[p] \in Ends
        BY DEF PipeClose, CallsHold, TypeOK
      <4>2. ASSUME q # p, closing[q] \in Ends PROVE FALSE
        <5>1. closing[q] # closing[p]
          BY <4>1, <4>2 DEF LastCloses, Ends
        <5> QED BY <2>3, <4>1, <4>2, <5>1 DEF PipeClose, OpenFlags, Held, Ends
      <4> QED BY <4>2 DEF CallsHold, TypeOK
    <3>4. holds[q] = {}
      BY <3>1, <3>2 DEF TypeOK, Ends
    <3>5. pc[q] \notin Writing /\ pc[q] \notin Reading
      BY <3>1, <3>2 DEF CallsHold
    <3> QED BY <2>1, <3>3, <3>4, <3>5 DEF TypeOK, Labels, Writing, Reading
  <2>4. ASSUME NEW q \in Procs, q # p, pc[q] = "user" PROVE pc'[q] = "user"
    BY <2>4 DEF PipeClose, TypeOK
  <2>5. UNCHANGED holds
    BY DEF PipeClose
  <2> QED BY <2>2, <2>3, <2>4, <2>5 DEF LastFrees
<1>6. OpenFlags'
  <2> DEFINE en == closing[p]
  <2>1. en \in Ends /\ "none" \notin Ends
    BY DEF PipeClose, CallsHold, TypeOK, Ends
  <2>2. closing' = [closing EXCEPT ![p] = "none"] /\ UNCHANGED holds
    BY DEF PipeClose
  <2>3. ASSUME NEW f \in Ends PROVE Held(f)' <=> Held(f) /\ f # en
    <3>1. CASE f = en
      BY <2>1, <2>2, <3>1 DEF Held, LastCloses, TypeOK
    <3>2. CASE f # en
      BY <2>1, <2>2, <3>2 DEF Held, TypeOK
    <3> QED BY <3>1, <3>2
  <2> QED BY <2>3 DEF OpenFlags, PipeClose, Ends
<1>7. NoUseAfterFree'
  BY DEF PipeClose, NoUseAfterFree, InPipe, TypeOK
<1>8. RingBounded'
  BY DEF PipeClose, RingBounded, Count
<1>9. Reasons'
  BY DEF PipeClose, Reasons, TypeOK, LockOwner, Holding, Full, Empty
<1> QED BY <1>1, <1>2, <1>3, <1>4, <1>5, <1>6, <1>7, <1>8, <1>9

(* kfree() preserves the invariant. *)
LEMMA PipeFreeKeeps ==
  ASSUME PipeIndInv, NEW p \in Procs, PipeFree(p) PROVE PipeIndInv'
<1> USE PipeAssumption, NamesAssumption DEF PipeIndInv, Goto, Acquire, pipe, WokenReaders, WokenWriters
<1>1. TypeOK'
  <2>1. data' \in [0..(PIPESIZE - 1) -> Byte]
    BY DEF PipeFree, Junk
  <2>2. nread' \in 0..(UMod - 1) /\ nwrite' \in 0..(UMod - 1)
    BY DEF PipeFree
  <2>3. pc' \in [Procs -> Labels]
    BY DEF PipeFree, TypeOK, Labels
  <2>4. UNCHANGED <<lock, holds, killed, todo, closing, ch>>
    BY DEF PipeFree
  <2>5. allocated' = FALSE /\ readopen' = FALSE /\ writeopen' = FALSE
    BY DEF PipeFree
  <2> QED BY <2>1, <2>2, <2>3, <2>4, <2>5 DEF TypeOK
<1>2. LockOwner'
  BY DEF PipeFree, LockOwner, Holding, TypeOK
<1>3. CallsHold'
  BY DEF PipeFree, CallsHold, Writing, Reading, TypeOK, Labels, Ends
<1>4. LastCloses'
  BY DEF PipeFree, LastCloses, TypeOK, CallsHold
<1>5. LastFrees'
  BY DEF PipeFree, LastFrees, TypeOK, CallsHold, Writing, Reading, Labels, Ends
<1>6. OpenFlags'
  <2>1. \A q \in Procs : holds'[q] = {} /\ closing'[q] = "none"
    BY DEF PipeFree, LastFrees, CallsHold
  <2> QED BY <2>1 DEF OpenFlags, Held, PipeFree
<1>7. NoUseAfterFree'
  BY DEF PipeFree, NoUseAfterFree, LastFrees, InPipe, TypeOK
<1>8. RingBounded'
  BY DEF PipeFree, RingBounded, Count
<1>9. Reasons'
  <2>1. \A q \in Procs : pc'[q] = "user"
    BY DEF PipeFree, LastFrees, TypeOK
  <2> QED BY <2>1 DEF Reasons
<1> QED BY <1>1, <1>2, <1>3, <1>4, <1>5, <1>6, <1>7, <1>8, <1>9

(* A fresh page and no process in the kernel. *)
LEMMA InitInv == Init => PipeIndInv
<1> SUFFICES ASSUME Init PROVE PipeIndInv
  OBVIOUS
<1> USE PipeAssumption, NamesAssumption DEF Init
<1>1. TypeOK
  <2>1. data \in [0..(PIPESIZE - 1) -> Byte]
    BY DEF Junk
  <2>2. nread \in 0..(UMod - 1) /\ nwrite \in 0..(UMod - 1) /\ todo \in [Procs -> 0..MaxN]
    OBVIOUS
  <2>3. /\ holds \in [Procs -> SUBSET Ends] /\ killed \in [Procs -> BOOLEAN]
        /\ pc \in [Procs -> Labels] /\ closing \in [Procs -> Ends \cup {"none"}]
    BY DEF Labels
  <2> QED BY <2>1, <2>2, <2>3 DEF TypeOK
<1>2. LockOwner
  BY DEF LockOwner, Holding
<1>3. CallsHold /\ LastCloses /\ LastFrees
  BY DEF CallsHold, Writing, Reading, LastCloses, LastFrees
<1>4. OpenFlags
  BY DEF OpenFlags, Held
<1>5. NoUseAfterFree
  BY DEF NoUseAfterFree, InPipe
<1>6. RingBounded
  BY <1>1, Counts DEF RingBounded, Empty
<1>7. Reasons
  BY DEF Reasons
<1> QED BY <1>1, <1>2, <1>3, <1>4, <1>5, <1>6, <1>7 DEF PipeIndInv

(* Every step of the pipe keeps the invariant. *)
LEMMA StepInv == PipeIndInv /\ [Next]_vars => PipeIndInv'
<1> SUFFICES ASSUME PipeIndInv, [Next]_vars PROVE PipeIndInv'
  OBVIOUS
<1>1. CASE Next
  <2>1. PICK p \in Procs :
          \/ PipeAlloc(p) \/ Kill(p) \/ Reborn(p)
          \/ \E q \in Procs : Dup(p, q)
          \/ \E n \in 0..MaxN : WriteCall(p, n) \/ ReadCall(p, n)
          \/ \E en \in Ends : Close(p, en)
          \/ Inside(p) \/ Acquires(p)
    BY <1>1 DEF Next
  <2>2. CASE PipeAlloc(p) \/ Kill(p) \/ Reborn(p) \/ \E q \in Procs : Dup(p, q)
    BY <2>2, PipeAllocKeeps, KillKeeps, RebornKeeps, DupKeeps
  <2>3. CASE \E n \in 0..MaxN : WriteCall(p, n) \/ ReadCall(p, n)
    BY <2>3, WriteCallKeeps, ReadCallKeeps
  <2>4. CASE \E en \in Ends : Close(p, en)
    BY <2>4, CloseKeeps
  <2>5. CASE Acquires(p)
    BY <2>5, WriteAcquireKeeps, ReadAcquireKeeps, PipeCloseKeeps DEF Acquires
  <2>6. CASE Inside(p)
    <3>1. CASE \E b \in Byte : WriteByte(p, b)
      BY <3>1, WriteByteKeeps
    <3>2. CASE WriteFail(p) \/ WriteFull(p) \/ WriteSleep(p) \/ WriteDone(p)
      BY <3>2, WriteFailKeeps, WriteFullKeeps, WriteSleepKeeps, WriteDoneKeeps
    <3>3. CASE ReadReady(p) \/ ReadFail(p) \/ ReadEmpty(p) \/ ReadSleep(p)
      BY <3>3, ReadReadyKeeps, ReadFailKeeps, ReadEmptyKeeps, ReadSleepKeeps
    <3>4. CASE ReadByte(p) \/ (\E ok \in BOOLEAN : ReadCopyout(p, ok)) \/ ReadDone(p)
      BY <3>4, ReadByteKeeps, ReadCopyoutKeeps, ReadDoneKeeps
    <3>5. CASE PipeFree(p)
      BY <3>5, PipeFreeKeeps
    <3> QED BY <2>6, <3>1, <3>2, <3>3, <3>4, <3>5 DEF Inside
  <2> QED BY <2>1, <2>2, <2>3, <2>4, <2>5, <2>6
<1>2. CASE UNCHANGED vars
  BY <1>2 DEF vars, PipeIndInv, TypeOK, LockOwner, CallsHold, LastCloses, LastFrees, OpenFlags,
              Held, NoUseAfterFree, InPipe, RingBounded, Count, Reasons, Full, Empty
<1> QED BY <1>1, <1>2

(* The inductive invariant of pipe.c holds. *)
THEOREM PipeInvariance == Spec => []PipeIndInv
BY InitInv, StepInv, PTL DEF Spec

(* pipeclose() frees the page after the last use of every holder, in every *)
(* order in which readers, writers, forks, kills and closes can come.      *)
THEOREM FreedLast == Spec => []NoUseAfterFree
<1>1. PipeIndInv => NoUseAfterFree
  BY DEF PipeIndInv
<1> QED BY <1>1, PipeInvariance, PTL

(* pi->lock has at most one holder, the one the code believes it has.      *)
THEOREM Exclusion == Spec => []LockOwner
<1>1. PipeIndInv => LockOwner
  BY DEF PipeIndInv
<1> QED BY <1>1, PipeInvariance, PTL

(* Whatever is killed: a writer asleep while pi->lock is free has a full   *)
(* ring and a reader that could empty it, and a reader asleep has a writer.*)
WritersHaveReason ==
  lock = NoProc => \A p \in Procs : /\ pc[p] = "wasleep" => Full /\ readopen
                                    /\ pc[p] = "rasleep" => writeopen

(* While pi->lock is free nobody is between acquire() and release(). *)
LEMMA FreeLock == PipeIndInv /\ lock = NoProc => \A p \in Procs : pc[p] \notin Holding
BY NamesAssumption DEF PipeIndInv, LockOwner

(* pipewrite() and piperead() sleep only with a reason, whoever is killed. *)
THEOREM WriterSleeps == Spec => []WritersHaveReason
<1>1. PipeIndInv => WritersHaveReason
  BY FreeLock DEF PipeIndInv, Reasons, WritersHaveReason, Holding
<1> QED BY <1>1, PipeInvariance, PTL

(* While nobody is killed the reader's half holds too: no wakeup is lost   *)
(* between piperead() and pipewrite(), partial transfers included.  (With  *)
(* kill() it does not: a writer found killed returns without a wakeup.)    *)
THEOREM NobodyForgotten ==
  ASSUME Killable = {}
  PROVE  Spec => []SleepersHaveReason
<1>1. PipeIndInv => SleepersHaveReason
  BY FreeLock DEF PipeIndInv, Reasons, SleepersHaveReason, Holding
<1> QED BY <1>1, PipeInvariance, PTL

-----------------------------------------------------------------------------
(* The refinement of ByteChannel.  Slot i of the queue is nread + i - 1    *)
(* modulo PIPESIZE, although nread wraps at UMod, which PIPESIZE divides.  *)
Slot(rd, i) == (rd + i - 1) % PIPESIZE

(* The ring's size divides the width of the counters. *)
LEMMA Multiple == \E k \in Int : UMod = k * PIPESIZE
<1>1. PIPESIZE \in Nat \ {0} /\ UMod \in Int /\ UMod % PIPESIZE = 0
  BY PipeAssumption
<1>2. \E k \in Int : UMod = k * PIPESIZE + (UMod % PIPESIZE)
  BY <1>1, ModDef, Zenon
<1>3. PICK k \in Int : UMod = k * PIPESIZE + (UMod % PIPESIZE)
  BY <1>2
<1>4. UMod = k * PIPESIZE
  BY <1>1, <1>3
<1> QED BY <1>4

(* A slot is a place of the ring, and when nread moves on the slots move up. *)
LEMMA SlotFacts ==
  ASSUME NEW rd \in 0..(UMod - 1), NEW i \in Nat
  PROVE  /\ Slot(rd, i) \in 0..(PIPESIZE - 1)
         /\ Slot((rd + 1) % UMod, i) = Slot(rd, i + 1)
         /\ Slot(rd, 1) = rd % PIPESIZE
<1> USE PipeAssumption
<1>1. Slot(rd, i) \in 0..(PIPESIZE - 1)
  <2>1. rd + i - 1 \in Int
    OBVIOUS
  <2> QED BY <2>1, ModDef DEF Slot
<1>2. Slot((rd + 1) % UMod, i) = Slot(rd, i + 1)
  <2>1. CASE rd + 1 < UMod
    <3>1. (rd + 1) % UMod = rd + 1
      BY <2>1, Ring
    <3>2. (rd + 1) + i - 1 = rd + (i + 1) - 1
      OBVIOUS
    <3> QED BY <3>1, <3>2 DEF Slot
  <2>2. CASE rd + 1 = UMod
    <3>1. (rd + 1) % UMod = 0
      BY <2>2, Ring
    <3>3. PICK k \in Int : UMod = k * PIPESIZE
      BY Multiple
    <3>4. PICK a \in Int : a = 0 + i - 1
      OBVIOUS
    <3>5. (a + k * PIPESIZE) % PIPESIZE = a % PIPESIZE
      BY ModShift
    <3>6. a + k * PIPESIZE = rd + (i + 1) - 1
      BY <2>2, <3>3, <3>4
    <3> QED BY <3>1, <3>4, <3>5, <3>6 DEF Slot
  <2> QED BY <2>1, <2>2
<1>3. Slot(rd, 1) = rd % PIPESIZE
  <2>1. rd + 1 - 1 = rd
    OBVIOUS
  <2> QED BY <2>1 DEF Slot
<1> QED BY <1>1, <1>2, <1>3

(* pipewrite() stores the new byte in the slot after the last one in use.  *)
LEMMA NextSlot ==
  ASSUME TypeOK
  PROVE  nwrite % PIPESIZE = Slot(nread, Count + 1)
<1> USE PipeAssumption
<1>1. nread \in 0..(UMod - 1) /\ nwrite \in 0..(UMod - 1)
  BY DEF TypeOK
<1>2. Count = (IF nwrite >= nread THEN nwrite - nread ELSE nwrite - nread + UMod)
  BY <1>1, Ring DEF Count
<1>3. CASE nwrite >= nread
  <2>1. nread + (Count + 1) - 1 = nwrite
    BY <1>1, <1>2, <1>3
  <2> QED BY <2>1 DEF Slot
<1>4. CASE nwrite < nread
  <2>1. nread + (Count + 1) - 1 = nwrite + UMod
    BY <1>1, <1>2, <1>4
  <2>3. PICK k \in Int : UMod = k * PIPESIZE
    BY Multiple
  <2>4. (nwrite + k * PIPESIZE) % PIPESIZE = nwrite % PIPESIZE
    <3>1. PIPESIZE \in Nat \ {0} /\ nwrite \in Int
      BY <1>1
    <3> QED BY <3>1, ModShift, Zenon
  <2> QED BY <2>1, <2>3, <2>4 DEF Slot
<1> QED BY <1>1, <1>3, <1>4

(* Slots less than PIPESIZE apart are different. *)
LEMMA SlotsApart ==
  ASSUME NEW rd \in 0..(UMod - 1), NEW n \in 0..(PIPESIZE - 1), NEW i \in 1..n
  PROVE  Slot(rd, i) # Slot(rd, n + 1)
<1> USE PipeAssumption
<1>1. PICK d \in 1..(PIPESIZE - 1) : d = n + 1 - i
  OBVIOUS
<1>2. PICK a \in Int : a = rd + i - 1
  OBVIOUS
<1>3. (a + d) % PIPESIZE # a % PIPESIZE
  BY ModApart
<1>4. a + d = rd + (n + 1) - 1
  BY <1>1, <1>2
<1> QED BY <1>2, <1>3, <1>4 DEF Slot

(* The queue a pipe stands for. *)
LEMMA QueueOf ==
  PipeIndInv =>
    /\ Contents \in Seq(Byte)
    /\ allocated => /\ Len(Contents) = Count
                    /\ \A i \in 1..Count : Contents[i] = data[Slot(nread, i)]
    /\ ~allocated => Contents = << >>
<1> SUFFICES ASSUME PipeIndInv
             PROVE  /\ Contents \in Seq(Byte)
                    /\ allocated => /\ Len(Contents) = Count
                                    /\ \A i \in 1..Count : Contents[i] = data[Slot(nread, i)]
                    /\ ~allocated => Contents = << >>
  OBVIOUS
<1>1. Count \in Nat /\ TypeOK
  BY PipeAssumption, Counts DEF PipeIndInv
<1>2. CASE allocated
  <2> DEFINE n == Count
             f == [i \in 1..n |-> data[Slot(nread, i)]]
  <2>1. Contents = f
    BY <1>2 DEF Contents, Slot, Count
  <2>2. ASSUME NEW i \in 1..n PROVE data[Slot(nread, i)] \in Byte
    <3>1. nread \in 0..(UMod - 1) /\ i \in Nat /\ data \in [0..(PIPESIZE - 1) -> Byte]
      BY <1>1 DEF TypeOK
    <3>2. Slot(nread, i) \in 0..(PIPESIZE - 1)
      BY <3>1, SlotFacts
    <3> QED BY <3>1, <3>2
  <2> HIDE DEF n
  <2>3. n \in Nat
    BY <1>1 DEF n
  <2>4. f \in Seq(Byte) /\ Len(f) = n
    <3>1. f \in [1..n -> Byte]
      BY <2>2
    <3>2. f \in Seq(Byte)
      BY <2>3, <3>1, SeqDef
    <3>3. DOMAIN f = 1..n
      OBVIOUS
    <3> HIDE DEF f
    <3>4. DOMAIN f = 1..Len(f) /\ Len(f) \in Nat
      BY <3>2, LenProperties
    <3> QED BY <2>3, <3>2, <3>3, <3>4
  <2> QED BY <1>2, <2>1, <2>4 DEF n
<1>3. CASE ~allocated
  BY <1>3, EmptySeq DEF Contents
<1> QED BY <1>2, <1>3

(* The same after a step. *)
LEMMA QueueAfter ==
  ASSUME PipeIndInv'
  PROVE  /\ Contents' \in Seq(Byte)
         /\ allocated' => /\ Len(Contents') = Count'
                          /\ \A i \in 1..Count' : Contents'[i] = data'[Slot(nread', i)]
         /\ ~allocated' => Contents' = << >>
<1>1. PipeIndInv' =>
        (/\ Contents \in Seq(Byte)
         /\ allocated => /\ Len(Contents) = Count
                         /\ \A i \in 1..Count : Contents[i] = data[Slot(nread, i)]
         /\ ~allocated => Contents = << >>)'
  BY QueueOf, PTL
<1>2. \A i \in 1..Count' : Slot(nread, i)' = Slot(nread', i)
  BY DEF Slot
<1> QED BY <1>1, <1>2

(* A byte into the ring is a put. *)
LEMMA WriteBytePuts ==
  ASSUME PipeIndInv, PipeIndInv', NEW p \in Procs, NEW b \in Byte, WriteByte(p, b)
  PROVE  Channel!Put(b)
<1> USE PipeAssumption
<1>1. TypeOK /\ nread \in 0..(UMod - 1) /\ data \in [0..(PIPESIZE - 1) -> Byte]
  BY DEF PipeIndInv, TypeOK
<1>2. allocated /\ allocated' /\ ch' = ch /\ nread' = nread
  BY DEF PipeIndInv, NoUseAfterFree, InPipe, WriteByte
<1>3. Count \in 0..(PIPESIZE - 1)
  BY <1>1, Counts DEF PipeIndInv, RingBounded, WriteByte
<1>4. Count' = Count + 1
  <2>1. Count' = (IF Count + 1 = UMod THEN 0 ELSE Count + 1)
    BY <1>1, Counts DEF WriteByte, Count
  <2> QED BY <1>3, <2>1
<1>5. data' = [data EXCEPT ![Slot(nread, Count + 1)] = b]
  BY <1>1, NextSlot DEF WriteByte
<1>6. /\ Contents \in Seq(Byte) /\ Len(Contents) = Count
      /\ \A i \in 1..Count : Contents[i] = data[Slot(nread, i)]
  BY <1>2, QueueOf
<1>7. /\ Contents' \in Seq(Byte) /\ Len(Contents') = Count + 1
      /\ \A i \in 1..(Count + 1) : Contents'[i] = data'[Slot(nread, i)]
  BY <1>2, <1>4, QueueAfter
<1>8. ASSUME NEW i \in 1..Count PROVE Contents'[i] = Contents[i]
  <2>1. Slot(nread, i) # Slot(nread, Count + 1)
    BY <1>1, <1>3, SlotsApart
  <2>2. Slot(nread, i) \in 0..(PIPESIZE - 1)
    <3>1. i \in Nat
      BY <1>3
    <3> QED BY <1>1, <3>1, SlotFacts, Zenon
  <2>3. data'[Slot(nread, i)] = data[Slot(nread, i)]
    BY <1>1, <1>5, <2>1, <2>2
  <2> QED BY <1>3, <1>6, <1>7, <2>3
<1>9. Contents'[Count + 1] = b
  <2>1. Slot(nread, Count + 1) \in 0..(PIPESIZE - 1)
    <3>1. Count + 1 \in Nat
      BY <1>3
    <3> QED BY <1>1, <3>1, SlotFacts, Zenon
  <2>2. data'[Slot(nread, Count + 1)] = b
    BY <1>1, <1>5, <2>1
  <2> QED BY <1>3, <1>7, <2>2
<1>10. Contents' = Append(Contents, b)
  <2> DEFINE t == Append(Contents, b)
  <2>1. /\ t \in Seq(Byte) /\ Len(t) = Len(Contents) + 1
        /\ \A i \in 1..Len(Contents) : t[i] = Contents[i]
        /\ t[Len(Contents) + 1] = b
    BY <1>6, AppendProperties
  <2> HIDE DEF t
  <2>2. Len(t) = Len(Contents')
    BY <1>6, <1>7, <2>1
  <2>3. ASSUME NEW i \in 1..Len(Contents') PROVE Contents'[i] = t[i]
    <3>1. CASE i \in 1..Count
      BY <1>6, <1>8, <2>1, <3>1
    <3>2. CASE i = Count + 1
      BY <1>6, <1>9, <2>1, <3>2
    <3> QED BY <1>3, <1>7, <3>1, <3>2
  <2>4. Contents' = t
    BY <1>7, <2>1, <2>2, <2>3, SeqEqual
  <2> QED BY <2>4 DEF t
<1> QED BY <1>2, <1>3, <1>6, <1>10 DEF Channel!Put

(* A byte out of the ring is a take. *)
LEMMA ReadByteTakes ==
  ASSUME PipeIndInv, PipeIndInv', NEW p \in Procs, ReadByte(p)
  PROVE  Channel!Take
<1> USE PipeAssumption
<1>1. TypeOK /\ nread \in 0..(UMod - 1)
  BY DEF PipeIndInv, TypeOK
<1>2. allocated /\ allocated' /\ data' = data /\ nread' = (nread + 1) % UMod
  BY DEF PipeIndInv, NoUseAfterFree, InPipe, ReadByte
<1>3. Count \in Nat \ {0}
  BY <1>1, Counts DEF ReadByte
<1>4. Count' = Count - 1
  <2>1. Count' = (IF Count = 0 THEN UMod - 1 ELSE Count - 1)
    BY <1>1, Counts DEF ReadByte, Count
  <2> QED BY <1>3, <2>1
<1>5. /\ Contents \in Seq(Byte) /\ Len(Contents) = Count
      /\ \A i \in 1..Count : Contents[i] = data[Slot(nread, i)]
  BY <1>2, QueueOf
<1>6. /\ Contents' \in Seq(Byte) /\ Len(Contents') = Count - 1
      /\ \A i \in 1..(Count - 1) : Contents'[i] = data[Slot((nread + 1) % UMod, i)]
  BY <1>2, <1>4, QueueAfter
<1>7. Contents # << >>
  BY <1>3, <1>5, EmptySeq
<1>8. Contents' = Tail(Contents)
  <2> DEFINE t == Tail(Contents)
  <2>1. /\ t \in Seq(Byte) /\ Len(t) = Len(Contents) - 1
        /\ \A i \in 1..Len(t) : t[i] = Contents[i + 1]
    BY <1>5, <1>7, HeadTailProperties
  <2> HIDE DEF t
  <2>2. Len(t) = Len(Contents')
    BY <1>5, <1>6, <2>1
  <2>3. ASSUME NEW i \in 1..Len(Contents') PROVE Contents'[i] = t[i]
    <3>1. i \in 1..(Count - 1) /\ i + 1 \in 1..Count /\ i \in Nat
      BY <1>3, <1>6
    <3>2. Slot((nread + 1) % UMod, i) = Slot(nread, i + 1)
      BY <1>1, <3>1, SlotFacts
    <3>3. Contents'[i] = data[Slot(nread, i + 1)]
      BY <1>6, <3>1, <3>2
    <3>4. Contents[i + 1] = data[Slot(nread, i + 1)]
      BY <1>5, <3>1
    <3>5. t[i] = Contents[i + 1]
      BY <2>1, <2>2
    <3> QED BY <3>3, <3>4, <3>5
  <2>4. Contents' = t
    BY <1>6, <2>1, <2>2, <2>3, SeqEqual
  <2> QED BY <2>4 DEF t
<1>9. ch' = Head(Contents)
  <2>1. Head(Contents) = Contents[1]
    BY <1>5, <1>7
  <2>2. Contents[1] = data[Slot(nread, 1)]
    BY <1>3, <1>5
  <2>3. Slot(nread, 1) = nread % PIPESIZE
    BY <1>1, SlotFacts
  <2> QED BY <2>1, <2>2, <2>3 DEF ReadByte
<1> QED BY <1>2, <1>7, <1>8, <1>9 DEF Channel!Take

(* What leaves the page, the ring and the byte taken alone is invisible.   *)
LEMMA PipeStutters ==
  ASSUME UNCHANGED <<allocated, nread, nwrite, data, ch>>
  PROVE  UNCHANGED <<allocated, Contents, ch>>
BY DEF Contents

(* pipealloc() makes an empty channel. *)
LEMMA PipeAllocCreates ==
  ASSUME PipeIndInv, PipeIndInv', NEW p \in Procs, PipeAlloc(p)
  PROVE  Channel!Create
<1>1. Count' = 0
  <2>1. TypeOK' => ((Empty <=> Count = 0))'
    BY Counts, PTL
  <2> QED BY <2>1 DEF PipeIndInv, PipeAlloc, Empty
<1>2. Contents' = << >>
  BY <1>1, QueueAfter, EmptySeq DEF PipeAlloc
<1> QED BY <1>2 DEF PipeAlloc, Channel!Create

(* kfree() of the page discards the channel and what was left in it. *)
LEMMA PipeFreeDiscards ==
  ASSUME PipeIndInv, PipeIndInv', NEW p \in Procs, PipeFree(p)
  PROVE  Channel!Discard
<1>1. allocated /\ ~allocated' /\ ch' = ch
  BY DEF PipeFree, PipeIndInv, NoUseAfterFree, InPipe
<1>2. Contents' = << >>
  BY <1>1, QueueAfter
<1> QED BY <1>1, <1>2 DEF PipeFree, Channel!Discard

(* pipewrite() and piperead() implement a first-in first-out channel of    *)
(* PIPESIZE bytes, across the wrap of both counters and whoever is killed. *)
THEOREM PipeRefinement == Spec => ImplementsByteChannel
<1>1. Init => Channel!BInit
  BY DEF Init, Channel!BInit, Contents
<1>2. ASSUME PipeIndInv, PipeIndInv', [Next]_vars
      PROVE  [Channel!BNext]_<<allocated, Contents, ch>>
  <2>1. CASE Next
    <3>1. PICK p \in Procs :
            \/ PipeAlloc(p) \/ Kill(p) \/ Reborn(p)
            \/ \E q \in Procs : Dup(p, q)
            \/ \E n \in 0..MaxN : WriteCall(p, n) \/ ReadCall(p, n)
            \/ \E en \in Ends : Close(p, en)
            \/ Inside(p) \/ Acquires(p)
      BY <2>1 DEF Next
    <3>2. CASE PipeAlloc(p)
      BY <1>2, <3>2, PipeAllocCreates DEF Channel!BNext
    <3>3. CASE Kill(p) \/ Reborn(p) \/ \E q \in Procs : Dup(p, q)
      BY <3>3, PipeStutters DEF Kill, Reborn, Dup, pipe
    <3>4. CASE \E n \in 0..MaxN : WriteCall(p, n) \/ ReadCall(p, n)
      BY <3>4, PipeStutters DEF WriteCall, ReadCall, pipe
    <3>5. CASE \E en \in Ends : Close(p, en)
      BY <3>5, PipeStutters DEF Close, pipe
    <3>6. CASE Acquires(p)
      BY <3>6, PipeStutters DEF Acquires, WriteAcquire, ReadAcquire, Acquire, PipeClose, pipe
    <3>7. CASE Inside(p)
      <4>1. CASE \E b \in Byte : WriteByte(p, b)
        BY <1>2, <4>1, WriteBytePuts DEF Channel!BNext
      <4>2. CASE ReadByte(p)
        BY <1>2, <4>2, ReadByteTakes DEF Channel!BNext
      <4>3. CASE PipeFree(p)
        BY <1>2, <4>3, PipeFreeDiscards DEF Channel!BNext
      <4>4. CASE WriteFail(p) \/ WriteFull(p) \/ WriteSleep(p) \/ WriteDone(p)
        BY <4>4, PipeStutters DEF WriteFail, WriteFull, WriteSleep, WriteDone, pipe
      <4>5. CASE ReadReady(p) \/ ReadFail(p) \/ ReadEmpty(p) \/ ReadSleep(p) \/ ReadDone(p)
        BY <4>5, PipeStutters DEF ReadReady, ReadFail, ReadEmpty, ReadSleep, ReadDone, pipe
      <4>6. CASE \E ok \in BOOLEAN : ReadCopyout(p, ok)
        <5>1. UNCHANGED Contents
          BY <4>6 DEF ReadCopyout, pipe, Contents
        <5> QED BY <4>6, <5>1 DEF ReadCopyout, Channel!BNext, Channel!Deliver
      <4> QED BY <3>7, <4>1, <4>2, <4>3, <4>4, <4>5, <4>6 DEF Inside
    <3> QED BY <3>1, <3>2, <3>3, <3>4, <3>5, <3>6, <3>7
  <2>2. CASE UNCHANGED vars
    BY <2>2, PipeStutters DEF vars
  <2> QED BY <1>2, <2>1, <2>2
<1> QED
  BY <1>1, <1>2, PipeInvariance, PTL DEF Spec, ImplementsByteChannel, Channel!BSpec, Channel!bvars

-------------------------------------------------------------------------------
(* Moving an index by one, and the distance of two indices. *)
LEMMA Indices ==
  ASSUME NEW a \in 0..(ConsUMod - 1), NEW b \in 0..(ConsUMod - 1)
  PROVE  /\ Dist(a, b) = (IF b >= a THEN b - a ELSE b - a + ConsUMod)
         /\ (a + 1) % ConsUMod = (IF a = ConsUMod - 1 THEN 0 ELSE a + 1)
         /\ (a - 1) % ConsUMod = (IF a = 0 THEN ConsUMod - 1 ELSE a - 1)
<1> USE ConsoleAssumption
<1>1. a % ConsUMod = a
  BY ModSmall
<1>2. Dist(a, b) = (IF b >= a THEN b - a ELSE b - a + ConsUMod)
  <2>1. CASE b >= a
    <3>1. b - a \in 0..(ConsUMod - 1)
      BY <2>1
    <3> QED BY <2>1, <3>1, ModSmall DEF Dist
  <2>2. CASE b < a
    <3>1. (-1) * ConsUMod + (b - a + ConsUMod) = b - a /\ b - a + ConsUMod \in 0..(ConsUMod - 1)
      BY <2>2
    <3>2. ((-1) * ConsUMod + (b - a + ConsUMod)) % ConsUMod = b - a + ConsUMod
      BY <3>1, ModIs
    <3> QED BY <2>2, <3>1, <3>2 DEF Dist
  <2> QED BY <2>1, <2>2
<1>3. a \in Int /\ ConsUMod \in Nat \ {0}
  OBVIOUS
<1>4. /\ (a + 1) % ConsUMod = (IF a % ConsUMod = ConsUMod - 1 THEN 0 ELSE (a % ConsUMod) + 1)
      /\ (a - 1) % ConsUMod = (IF a % ConsUMod = 0 THEN ConsUMod - 1 ELSE (a % ConsUMod) - 1)
  BY <1>3, ModNext
<1> QED BY <1>1, <1>2, <1>4

(* The test of consoleintr() that hands over a full ring. *)
LEMMA LastPlace ==
  ASSUME NEW a \in 0..(ConsUMod - 1)
  PROVE  (a + INPUT_BUF) % ConsUMod = (IF a + INPUT_BUF < ConsUMod THEN a + INPUT_BUF
                                       ELSE a + INPUT_BUF - ConsUMod)
<1> USE ConsoleAssumption
<1>1. CASE a + INPUT_BUF < ConsUMod
  <2>1. a + INPUT_BUF \in 0..(ConsUMod - 1)
    BY <1>1
  <2> QED BY <1>1, <2>1, ModSmall
<1>2. CASE a + INPUT_BUF >= ConsUMod
  <2>1. 1 * ConsUMod + (a + INPUT_BUF - ConsUMod) = a + INPUT_BUF
        /\ a + INPUT_BUF - ConsUMod \in 0..(ConsUMod - 1)
    BY <1>2
  <2>2. (1 * ConsUMod + (a + INPUT_BUF - ConsUMod)) % ConsUMod = a + INPUT_BUF - ConsUMod
    BY <2>1, ModIs
  <2> QED BY <1>2, <2>1, <2>2
<1> QED BY <1>1, <1>2

(* An index back by k. *)
LEMMA Back ==
  ASSUME NEW a \in 0..(ConsUMod - 1), NEW b \in 0..(ConsUMod - 1)
  PROVE  (b - Dist(a, b)) % ConsUMod = a
<1> USE ConsoleAssumption
<1>1. Dist(a, b) = (IF b >= a THEN b - a ELSE b - a + ConsUMod)
  BY Indices
<1>2. CASE b >= a
  <2>1. b - Dist(a, b) = a
    BY <1>1, <1>2
  <2> QED BY <2>1, ModSmall
<1>3. CASE b < a
  <2>1. b - Dist(a, b) = (-1) * ConsUMod + a
    BY <1>1, <1>3
  <2>2. ((-1) * ConsUMod + a) % ConsUMod = a
    BY ModIs
  <2> QED BY <2>1, <2>2
<1> QED BY <1>2, <1>3

-----------------------------------------------------------------------------
(* The n characters of a ring b from index a on. *)
Window(b, a, n) == [i \in 1..n |-> b[InRing(a + i - 1)]]

Rings == [0..(INPUT_BUF - 1) -> Char]

(* The ring b after character c was stored at index i. *)
Stored(b, i, c) == [b EXCEPT ![InRing(i)] = c]

(* A window is a sequence of characters. *)
LEMMA WindowSeq ==
  ASSUME NEW b \in Rings, NEW a \in Int, NEW n \in Nat
  PROVE  /\ Window(b, a, n) \in Seq(Char) /\ Len(Window(b, a, n)) = n
         /\ \A i \in 1..n : Window(b, a, n)[i] = b[InRing(a + i - 1)]
<1> USE ConsoleAssumption
<1>1. \A i \in 1..n : InRing(a + i - 1) \in 0..(INPUT_BUF - 1)
  <2> TAKE i \in 1..n
  <2>1. a + i - 1 \in Int /\ INPUT_BUF \in Nat \ {0}
    OBVIOUS
  <2> QED BY <2>1, ModDef DEF InRing
<1> DEFINE f == Window(b, a, n)
<1>2. f \in [1..n -> Char] /\ \A i \in 1..n : f[i] = b[InRing(a + i - 1)]
  BY <1>1 DEF Window, Rings
<1> HIDE DEF f
<1>3. f \in Seq(Char)
  BY <1>2, SeqDef
<1>4. DOMAIN f = 1..n /\ DOMAIN f = 1..Len(f) /\ Len(f) \in Nat
  BY <1>2, <1>3, LenProperties
<1>5. Len(f) = n
  BY <1>4
<1> QED BY <1>2, <1>3, <1>5 DEF f

(* Where a window starts counts modulo the size of the ring. *)
LEMMA WindowSame ==
  ASSUME NEW b, NEW a \in Int, NEW c \in Int, NEW n \in Nat, InRing(a) = InRing(c)
  PROVE  Window(b, a, n) = Window(b, c, n)
<1> USE ConsoleAssumption
<1>1. \A i \in 1..n : InRing(a + i - 1) = InRing(c + i - 1)
  <2> TAKE i \in 1..n
  <2>1. PICK k \in Int : k = i - 1
    OBVIOUS
  <2>2. a % INPUT_BUF = c % INPUT_BUF /\ INPUT_BUF \in Nat \ {0}
    BY DEF InRing
  <2>3. (a + k) % INPUT_BUF = (c + k) % INPUT_BUF
    BY <2>2, ModPlus
  <2>4. a + k = a + i - 1 /\ c + k = c + i - 1
    BY <2>1
  <2> QED BY <2>3, <2>4 DEF InRing
<1> QED BY <1>1 DEF Window

(* Windows of n characters from a on and of m from c on make one of l. *)
Join(b, a, n, c, m, l) == Window(b, a, n) \o Window(b, c, m) = Window(b, a, l)

(* Two windows side by side. *)
LEMMA WindowConcat ==
  ASSUME NEW b \in Rings, NEW a \in Int, NEW n \in Nat, NEW m \in Nat,
         NEW x \in Int, x = a + n, NEW l \in Nat, l = n + m
  PROVE  Join(b, a, n, x, m, l)
<1> DEFINE s == Window(b, a, n)
           t == Window(b, x, m)
           u == Window(b, a, l)
<1>1. /\ s \in Seq(Char) /\ Len(s) = n
      /\ \A i \in 1..n : s[i] = b[InRing(a + i - 1)]
  BY WindowSeq
<1>2. /\ t \in Seq(Char) /\ Len(t) = m
      /\ \A i \in 1..m : t[i] = b[InRing(x + i - 1)]
  BY WindowSeq
<1>3. /\ u \in Seq(Char) /\ Len(u) = l
      /\ \A i \in 1..l : u[i] = b[InRing(a + i - 1)]
  BY WindowSeq
<1> HIDE DEF s, t, u
<1> DEFINE c == s \o t
<1>4. /\ c \in Seq(Char) /\ Len(c) = Len(s) + Len(t)
      /\ \A i \in 1..(Len(s) + Len(t)) : c[i] = IF i <= Len(s) THEN s[i] ELSE t[i - Len(s)]
  <2>1. s \in Seq(Char) /\ t \in Seq(Char)
    BY <1>1, <1>2
  <2> QED BY <2>1, ConcatProperties
<1> HIDE DEF c
<1>5. Len(c) = l /\ \A i \in 1..l : c[i] = IF i <= n THEN s[i] ELSE t[i - n]
  BY <1>1, <1>2, <1>4
<1>6. ASSUME NEW i \in 1..l PROVE c[i] = u[i]
  <2>0. u[i] = b[InRing(a + i - 1)]
    BY <1>3
  <2>1. CASE i <= n
    <3>1. i \in 1..n
      BY <2>1
    <3>2. c[i] = s[i]
      BY <1>5, <2>1
    <3> QED BY <1>1, <2>0, <3>1, <3>2
  <2>2. CASE i > n
    <3>1. i - n \in 1..m /\ x + (i - n) - 1 = a + i - 1
      BY <2>2
    <3>2. c[i] = t[i - n]
      BY <1>5, <2>2
    <3>3. t[i - n] = b[InRing(x + (i - n) - 1)]
      BY <1>2, <3>1
    <3> QED BY <2>0, <3>1, <3>2, <3>3
  <2> QED BY <2>1, <2>2
<1>7. c = u
  BY <1>3, <1>4, <1>5, <1>6, SeqEqual
<1> QED BY <1>7 DEF c, s, t, u, Join

(* A window that starts where another one ends. *)
LEMMA WindowsMeet ==
  ASSUME NEW b \in Rings, NEW a \in Int, NEW c \in Int, NEW n \in Nat, NEW m \in Nat,
         InRing(a + n) = InRing(c), NEW l \in Nat, l = n + m
  PROVE  Join(b, a, n, c, m, l)
<1>1. PICK x \in Int : x = a + n
  OBVIOUS
<1>2. Window(b, c, m) = Window(b, x, m)
  BY <1>1, WindowSame
<1>3. Join(b, a, n, x, m, l)
  BY <1>1, WindowConcat
<1> QED BY <1>2, <1>3 DEF Join

(* A character stored behind a window that does not fill the ring. *)
LEMMA WindowStore ==
  ASSUME NEW b \in Rings, NEW a \in Int, NEW n \in 0..(INPUT_BUF - 1), NEW c \in Char,
         NEW d, d = Stored(b, a + n, c)
  PROVE  /\ d \in Rings
         /\ Window(d, a, n + 1) = Append(Window(b, a, n), c)
<1> USE ConsoleAssumption
<1>1. INPUT_BUF \in Nat \ {0} /\ \A i \in Int : InRing(i) \in 0..(INPUT_BUF - 1)
  BY ModDef DEF InRing
<1>2. d \in Rings /\ d[InRing(a + n)] = c
  BY <1>1 DEF Rings, Stored
<1>3. \A i \in 1..n : InRing(a + i - 1) # InRing(a + n)
  <2> TAKE i \in 1..n
  <2>1. a + i - 1 \in Int /\ n + 1 - i \in 1..(INPUT_BUF - 1) /\ (a + i - 1) + (n + 1 - i) = a + n
    OBVIOUS
  <2>2. ((a + i - 1) + (n + 1 - i)) % INPUT_BUF # (a + i - 1) % INPUT_BUF
    BY <1>1, <2>1, ModApart
  <2> QED BY <2>1, <2>2 DEF InRing
<1>4. \A i \in 1..n : d[InRing(a + i - 1)] = b[InRing(a + i - 1)]
  BY <1>1, <1>3 DEF Rings, Stored
<1>6. Window(d, a, n + 1) = Append(Window(b, a, n), c)
  <2> DEFINE s == Window(b, a, n)
             t == Append(s, c)
             u == Window(d, a, n + 1)
  <2>1. /\ s \in Seq(Char) /\ Len(s) = n
        /\ \A i \in 1..n : s[i] = b[InRing(a + i - 1)]
    <3>1. b \in Rings /\ a \in Int /\ n \in Nat
      OBVIOUS
    <3> QED BY ONLY <3>1, WindowSeq
  <2>2. /\ u \in Seq(Char) /\ Len(u) = n + 1
        /\ \A i \in 1..(n + 1) : u[i] = d[InRing(a + i - 1)]
    <3>1. PICK k \in Nat : k = n + 1
      OBVIOUS
    <3>2. /\ Window(d, a, k) \in Seq(Char) /\ Len(Window(d, a, k)) = k
          /\ \A i \in 1..k : Window(d, a, k)[i] = d[InRing(a + i - 1)]
      BY <1>2, WindowSeq
    <3> QED BY <3>1, <3>2
  <2> HIDE DEF s, u
  <2>3. /\ t \in Seq(Char) /\ Len(t) = n + 1
        /\ \A i \in 1..n : t[i] = s[i]
        /\ t[n + 1] = c
    BY <2>1, AppendProperties
  <2> HIDE DEF t
  <2>4. ASSUME NEW i \in 1..(n + 1) PROVE u[i] = t[i]
    <3>1. CASE i <= n
      <4>1. i \in 1..n
        BY <3>1
      <4>2. u[i] = d[InRing(a + i - 1)] /\ t[i] = b[InRing(a + i - 1)]
        BY <2>1, <2>2, <2>3, <4>1
      <4> QED BY <1>4, <4>1, <4>2
    <3>2. CASE i = n + 1
      <4>1. a + i - 1 = a + n
        BY <3>2
      <4> QED BY <1>2, <2>2, <2>3, <3>2, <4>1
    <3> QED BY <3>1, <3>2
  <2>5. u = t
    BY <2>2, <2>3, <2>4, SeqEqual
  <2> QED BY <2>5 DEF s, t, u
<1> QED BY <1>2, <1>6

(* Rings d and b agree on the first n characters from a on. *)
Agree(d, b, a, n) == \A k \in 0..n : Window(d, a, k) = Window(b, a, k)

(* It leaves what is in the window alone. *)
LEMMA WindowKept ==
  ASSUME NEW b \in Rings, NEW a \in Int, NEW n \in 0..(INPUT_BUF - 1), NEW c \in Char,
         NEW x, x = a + n, NEW d, d = Stored(b, x, c)
  PROVE  Agree(d, b, a, n)
<1> USE ConsoleAssumption
<1> SUFFICES ASSUME NEW k \in 0..n PROVE Window(d, a, k) = Window(b, a, k)
  BY DEF Agree
<1>1. INPUT_BUF \in Nat \ {0} /\ \A i \in Int : InRing(i) \in 0..(INPUT_BUF - 1)
  BY ModDef DEF InRing
<1>2. ASSUME NEW i \in 1..k PROVE d[InRing(a + i - 1)] = b[InRing(a + i - 1)]
  <2>1. a + i - 1 \in Int /\ n + 1 - i \in 1..(INPUT_BUF - 1) /\ (a + i - 1) + (n + 1 - i) = a + n
    OBVIOUS
  <2>2. ((a + i - 1) + (n + 1 - i)) % INPUT_BUF # (a + i - 1) % INPUT_BUF
    BY <1>1, <2>1, ModApart
  <2>3. InRing(a + i - 1) # InRing(a + n)
    BY <2>1, <2>2 DEF InRing
  <2> QED BY <1>1, <2>1, <2>3 DEF Rings, Stored
<1> QED BY <1>2 DEF Window

(* The first character taken, and the last one erased. *)
LEMMA WindowLess ==
  ASSUME NEW b \in Rings, NEW a \in Int, NEW n \in Nat \ {0}
  PROVE  /\ Window(b, a, n) # << >>
         /\ Window(b, a + 1, n - 1) = Tail(Window(b, a, n))
         /\ Window(b, a, n - 1) = SubSeq(Window(b, a, n), 1, Len(Window(b, a, n)) - 1)
<1> DEFINE s == Window(b, a, n)
           t == Window(b, a + 1, n - 1)
           u == Window(b, a, n - 1)
<1>1. /\ s \in Seq(Char) /\ Len(s) = n
      /\ \A i \in 1..n : s[i] = b[InRing(a + i - 1)]
  BY WindowSeq
<1>2. /\ t \in Seq(Char) /\ Len(t) = n - 1
      /\ \A i \in 1..(n - 1) : t[i] = b[InRing((a + 1) + i - 1)]
  BY WindowSeq
<1>3. /\ u \in Seq(Char) /\ Len(u) = n - 1
      /\ \A i \in 1..(n - 1) : u[i] = b[InRing(a + i - 1)]
  BY WindowSeq
<1> HIDE DEF s, t, u
<1>4. s # << >>
  BY <1>1, EmptySeq
<1>5. t = Tail(s)
  <2> DEFINE c == Tail(s)
  <2>1. c \in Seq(Char) /\ Len(c) = n - 1 /\ \A i \in 1..(n - 1) : c[i] = s[i + 1]
    BY <1>1, <1>4, HeadTailProperties
  <2> HIDE DEF c
  <2>2. ASSUME NEW i \in 1..(n - 1) PROVE t[i] = c[i]
    <3>1. i + 1 \in 1..n /\ (a + 1) + i - 1 = a + (i + 1) - 1
      OBVIOUS
    <3> QED BY <1>1, <1>2, <2>1, <3>1
  <2>3. t = c
    BY <1>2, <2>1, <2>2, SeqEqual
  <2> QED BY <2>3 DEF c
<1>6. u = SubSeq(s, 1, Len(s) - 1)
  <2> DEFINE c == SubSeq(s, 1, n - 1)
  <2>1. c \in Seq(Char) /\ Len(c) = n - 1 /\ \A i \in 1..(n - 1) : c[i] = s[i]
    BY <1>1, SubSeqProperties
  <2> HIDE DEF c
  <2>2. ASSUME NEW i \in 1..(n - 1) PROVE u[i] = c[i]
    <3>1. u[i] = b[InRing(a + i - 1)] /\ c[i] = s[i]
      BY <1>3, <2>1
    <3>2. i \in 1..n
      OBVIOUS
    <3> QED BY <1>1, <3>1, <3>2
  <2>3. u = c
    BY <1>3, <2>1, <2>2, SeqEqual
  <2> QED BY <1>1, <2>3 DEF c
<1> QED BY <1>4, <1>5, <1>6 DEF s, t, u

-----------------------------------------------------------------------------
(* The characters between two indices are a window of the ring. *)
LEMMA BetweenWindow ==
  ASSUME NEW a \in 0..(ConsUMod - 1), NEW b \in 0..(ConsUMod - 1)
  PROVE  Between(a, b) = Window(buf, a, Dist(a, b))
<1> USE ConsoleAssumption
<1>1. \A i \in 1..Dist(a, b) : InRing((a + i - 1) % ConsUMod) = InRing(a + i - 1)
  <2> TAKE i \in 1..Dist(a, b)
  <2>1. a + i - 1 \in Int /\ INPUT_BUF \in Nat \ {0} /\ ConsUMod \in Nat \ {0}
    OBVIOUS
  <2> QED BY <2>1, ModMultiple DEF InRing
<1> QED BY <1>1 DEF Between, Window

(* What was handed over and what is being edited, as windows. *)
LEMMA Windows ==
  CTypeOK => /\ Between(r, w) = Window(buf, r, Dist(r, w))
             /\ Between(w, e) = Window(buf, w, Dist(w, e))
BY BetweenWindow DEF CTypeOK

(* The same after a step. *)
LEMMA WindowsAfter ==
  ASSUME CTypeOK'
  PROVE  /\ Between(r, w)' = Window(buf', r', Dist(r', w'))
         /\ Between(w, e)' = Window(buf', w', Dist(w', e'))
<1>1. CTypeOK' => (/\ Between(r, w) = Window(buf, r, Dist(r, w))
                   /\ Between(w, e) = Window(buf, w, Dist(w, e)))'
  BY Windows, PTL
<1> QED BY <1>1 DEF Window, Dist, InRing

(* The place an index reaches at a distance from another. *)
LEMMA Reach ==
  ASSUME NEW a \in 0..(ConsUMod - 1), NEW b \in 0..(ConsUMod - 1)
  PROVE  /\ Dist(a, b) \in 0..(ConsUMod - 1)
         /\ InRing(a + Dist(a, b)) = InRing(b)
<1> USE ConsoleAssumption
<1>1. Dist(a, b) = (IF b >= a THEN b - a ELSE b - a + ConsUMod)
  BY Indices
<1>2. Dist(a, b) \in 0..(ConsUMod - 1)
  BY <1>1
<1>3. CASE b >= a
  <2>1. a + Dist(a, b) = b
    BY <1>1, <1>3
  <2> QED BY <1>2, <2>1
<1>4. CASE b < a
  <2>1. a + Dist(a, b) = b + ConsUMod
    BY <1>1, <1>4
  <2>2. INPUT_BUF \in Nat \ {0} /\ ConsUMod \in Int /\ ConsUMod % INPUT_BUF = 0 /\ b \in Int
    OBVIOUS
  <2>3. (ConsUMod + b) % INPUT_BUF = b % INPUT_BUF
    BY <2>2, ModZero
  <2> QED BY <1>2, <2>1, <2>3 DEF InRing
<1> QED BY <1>3, <1>4

(* What the three indices say in a state of the invariant. *)
LEMMA Sizes ==
  ASSUME CTypeOK, InOrder
  PROVE  /\ Dist(r, w) \in 0..INPUT_BUF /\ Dist(w, e) \in 0..INPUT_BUF
         /\ Dist(r, e) \in 0..INPUT_BUF /\ Dist(r, e) = Dist(r, w) + Dist(w, e)
         /\ Dist(r, w) = 0 <=> r = w
         /\ Dist(w, e) = 0 <=> w = e
<1> USE ConsoleAssumption
<1>0. r \in 0..(ConsUMod - 1) /\ w \in 0..(ConsUMod - 1) /\ e \in 0..(ConsUMod - 1)
  BY DEF CTypeOK
<1>1. Dist(r, w) = (IF w >= r THEN w - r ELSE w - r + ConsUMod)
  BY <1>0, Indices
<1>2. Dist(w, e) = (IF e >= w THEN e - w ELSE e - w + ConsUMod)
  BY <1>0, Indices
<1>3. Dist(r, w) \in Nat /\ (Dist(r, w) = 0 <=> r = w)
  BY <1>0, <1>1
<1>4. Dist(w, e) \in Nat /\ (Dist(w, e) = 0 <=> w = e)
  BY <1>0, <1>2
<1> QED BY <1>3, <1>4 DEF InOrder

(* One further from, and one nearer to, an index. *)
LEMMA Further ==
  ASSUME NEW a \in 0..(ConsUMod - 1), NEW b \in 0..(ConsUMod - 1), NEW f \in 0..(ConsUMod - 1),
         f = (IF b = ConsUMod - 1 THEN 0 ELSE b + 1), Dist(a, b) < INPUT_BUF
  PROVE  Dist(a, f) = Dist(a, b) + 1
<1> USE ConsoleAssumption
<1>1. /\ Dist(a, b) = (IF b >= a THEN b - a ELSE b - a + ConsUMod)
      /\ Dist(a, f) = (IF f >= a THEN f - a ELSE f - a + ConsUMod)
  BY Indices
<1> QED BY <1>1

LEMMA Nearer ==
  ASSUME NEW a \in 0..(ConsUMod - 1), NEW b \in 0..(ConsUMod - 1), a # b
  PROVE  /\ \A f \in 0..(ConsUMod - 1) :
              f = (IF b = 0 THEN ConsUMod - 1 ELSE b - 1) => Dist(a, f) = Dist(a, b) - 1
         /\ \A f \in 0..(ConsUMod - 1) :
              f = (IF a = ConsUMod - 1 THEN 0 ELSE a + 1) => Dist(f, b) = Dist(a, b) - 1
<1> USE ConsoleAssumption
<1>1. Dist(a, b) = (IF b >= a THEN b - a ELSE b - a + ConsUMod)
  BY Indices
<1>2. ASSUME NEW f \in 0..(ConsUMod - 1), f = (IF b = 0 THEN ConsUMod - 1 ELSE b - 1)
      PROVE  Dist(a, f) = Dist(a, b) - 1
  <2>1. Dist(a, f) = (IF f >= a THEN f - a ELSE f - a + ConsUMod)
    BY Indices
  <2> QED BY <1>1, <1>2, <2>1
<1>3. ASSUME NEW f \in 0..(ConsUMod - 1), f = (IF a = ConsUMod - 1 THEN 0 ELSE a + 1)
      PROVE  Dist(f, b) = Dist(a, b) - 1
  <2>1. Dist(f, b) = (IF b >= f THEN b - f ELSE b - f + ConsUMod)
    BY Indices
  <2> QED BY <1>1, <1>3, <2>1
<1> QED BY <1>2, <1>3

(* The distances after a character is stored. *)
LEMMA OneMore ==
  ASSUME CTypeOK, InOrder, Dist(r, e) < INPUT_BUF
  PROVE  \E f \in 0..(ConsUMod - 1) :
           /\ f = (e + 1) % ConsUMod
           /\ Dist(r, f) = Dist(r, e) + 1 /\ Dist(w, f) = Dist(w, e) + 1 /\ Dist(f, f) = 0
           /\ f = (r + INPUT_BUF) % ConsUMod <=> Dist(r, e) + 1 = INPUT_BUF
<1> USE ConsoleAssumption
<1>1. r \in 0..(ConsUMod - 1) /\ w \in 0..(ConsUMod - 1) /\ e \in 0..(ConsUMod - 1)
  BY DEF CTypeOK
<1>2. PICK f \in 0..(ConsUMod - 1) : f = (IF e = ConsUMod - 1 THEN 0 ELSE e + 1)
  BY <1>1
<1>3. f = (e + 1) % ConsUMod
  BY <1>1, <1>2, Indices
<1>4. Dist(w, e) < INPUT_BUF
  BY Sizes
<1>5. Dist(r, f) = Dist(r, e) + 1 /\ Dist(w, f) = Dist(w, e) + 1
  BY <1>1, <1>2, <1>4, Further
<1>6. Dist(f, f) = 0
  <2>1. Dist(f, f) = (IF f >= f THEN f - f ELSE f - f + ConsUMod)
    BY Indices
  <2> QED BY <2>1
<1>7. f = (r + INPUT_BUF) % ConsUMod <=> Dist(r, e) + 1 = INPUT_BUF
  <2>1. Dist(r, f) = (IF f >= r THEN f - r ELSE f - r + ConsUMod)
    BY <1>1, Indices
  <2>2. PICK l \in 0..(ConsUMod - 1) : l = (IF r + INPUT_BUF < ConsUMod THEN r + INPUT_BUF
                                           ELSE r + INPUT_BUF - ConsUMod)
    <3>1. CASE r + INPUT_BUF < ConsUMod
      <4>1. r + INPUT_BUF \in 0..(ConsUMod - 1)
        BY <1>1, <3>1
      <4> QED BY <3>1, <4>1
    <3>2. CASE ~(r + INPUT_BUF < ConsUMod)
      <4>1. r + INPUT_BUF - ConsUMod \in 0..(ConsUMod - 1)
        BY <1>1, <3>2
      <4> QED BY <3>2, <4>1
    <3> QED BY <3>1, <3>2
  <2>3. f = l <=> Dist(r, f) = INPUT_BUF
    BY <1>1, <2>1, <2>2
  <2>4. l = (r + INPUT_BUF) % ConsUMod
    BY <1>1, <2>2, LastPlace
  <2> QED BY <1>5, <2>3, <2>4
<1> QED BY <1>3, <1>5, <1>6, <1>7

(* The distances after a character is erased. *)
LEMMA OneErased ==
  ASSUME CTypeOK, InOrder, e # w
  PROVE  \E f \in 0..(ConsUMod - 1) :
           /\ f = (e - 1) % ConsUMod
           /\ Dist(r, f) = Dist(r, e) - 1 /\ Dist(w, f) = Dist(w, e) - 1
<1> USE ConsoleAssumption
<1>1. r \in 0..(ConsUMod - 1) /\ w \in 0..(ConsUMod - 1) /\ e \in 0..(ConsUMod - 1)
  BY DEF CTypeOK
<1>2. PICK f \in 0..(ConsUMod - 1) : f = (IF e = 0 THEN ConsUMod - 1 ELSE e - 1)
  BY <1>1
<1>3. f = (e - 1) % ConsUMod
  BY <1>1, <1>2, Indices
<1>4. r # e
  <2>1. Dist(r, e) # 0
    BY Sizes
  <2>2. Dist(e, e) = (IF e >= e THEN e - e ELSE e - e + ConsUMod)
    BY <1>1, Indices
  <2> QED BY <1>1, <2>1, <2>2
<1> QED BY <1>1, <1>2, <1>3, <1>4, Nearer

(* The distances after a character is read. *)
LEMMA OneRead ==
  ASSUME CTypeOK, InOrder, r # w
  PROVE  \E f \in 0..(ConsUMod - 1) :
           /\ f = (r + 1) % ConsUMod
           /\ Dist(f, w) = Dist(r, w) - 1 /\ Dist(f, e) = Dist(r, e) - 1
<1> USE ConsoleAssumption
<1>1. r \in 0..(ConsUMod - 1) /\ w \in 0..(ConsUMod - 1) /\ e \in 0..(ConsUMod - 1)
  BY DEF CTypeOK
<1>2. PICK f \in 0..(ConsUMod - 1) : f = (IF r = ConsUMod - 1 THEN 0 ELSE r + 1)
  BY <1>1
<1>3. f = (r + 1) % ConsUMod
  BY <1>1, <1>2, Indices
<1>4. r # e
  <2>1. Dist(r, e) # 0
    BY Sizes
  <2>2. Dist(e, e) = (IF e >= e THEN e - e ELSE e - e + ConsUMod)
    BY <1>1, Indices
  <2> QED BY <1>1, <2>1, <2>2
<1> QED BY <1>1, <1>2, <1>3, <1>4, Nearer

-----------------------------------------------------------------------------
(* What storing a character does to the two windows. *)
LEMMA StoreWindows ==
  ASSUME ConsIndInv, NEW c \in Char, Store(c)
  PROVE  /\ buf' \in Rings
         /\ Window(buf', r, Dist(r, w)) = Window(buf, r, Dist(r, w))
         /\ Window(buf', w, Dist(w, e) + 1) = Append(Window(buf, w, Dist(w, e)), c)
<1> USE ConsoleAssumption
<1>1. /\ r \in 0..(ConsUMod - 1) /\ w \in 0..(ConsUMod - 1) /\ e \in 0..(ConsUMod - 1)
      /\ buf \in Rings
  BY DEF ConsIndInv, CTypeOK, Rings
<1>2. /\ Dist(r, w) \in 0..Dist(r, e)
      /\ Dist(r, e) \in 0..(INPUT_BUF - 1) /\ Dist(w, e) \in 0..(INPUT_BUF - 1)
  <2>1. Dist(r, e) < INPUT_BUF
    BY DEF Store
  <2> QED BY <2>1, Sizes DEF ConsIndInv
<1>3. /\ buf' = Stored(buf, r + Dist(r, e), c)
      /\ buf' = Stored(buf, w + Dist(w, e), c)
  <2>1. InRing(r + Dist(r, e)) = InRing(e) /\ InRing(w + Dist(w, e)) = InRing(e)
    BY <1>1, Reach
  <2> QED BY <2>1 DEF Store, Stored
<1>4. buf' \in Rings /\ \A k \in 0..Dist(r, e) : Window(buf', r, k) = Window(buf, r, k)
  <2>1. PICK n \in 0..(INPUT_BUF - 1) : n = Dist(r, e)
    BY <1>2
  <2>2. buf' = Stored(buf, r + n, c)
    BY <1>3, <2>1
  <2>3. r \in Int /\ buf \in Rings
    BY <1>1
  <2>4. buf' \in Rings /\ \A k \in 0..n : Window(buf', r, k) = Window(buf, r, k)
    <3>1. buf' \in Rings
      BY <2>2, <2>3, WindowStore
    <3>2. PICK x : x = r + n
      OBVIOUS
    <3>3. Agree(buf', buf, r, n)
      BY <2>2, <2>3, <3>2, WindowKept
    <3> QED BY <3>1, <3>3 DEF Agree
  <2> QED BY <2>1, <2>4
<1>5. Window(buf', w, Dist(w, e) + 1) = Append(Window(buf, w, Dist(w, e)), c)
  <2>1. PICK n \in 0..(INPUT_BUF - 1) : n = Dist(w, e)
    BY <1>2
  <2>2. buf' = Stored(buf, w + n, c)
    BY <1>3, <2>1
  <2>3. w \in Int /\ buf \in Rings
    BY <1>1
  <2>4. Window(buf', w, n + 1) = Append(Window(buf, w, n), c)
    BY <2>2, <2>3, WindowStore
  <2> QED BY <2>1, <2>4
<1> QED BY <1>2, <1>4, <1>5

(* A stored character keeps the order of the indices and the line whole. *)
LEMMA StoreKeeps ==
  ASSUME ConsIndInv, NEW c \in Char, Store(c)
  PROVE  ConsIndInv'
<1> USE ConsoleAssumption
<1>1. /\ r \in 0..(ConsUMod - 1) /\ w \in 0..(ConsUMod - 1) /\ e \in 0..(ConsUMod - 1)
      /\ r' = r /\ Dist(r, e) < INPUT_BUF /\ ~clock
      /\ CTypeOK /\ InOrder
  BY DEF ConsIndInv, CTypeOK, Store
<1>2. PICK f \in 0..(ConsUMod - 1) :
        /\ f = (e + 1) % ConsUMod
        /\ Dist(r, f) = Dist(r, e) + 1 /\ Dist(w, f) = Dist(w, e) + 1 /\ Dist(f, f) = 0
        /\ f = (r + INPUT_BUF) % ConsUMod <=> Dist(r, e) + 1 = INPUT_BUF
  BY <1>1, OneMore
<1>3. /\ e' = f /\ w' \in {w, f} /\ cpc' \in {cpc, Woken}
      /\ w' = w => c \notin LineEnds \/ f = w
      /\ w' # w => cpc' = Woken
  BY <1>2 DEF Store
<1>4. CTypeOK'
  <2>1. buf' \in [0..(INPUT_BUF - 1) -> Char]
    BY StoreWindows DEF Rings
  <2>2. cpc' \in [Readers -> CLabels]
    BY <1>1, <1>3 DEF CTypeOK, CLabels, Woken
  <2> QED BY <1>1, <1>2, <1>3, <2>1, <2>2 DEF CTypeOK, Store
<1>5. InOrder'
  <2>1. Dist(r, w) \in Nat /\ Dist(w, e) \in Nat /\ Dist(r, e) = Dist(r, w) + Dist(w, e)
    BY <1>1, Sizes
  <2>2. Dist(r, w') + Dist(w', f) = Dist(r, f) /\ Dist(r, f) <= INPUT_BUF
    BY <1>1, <1>2, <1>3, <2>1
  <2> QED BY <1>1, <1>3, <2>2 DEF InOrder, Dist
<1>6. OneLine'
  <2>1. CASE w' = f
    <3>1. Dist(w', e') = 0
      BY <1>2, <1>3, <2>1
    <3> QED BY <3>1 DEF OneLine, Dist
  <2>2. CASE w' = w /\ c \notin LineEnds
    <3> DEFINE n == Dist(w, e)
               s == Window(buf, w, n)
    <3>1. n \in Nat /\ buf \in Rings /\ w \in Int
      BY <1>1, Sizes DEF CTypeOK, Rings
    <3>2. s \in Seq(Char) /\ Len(s) = n
      BY <3>1, WindowSeq
    <3>3. \A i \in 1..n : s[i] \notin LineEnds
      BY <1>1, Windows DEF ConsIndInv, OneLine
    <3>4. Between(w, e)' = Window(buf', w', Dist(w', e'))
      BY <1>4, WindowsAfter
    <3>5. Dist(w', e') = n + 1
      BY <1>2, <1>3, <2>2
    <3>6. Between(w, e)' = Append(s, c)
      BY <2>2, <3>4, <3>5, StoreWindows
    <3> HIDE DEF n, s
    <3>7. \A i \in 1..(n + 1) : Append(s, c)[i] \notin LineEnds
      BY <2>2, <3>1, <3>2, <3>3, AppendProperties
    <3> QED BY <3>5, <3>6, <3>7 DEF OneLine, Dist
  <2> QED BY <1>3, <2>1, <2>2
<1>7. ReaderOwns'
  BY <1>1, <1>3 DEF ConsIndInv, ReaderOwns, Woken, Store, CTypeOK, CLabels
<1>8. SleepsForInput'
  BY <1>1, <1>3 DEF ConsIndInv, ReaderOwns, SleepsForInput, Woken, CTypeOK, CLabels
<1> QED BY <1>4, <1>5, <1>6, <1>7, <1>8 DEF ConsIndInv

(* A backspace keeps them: it never reaches what was handed over. *)
LEMMA BackspaceKeeps ==
  ASSUME ConsIndInv, Backspace
  PROVE  ConsIndInv'
<1> USE ConsoleAssumption
<1>1. /\ r \in 0..(ConsUMod - 1) /\ w \in 0..(ConsUMod - 1) /\ e \in 0..(ConsUMod - 1)
      /\ r' = r /\ w' = w /\ buf' = buf /\ w # e /\ cpc' = cpc /\ clock' = clock
      /\ CTypeOK /\ InOrder
  BY DEF ConsIndInv, CTypeOK, Backspace
<1>2. PICK f \in 0..(ConsUMod - 1) :
        /\ f = (e - 1) % ConsUMod
        /\ Dist(r, f) = Dist(r, e) - 1 /\ Dist(w, f) = Dist(w, e) - 1
  BY <1>1, OneErased
<1>3. e' = f
  BY <1>2 DEF Backspace
<1>4. CTypeOK'
  BY <1>1, <1>3 DEF CTypeOK, Backspace
<1>5. InOrder'
  <2>1. Dist(r, w) \in Nat /\ Dist(w, e) \in Nat /\ Dist(r, e) \in 0..INPUT_BUF
        /\ Dist(r, e) = Dist(r, w) + Dist(w, e)
    BY <1>1, Sizes
  <2>2. Dist(r, w) + Dist(w, f) = Dist(r, f) /\ Dist(r, f) <= INPUT_BUF
    BY <1>2, <2>1
  <2> QED BY <1>1, <1>3, <2>2 DEF InOrder, Dist
<1>6. OneLine'
  <2> DEFINE n == Dist(w, e)
  <2>1. n \in Nat \ {0} /\ buf \in Rings /\ w \in Int
    BY <1>1, Sizes DEF CTypeOK, Rings
  <2>2. \A i \in 1..n : Window(buf, w, n)[i] \notin LineEnds
    BY <1>1, Windows DEF ConsIndInv, OneLine
  <2>3. Dist(w', e') = n - 1 /\ Between(w, e)' = Window(buf, w, n - 1)
    BY <1>1, <1>2, <1>3, <1>4, WindowsAfter
  <2> HIDE DEF n
  <2>4. \A i \in 1..(n - 1) : Window(buf, w, n - 1)[i] = Window(buf, w, n)[i]
    BY <2>1 DEF Window
  <2>5. \A i \in 1..(n - 1) : Window(buf, w, n - 1)[i] \notin LineEnds
    BY <2>1, <2>2, <2>4
  <2> QED BY <2>3, <2>5 DEF OneLine, Dist
<1>7. ReaderOwns' /\ SleepsForInput'
  BY <1>1 DEF ConsIndInv, ReaderOwns, SleepsForInput
<1> QED BY <1>4, <1>5, <1>6, <1>7 DEF ConsIndInv

(* The same place, reached back from two indices of the same place. *)
LEMMA PlacesBack ==
  ASSUME NEW x \in Int, NEW y \in Int, NEW j \in Int, InRing(x) = InRing(y)
  PROVE  InRing(x - j) = InRing(y - j)
<1>1. INPUT_BUF \in Nat \ {0} /\ x % INPUT_BUF = y % INPUT_BUF
  BY ConsoleAssumption DEF InRing
<1>2. (x - j) % INPUT_BUF = (y - j) % INPUT_BUF
  BY <1>1, ModLess
<1> QED BY <1>2 DEF InRing

(* ^U erases back to w: there is no end of a line in between. *)
LEMMA KillLineAll ==
  ASSUME ConsIndInv, KillLine
  PROVE  e' = w
<1> USE ConsoleAssumption
<1>1. /\ r \in 0..(ConsUMod - 1) /\ w \in 0..(ConsUMod - 1) /\ e \in 0..(ConsUMod - 1)
      /\ CTypeOK /\ InOrder /\ buf \in Rings
  BY DEF ConsIndInv, CTypeOK, Rings
<1>2. PICK k \in 0..INPUT_BUF : Erasable(k) /\ ~Erasable(k + 1) /\ e' = (e - k) % ConsUMod
  BY DEF KillLine
<1>3. PICK n \in 0..INPUT_BUF : n = Dist(w, e)
  BY <1>1, Sizes
<1>4. \A j \in 1..n : buf[InRing((e - j) % ConsUMod)] \notin LineEnds
  <2> TAKE j \in 1..n
  <2>1. InRing((e - j) % ConsUMod) = InRing(w + (n + 1 - j) - 1)
    <3>1. InRing(w + n) = InRing(e)
      BY <1>1, <1>3, Reach
    <3>2. w + n \in Int /\ (w + n) - j = w + (n + 1 - j) - 1 /\ e - j \in Int
          /\ INPUT_BUF \in Nat \ {0} /\ ConsUMod \in Nat \ {0} /\ e \in Int
      BY <1>1
    <3>3. ((w + n) - j) % INPUT_BUF = (e - j) % INPUT_BUF
      <4>1. PICK x \in Int : x = w + n
        BY <3>2
      <4>2. InRing(x) = InRing(e) /\ j \in Int /\ e \in Int
        BY <3>1, <3>2, <4>1
      <4>3. InRing(x - j) = InRing(e - j)
        BY <4>2, PlacesBack
      <4> QED BY <4>1, <4>3 DEF InRing
    <3>4. ((e - j) % ConsUMod) % INPUT_BUF = (e - j) % INPUT_BUF
      BY <3>2, ModMultiple
    <3> QED BY <3>2, <3>3, <3>4 DEF InRing
  <2>2. n + 1 - j \in 1..n /\ n \in Nat /\ w \in Int
    BY <1>1
  <2>3. Window(buf, w, n)[n + 1 - j] = buf[InRing(w + (n + 1 - j) - 1)]
    BY <2>2 DEF Window
  <2>4. Window(buf, w, n)[n + 1 - j] \notin LineEnds
    BY <1>1, <1>3, <2>2, Windows DEF ConsIndInv, OneLine
  <2> QED BY <2>1, <2>3, <2>4
<1>5. k = n
  <2>1. k <= n
    BY <1>2, <1>3 DEF Erasable
  <2>2. ~(k + 1 <= n)
    BY <1>2, <1>3, <1>4 DEF Erasable, LineEnds
  <2> QED BY <2>1, <2>2
<1> QED BY <1>1, <1>2, <1>3, <1>5, Back

(* ^U keeps the invariant. *)
LEMMA KillLineKeeps ==
  ASSUME ConsIndInv, KillLine
  PROVE  ConsIndInv'
<1> USE ConsoleAssumption
<1>1. /\ r \in 0..(ConsUMod - 1) /\ w \in 0..(ConsUMod - 1)
      /\ r' = r /\ w' = w /\ buf' = buf /\ cpc' = cpc /\ clock' = clock
      /\ e' = w /\ CTypeOK /\ InOrder
  BY KillLineAll DEF ConsIndInv, CTypeOK, KillLine
<1>2. CTypeOK'
  BY <1>1 DEF CTypeOK, KillLine
<1>3. Dist(w, w) = 0
  <2>1. Dist(w, w) = (IF w >= w THEN w - w ELSE w - w + ConsUMod)
    BY <1>1, Indices
  <2> QED BY <1>1, <2>1
<1>4. InOrder'
  <2>1. Dist(r, w) \in 0..INPUT_BUF
    BY <1>1, Sizes
  <2>2. Dist(r, w) + Dist(w, w) = Dist(r, w) /\ Dist(r, w) <= INPUT_BUF
    BY <1>3, <2>1
  <2> QED BY <1>1, <2>2 DEF InOrder, Dist
<1>5. OneLine'
  <2>1. Dist(w', e') = 0
    BY <1>1, <1>3
  <2> QED BY <2>1 DEF OneLine, Dist
<1>6. ReaderOwns' /\ SleepsForInput'
  BY <1>1 DEF ConsIndInv, ReaderOwns, SleepsForInput
<1> QED BY <1>2, <1>4, <1>5, <1>6 DEF ConsIndInv

(* A character, or the end of a line, read. *)
LEMMA ReadKeeps ==
  ASSUME ConsIndInv, r # w, UNCHANGED <<buf, w, e>>, r' = (r + 1) % ConsUMod,
         CTypeOK'
  PROVE  InOrder' /\ OneLine'
<1> USE ConsoleAssumption
<1>1. CTypeOK /\ InOrder
  BY DEF ConsIndInv
<1>2. PICK f \in 0..(ConsUMod - 1) :
        /\ f = (r + 1) % ConsUMod
        /\ Dist(f, w) = Dist(r, w) - 1 /\ Dist(f, e) = Dist(r, e) - 1
  BY <1>1, OneRead
<1>3. InOrder'
  <2>1. Dist(r, w) \in Nat /\ Dist(w, e) \in Nat /\ Dist(r, e) \in 0..INPUT_BUF
        /\ Dist(r, e) = Dist(r, w) + Dist(w, e)
    BY <1>1, Sizes
  <2>2. Dist(f, w) + Dist(w, e) = Dist(f, e) /\ Dist(f, e) <= INPUT_BUF
    BY <1>2, <2>1
  <2>3. r' = f
    BY <1>2
  <2> QED BY <2>2, <2>3 DEF InOrder, Dist
<1>4. OneLine'
  BY DEF ConsIndInv, OneLine, Between, Dist, InRing
<1> QED BY <1>3, <1>4

(* What moves only the readers keeps the order of the indices and the      *)
(* line.                                                                   *)
LEMMA RingKept ==
  ASSUME ConsIndInv, UNCHANGED cons
  PROVE  InOrder' /\ OneLine'
BY DEF ConsIndInv, cons, InOrder, OneLine, Between, Dist, InRing

(* Every step of a reader keeps the invariant. *)
LEMMA ReaderKeeps ==
  ASSUME ConsIndInv, NEW p \in Readers,
         \/ \E n \in 0..ConsMaxN : CReadCall(p, n)
         \/ CReadAcquire(p) \/ CKill(p) \/ CExited(p)
         \/ ReadZero(p) \/ CReadFail(p) \/ CReadEmpty(p) \/ CReadSleep(p)
  PROVE  ConsIndInv'
<1> USE ConsoleAssumption DEF ConsIndInv, CGoto, CReturn
<1>1. UNCHANGED cons
  BY DEF CReadCall, CReadAcquire, CKill, CExited, ReadZero, CReadFail, CReadEmpty, CReadSleep
<1>2. InOrder' /\ OneLine'
  BY <1>1, RingKept
<1>3. CASE \E n \in 0..ConsMaxN : CReadCall(p, n)
  <2>1. CTypeOK'
    BY <1>3 DEF CReadCall, CTypeOK, CLabels, cons
  <2>2. ReaderOwns'
    BY <1>3 DEF CReadCall, CTypeOK, ReaderOwns, cons
  <2>3. SleepsForInput'
    BY <1>3 DEF CReadCall, CTypeOK, SleepsForInput, cons
  <2> QED BY <1>2, <2>1, <2>2, <2>3
<1>4. CASE CReadAcquire(p)
  <2>1. CTypeOK'
    BY <1>4 DEF CReadAcquire, CTypeOK, CLabels, cons
  <2>2. ReaderOwns'
    BY <1>4 DEF CReadAcquire, CTypeOK, ReaderOwns, cons
  <2>3. SleepsForInput'
    BY <1>4 DEF CReadAcquire, CTypeOK, SleepsForInput, cons
  <2> QED BY <1>2, <2>1, <2>2, <2>3
<1>5. CASE CKill(p)
  <2>1. CTypeOK'
    BY <1>5 DEF CKill, CTypeOK, CLabels, cons
  <2>2. ReaderOwns'
    BY <1>5 DEF CKill, CTypeOK, ReaderOwns, cons
  <2>3. SleepsForInput'
    BY <1>5 DEF CKill, CTypeOK, SleepsForInput, cons
  <2> QED BY <1>2, <2>1, <2>2, <2>3
<1>6. CASE CExited(p)
  <2>1. CTypeOK'
    BY <1>6 DEF CExited, CTypeOK, CLabels, cons
  <2>2. ReaderOwns'
    BY <1>6 DEF CExited, CTypeOK, ReaderOwns, cons
  <2>3. SleepsForInput'
    BY <1>6 DEF CExited, CTypeOK, SleepsForInput, cons
  <2> QED BY <1>2, <2>1, <2>2, <2>3
<1>7. CASE ReadZero(p)
  <2>1. CTypeOK'
    BY <1>7 DEF ReadZero, CTypeOK, CLabels, cons
  <2>2. ReaderOwns'
    BY <1>7 DEF ReadZero, CTypeOK, ReaderOwns, cons
  <2>3. SleepsForInput'
    BY <1>7 DEF ReadZero, CTypeOK, SleepsForInput, cons
  <2> QED BY <1>2, <2>1, <2>2, <2>3
<1>8. CASE CReadFail(p)
  <2>1. CTypeOK'
    <3>1. /\ buf' = buf /\ r' = r /\ w' = w /\ e' = e /\ clock' = FALSE
          /\ ckilled' = ckilled
      BY <1>8 DEF CReadFail, cons
    <3>2. cpc' \in [Readers -> CLabels]
      BY <1>8 DEF CReadFail, CTypeOK, CLabels
    <3>3. ctodo' \in [Readers -> 0..ConsMaxN] /\ got' \in [Readers -> BOOLEAN]
      BY <1>8 DEF CReadFail, CTypeOK
    <3> QED BY <3>1, <3>2, <3>3 DEF CTypeOK
  <2>2. ReaderOwns'
    BY <1>8 DEF CReadFail, CTypeOK, ReaderOwns, cons
  <2>3. SleepsForInput'
    BY <1>8 DEF CReadFail, CTypeOK, SleepsForInput, cons
  <2> QED BY <1>2, <2>1, <2>2, <2>3
<1>9. CASE CReadEmpty(p)
  <2>1. CTypeOK'
    BY <1>9 DEF CReadEmpty, CTypeOK, CLabels, cons
  <2>2. ReaderOwns'
    BY <1>9 DEF CReadEmpty, CTypeOK, ReaderOwns, cons
  <2>3. SleepsForInput'
    BY <1>9 DEF CReadEmpty, CTypeOK, SleepsForInput, cons
  <2> QED BY <1>2, <2>1, <2>2, <2>3
<1>10. CASE CReadSleep(p)
  <2>1. CTypeOK'
    BY <1>10 DEF CReadSleep, CTypeOK, CLabels, cons
  <2>2. ReaderOwns'
    BY <1>10 DEF CReadSleep, CTypeOK, ReaderOwns, cons
  <2>3. SleepsForInput'
    BY <1>10 DEF CReadSleep, CTypeOK, SleepsForInput, cons
  <2> QED BY <1>2, <2>1, <2>2, <2>3
<1> QED BY <1>3, <1>4, <1>5, <1>6, <1>7, <1>8, <1>9, <1>10

(* ReadEof and ReadChar keep it: whoever else was about to sleep would     *)
(* own cons.lock, and who sleeps had been woken.                           *)
LEMMA TakerKeeps ==
  ASSUME ConsIndInv, NEW p \in Readers,
         ReadEof(p) \/ \E ok \in BOOLEAN : ReadChar(p, ok)
  PROVE  ConsIndInv'
<1> USE ConsoleAssumption
<1>1. r \in 0..(ConsUMod - 1) /\ (r + 1) % ConsUMod \in 0..(ConsUMod - 1)
  <2>1. r + 1 \in Int /\ ConsUMod \in Nat \ {0}
    BY DEF ConsIndInv, CTypeOK
  <2> QED BY <2>1, ModDef DEF ConsIndInv, CTypeOK
<1>2. /\ cpc[p] = "loop" /\ r # w /\ UNCHANGED <<buf, w, e, ckilled>>
      /\ r' \in {r, (r + 1) % ConsUMod} /\ ctodo[p] > 0
      /\ \/ clock' = FALSE /\ cpc' = [cpc EXCEPT ![p] = "user"]
            /\ ctodo' = [ctodo EXCEPT ![p] = 0] /\ got' = [got EXCEPT ![p] = FALSE]
         \/ UNCHANGED <<clock, cpc>>
            /\ ctodo' = [ctodo EXCEPT ![p] = @ - 1] /\ got' = [got EXCEPT ![p] = TRUE]
  BY DEF ReadEof, ReadChar, CReturn, CGoto
<1>3. CTypeOK'
  <2>1. /\ buf' \in [0..(INPUT_BUF - 1) -> Char]
        /\ r' \in 0..(ConsUMod - 1) /\ w' \in 0..(ConsUMod - 1) /\ e' \in 0..(ConsUMod - 1)
        /\ ckilled' \in [Readers -> BOOLEAN]
    BY <1>1, <1>2 DEF ConsIndInv, CTypeOK
  <2>2. clock' \in BOOLEAN
    BY <1>2 DEF ConsIndInv, CTypeOK
  <2>3. cpc' \in [Readers -> CLabels]
    BY <1>2 DEF ConsIndInv, CTypeOK, CLabels
  <2>4. ctodo' \in [Readers -> 0..ConsMaxN]
    <3>1. ctodo[p] \in 0..ConsMaxN /\ ctodo[p] - 1 \in 0..ConsMaxN
      BY <1>2 DEF ConsIndInv, CTypeOK
    <3> QED BY <1>2, <3>1 DEF ConsIndInv, CTypeOK
  <2>5. got' \in [Readers -> BOOLEAN]
    BY <1>2 DEF ConsIndInv, CTypeOK
  <2> QED BY <2>1, <2>2, <2>3, <2>4, <2>5 DEF CTypeOK
<1>4. InOrder' /\ OneLine'
  <2>1. CASE r' = r
    BY <1>2, <2>1, RingKept DEF cons
  <2>2. CASE r' = (r + 1) % ConsUMod
    BY <1>2, <1>3, <2>2, ReadKeeps
  <2> QED BY <1>2, <2>1, <2>2
<1>5. ReaderOwns'
  <2>1. \A q \in Readers : q # p => cpc[q] \notin {"loop", "empty"} /\ cpc'[q] = cpc[q]
    BY <1>2 DEF ConsIndInv, CTypeOK, ReaderOwns
  <2>2. cpc'[p] = "user" \/ (cpc' = cpc /\ clock' = clock)
    BY <1>2 DEF ConsIndInv, CTypeOK
  <2>3. CASE cpc'[p] = "user"
    BY <2>1, <2>3 DEF ReaderOwns
  <2>4. CASE cpc' = cpc /\ clock' = clock
    BY <2>4 DEF ConsIndInv, ReaderOwns
  <2> QED BY <2>2, <2>3, <2>4
<1>6. SleepsForInput'
  <2>1. \A q \in Readers : cpc[q] \notin {"empty", "asleep"}
    BY <1>2 DEF ConsIndInv, SleepsForInput
  <2> QED BY <1>2, <2>1 DEF ConsIndInv, CTypeOK, SleepsForInput
<1> QED BY <1>3, <1>4, <1>5, <1>6 DEF ConsIndInv

(* The invariant of the console holds in every reachable state. *)
THEOREM ConsoleInvariance == CSpec => []ConsIndInv
<1>1. CInit => ConsIndInv
  <2> SUFFICES ASSUME CInit PROVE ConsIndInv
    OBVIOUS
  <2>1. 0 \in 0..(ConsUMod - 1)
    BY ConsoleAssumption
  <2>2. Dist(0, 0) = 0
    <3>1. Dist(0, 0) = (IF 0 >= 0 THEN 0 - 0 ELSE 0 - 0 + ConsUMod)
      BY <2>1, Indices
    <3> QED BY <3>1
  <2>3. CTypeOK
    <3>1. 0 \in 0..ConsMaxN
      BY ConsoleAssumption
    <3>2. /\ cpc \in [Readers -> CLabels] /\ ckilled \in [Readers -> BOOLEAN]
          /\ got \in [Readers -> BOOLEAN] /\ clock \in BOOLEAN
      BY DEF CInit, CLabels
    <3>3. buf \in [0..(INPUT_BUF - 1) -> Char] /\ ctodo \in [Readers -> 0..ConsMaxN]
      BY <3>1 DEF CInit, Char
    <3> QED BY <2>1, <3>2, <3>3 DEF CInit, CTypeOK
  <2>4. InOrder /\ OneLine
    BY <2>2, ConsoleAssumption DEF CInit, InOrder, OneLine
  <2>5. ReaderOwns /\ SleepsForInput
    BY DEF CInit, ReaderOwns, SleepsForInput
  <2> QED BY <2>3, <2>4, <2>5 DEF ConsIndInv
<1>2. ConsIndInv /\ [CNext]_cvars => ConsIndInv'
  <2> SUFFICES ASSUME ConsIndInv, [CNext]_cvars PROVE ConsIndInv'
    OBVIOUS
  <2>1. CASE \E c \in Char : Store(c)
    BY <2>1, StoreKeeps
  <2>2. CASE Backspace
    BY <2>2, BackspaceKeeps
  <2>3. CASE KillLine
    BY <2>3, KillLineKeeps
  <2>4. CASE Ignore \/ UNCHANGED cvars
    <3>1. UNCHANGED cvars
      BY <2>4 DEF Ignore
    <3>2. InOrder' /\ OneLine'
      BY <3>1, RingKept DEF cvars, cons
    <3> QED BY <3>1, <3>2 DEF ConsIndInv, cvars, CTypeOK, ReaderOwns, SleepsForInput
  <2>5. CASE \E p \in Readers :
               \/ \E n \in 0..ConsMaxN : CReadCall(p, n)
               \/ CReadAcquire(p) \/ CInside(p) \/ CKill(p) \/ CExited(p)
    BY <2>5, ReaderKeeps, TakerKeeps DEF CInside
  <2> QED BY <2>1, <2>2, <2>3, <2>4, <2>5 DEF CNext
<1> QED BY <1>1, <1>2, PTL DEF CSpec

(* consoleread(): nobody sleeps, or is about to, while there is input.     *)
THEOREM NobodyWaitsOnInput == CSpec => []SleepsForInput
<1>1. ConsIndInv => SleepsForInput
  BY DEF ConsIndInv
<1> QED BY <1>1, ConsoleInvariance, PTL

-----------------------------------------------------------------------------
(* The refinement of LineDiscipline, step by step.  A stored character is  *)
(* typed; at the end of the line, or when it fills the ring, the line is   *)
(* handed over.                                                            *)
LEMMA StoreTypes ==
  ASSUME ConsIndInv, ConsIndInv', NEW c \in Char, Store(c)
  PROVE  Line!Typed(c)
<1> USE ConsoleAssumption
<1>1. /\ r \in 0..(ConsUMod - 1) /\ w \in 0..(ConsUMod - 1) /\ e \in 0..(ConsUMod - 1)
      /\ r' = r /\ Dist(r, e) < INPUT_BUF /\ CTypeOK /\ InOrder /\ CTypeOK' /\ buf \in Rings
  BY DEF ConsIndInv, CTypeOK, Store, Rings
<1>2. PICK f \in 0..(ConsUMod - 1) :
        /\ f = (e + 1) % ConsUMod
        /\ Dist(r, f) = Dist(r, e) + 1 /\ Dist(w, f) = Dist(w, e) + 1 /\ Dist(f, f) = 0
        /\ f = (r + INPUT_BUF) % ConsUMod <=> Dist(r, e) + 1 = INPUT_BUF
  BY <1>1, OneMore
<1> DEFINE m == Dist(r, w)
           n == Dist(w, e)
           ready == Window(buf, r, m)
           line == Window(buf', w, n + 1)
<1>3. m \in Nat /\ n \in Nat /\ Dist(r, e) = m + n
  BY <1>1, Sizes
<1>4. /\ Between(r, w) = ready /\ Between(w, e) = Window(buf, w, n)
      /\ Between(r, w)' = Window(buf', r', Dist(r', w'))
      /\ Between(w, e)' = Window(buf', w', Dist(w', e'))
  BY <1>1, Windows, WindowsAfter
<1>5. buf' \in Rings /\ Window(buf', r, m) = ready /\ line = Append(Between(w, e), c)
  BY <1>4, StoreWindows
<1>6. Len(ready) = m /\ Len(line) = n + 1
  <2>1. n + 1 \in Nat /\ r \in Int /\ w \in Int
    BY <1>1, <1>3
  <2> HIDE DEF m, n
  <2>2. Len(ready) = m
    BY <1>1, <1>3, <2>1, WindowSeq
  <2>3. Len(line) = n + 1
    BY <1>5, <2>1, WindowSeq
  <2> QED BY <2>2, <2>3
<1>7. e' = f
  BY <1>2 DEF Store
<1>8. CASE c \in LineEnds \/ Dist(r, e) + 1 = INPUT_BUF
  <2>1. w' = f
    BY <1>2, <1>8 DEF Store
  <2>2. Between(w, e)' = << >>
    <3>1. Dist(w', e') = 0
      BY <1>2, <1>7, <2>1
    <3> QED BY <1>4, <3>1 DEF Window
  <2>3. Between(r, w)' = ready \o line
    <3>1. Dist(r', w') = m + (n + 1)
      BY <1>1, <1>2, <1>3, <2>1
    <3>2. PICK i \in Nat, k \in Nat, l \in Nat : i = m /\ k = n + 1 /\ l = i + k
      BY <1>3
    <3>3. buf' \in Rings /\ r \in Int /\ w \in Int
      BY <1>1, <1>5
    <3>4. InRing(r + i) = InRing(w)
      BY <1>1, <3>2, Reach
    <3>5. Join(buf', r, i, w, k, l)
      BY <3>2, <3>3, <3>4, WindowsMeet
    <3> QED BY <1>1, <1>4, <1>5, <3>1, <3>2, <3>5 DEF Join
  <2>4. Len(ready) + Len(line) <= INPUT_BUF /\ (c \in LineEnds \/ Len(ready) + Len(line) = INPUT_BUF)
    BY <1>1, <1>3, <1>6, <1>8
  <2> QED BY <1>4, <1>5, <2>2, <2>3, <2>4 DEF Line!Typed
<1>9. CASE ~(c \in LineEnds \/ Dist(r, e) + 1 = INPUT_BUF)
  <2>1. w' = w
    BY <1>2, <1>9 DEF Store
  <2>2. Between(w, e)' = line
    BY <1>2, <1>4, <1>7, <2>1
  <2>3. Between(r, w)' = ready
    BY <1>1, <1>4, <1>5, <2>1
  <2>4. /\ Len(ready) + Len(line) <= INPUT_BUF
        /\ ~(c \in LineEnds \/ Len(ready) + Len(line) = INPUT_BUF)
    BY <1>1, <1>3, <1>6, <1>9
  <2> QED BY <1>4, <1>5, <2>2, <2>3, <2>4 DEF Line!Typed
<1> QED BY <1>8, <1>9

(* A backspace erases the last character of the line. *)
LEMMA BackspaceErases ==
  ASSUME ConsIndInv, ConsIndInv', Backspace
  PROVE  Line!EraseLast
<1> USE ConsoleAssumption
<1>1. /\ r' = r /\ w' = w /\ buf' = buf /\ w # e /\ w \in Int /\ buf \in Rings
      /\ CTypeOK /\ InOrder /\ CTypeOK'
  BY DEF ConsIndInv, CTypeOK, Backspace, Rings
<1>2. PICK f \in 0..(ConsUMod - 1) :
        /\ f = (e - 1) % ConsUMod
        /\ Dist(r, f) = Dist(r, e) - 1 /\ Dist(w, f) = Dist(w, e) - 1
  BY <1>1, OneErased
<1>3. e' = f
  BY <1>2 DEF Backspace
<1> DEFINE n == Dist(w, e)
<1>4. n \in Nat \ {0}
  BY <1>1, Sizes
<1>5. /\ Between(w, e) = Window(buf, w, n)
      /\ Between(w, e)' = Window(buf, w, n - 1)
      /\ Between(r, w)' = Between(r, w)
  BY <1>1, <1>2, <1>3, Windows, WindowsAfter
<1> HIDE DEF n
<1>6. /\ Window(buf, w, n) # << >>
      /\ Window(buf, w, n - 1) = SubSeq(Window(buf, w, n), 1, Len(Window(buf, w, n)) - 1)
  BY <1>1, <1>4, WindowLess
<1> QED BY <1>5, <1>6 DEF Line!EraseLast

(* ^U erases the line. *)
LEMMA KillLineErases ==
  ASSUME ConsIndInv, ConsIndInv', KillLine
  PROVE  Line!EraseLine
<1> USE ConsoleAssumption
<1>1. /\ w \in 0..(ConsUMod - 1) /\ r' = r /\ w' = w /\ buf' = buf /\ e' = w
      /\ CTypeOK /\ CTypeOK'
  BY KillLineAll DEF ConsIndInv, CTypeOK, KillLine
<1>2. Dist(w, w) = 0
  <2>1. Dist(w, w) = (IF w >= w THEN w - w ELSE w - w + ConsUMod)
    BY <1>1, Indices
  <2> QED BY <1>1, <2>1
<1>3. Between(w, e)' = << >>
  <2>1. Between(w, e)' = Window(buf', w', Dist(w', e'))
    BY <1>1, WindowsAfter
  <2>2. Dist(w', e') = 0
    BY <1>1, <1>2
  <2> QED BY <2>1, <2>2 DEF Window
<1>4. Between(r, w)' = Between(r, w)
  BY <1>1, Windows, WindowsAfter
<1> QED BY <1>3, <1>4 DEF Line!EraseLine

(* A character or an end of file read is taken from what was handed over. *)
LEMMA ReadTakes ==
  ASSUME ConsIndInv, ConsIndInv', r # w, UNCHANGED <<buf, w, e>>, r' = (r + 1) % ConsUMod
  PROVE  Line!Taken
<1> USE ConsoleAssumption
<1>1. /\ r \in 0..(ConsUMod - 1) /\ buf \in Rings
      /\ CTypeOK /\ InOrder /\ CTypeOK'
  BY DEF ConsIndInv, CTypeOK, Rings
<1>2. PICK f \in 0..(ConsUMod - 1) :
        /\ f = (r + 1) % ConsUMod
        /\ Dist(f, w) = Dist(r, w) - 1 /\ Dist(f, e) = Dist(r, e) - 1
  BY <1>1, OneRead
<1> DEFINE n == Dist(r, w)
<1>3. n \in Nat \ {0}
  BY <1>1, Sizes
<1>4. /\ Between(r, w) = Window(buf, r, n)
      /\ Between(r, w)' = Window(buf, f, n - 1)
      /\ Between(w, e)' = Between(w, e)
  BY <1>1, <1>2, Windows, WindowsAfter
<1> HIDE DEF n
<1>5. Window(buf, f, n - 1) = Window(buf, r + 1, n - 1)
  <2>1. InRing(f) = InRing(r + 1)
    <3>1. r + 1 \in Int /\ INPUT_BUF \in Nat \ {0} /\ ConsUMod \in Nat \ {0}
      BY <1>1
    <3>2. ((r + 1) % ConsUMod) % INPUT_BUF = (r + 1) % INPUT_BUF
      BY <3>1, ModMultiple
    <3> QED BY <1>2, <3>2 DEF InRing
  <2>2. f \in Int /\ r + 1 \in Int /\ n - 1 \in Nat
    BY <1>1, <1>3
  <2> QED BY <2>1, <2>2, WindowSame
<1>6. Window(buf, r, n) # << >> /\ Window(buf, r + 1, n - 1) = Tail(Window(buf, r, n))
  <2>1. r \in Int /\ buf \in Rings
    BY <1>1
  <2>2. Window(buf, r, n) # << >>
    BY <1>3, <2>1, WindowLess
  <2>3. Window(buf, r + 1, n - 1) = Tail(Window(buf, r, n))
    BY <1>3, <2>1, WindowLess
  <2> QED BY <2>2, <2>3
<1> QED BY <1>4, <1>5, <1>6 DEF Line!Taken

(* Steps that leave the ring alone are invisible. *)
LEMMA ConsStutters ==
  ASSUME UNCHANGED cons
  PROVE  UNCHANGED <<Between(r, w), Between(w, e)>>
BY DEF cons, Between, Dist, InRing

(* consoleintr() and consoleread() implement a line discipline: editing    *)
(* never reaches what was handed over, ^U removes the whole line, no       *)
(* character is lost, duplicated or reordered on its way to the readers,   *)
(* and a ^D put back is read again.                                        *)
THEOREM ConsoleRefinement == CSpec => ImplementsLineDiscipline
<1>1. CInit => Line!LInit
  <2> SUFFICES ASSUME CInit PROVE Line!LInit
    OBVIOUS
  <2>1. 0 \in 0..(ConsUMod - 1)
    BY ConsoleAssumption
  <2>2. Dist(0, 0) = 0
    <3>1. Dist(0, 0) = (IF 0 >= 0 THEN 0 - 0 ELSE 0 - 0 + ConsUMod)
      BY <2>1, Indices
    <3> QED BY <3>1
  <2> QED BY <2>2 DEF CInit, Line!LInit, Between
<1>2. ASSUME ConsIndInv, ConsIndInv', [CNext]_cvars
      PROVE  [Line!LNext]_<<Between(r, w), Between(w, e)>>
  <2>1. CASE \E c \in Char : Store(c)
    BY <1>2, <2>1, StoreTypes DEF Line!LNext
  <2>2. CASE Backspace
    BY <1>2, <2>2, BackspaceErases DEF Line!LNext
  <2>3. CASE KillLine
    BY <1>2, <2>3, KillLineErases DEF Line!LNext
  <2>4. CASE Ignore \/ UNCHANGED cvars
    BY <2>4, ConsStutters DEF Ignore, cvars, cons
  <2>5. ASSUME NEW p \in Readers,
               \/ \E n \in 0..ConsMaxN : CReadCall(p, n)
               \/ CReadAcquire(p) \/ CInside(p) \/ CKill(p) \/ CExited(p)
        PROVE  [Line!LNext]_<<Between(r, w), Between(w, e)>>
    <3>1. CASE ReadEof(p) \/ \E ok \in BOOLEAN : ReadChar(p, ok)
      <4>1. r # w /\ UNCHANGED <<buf, w, e>> /\ r' \in {r, (r + 1) % ConsUMod}
        BY <3>1 DEF ReadEof, ReadChar
      <4>2. CASE r' = r
        BY <4>1, <4>2, ConsStutters DEF cons
      <4>3. CASE r' = (r + 1) % ConsUMod
        BY <1>2, <4>1, <4>3, ReadTakes DEF Line!LNext
      <4> QED BY <4>1, <4>2, <4>3
    <3>2. CASE ~(ReadEof(p) \/ \E ok \in BOOLEAN : ReadChar(p, ok))
      <4>1. UNCHANGED cons
        BY <2>5, <3>2 DEF CInside, CReadCall, CReadAcquire, CKill, CExited, ReadZero, CReadFail,
                          CReadEmpty, CReadSleep
      <4> QED BY <4>1, ConsStutters
    <3> QED BY <3>1, <3>2
  <2> QED BY <1>2, <2>1, <2>2, <2>3, <2>4, <2>5 DEF CNext
<1> QED
  BY <1>1, <1>2, ConsoleInvariance, PTL DEF CSpec, ImplementsLineDiscipline, Line!LSpec, Line!lvars
===============================================================================
