---------------------------- MODULE Devices_proof ----------------------------
(***************************************************************************)
(* The two disk drivers, for every number of processes, sectors and values *)
(* and every ring size that divides the width of the rings' indices; and   *)
(* the start of the k210 board, for any pads in any state, any bounds of   *)
(* the retry loops and any number of lost commands and answers.            *)
(***************************************************************************)
EXTENDS Disk, Board, Modular


-----------------------------------------------------------------------------
(* The SD card: each action of the driver, of the DMA controller and of    *)
(* the card keeps SdIndInv.                                                *)
NoPanic == \A q \in SdProcs : pc[q] # "panic"

(* sdcard_init() leaves the lock free and the channel idle. *)
LEMMA SdInit == Sd!Init => Sd!SdIndInv
<1> SUFFICES ASSUME Sd!Init PROVE Sd!SdIndInv
  OBVIOUS
<1>1. Sd!TypeOK
  BY DEF Sd!Init, Sd!TypeOK, Sd!Labels
<1>2. Sd!LockOwner /\ Sd!OwnTransfer /\ Sd!Progress
  BY DiskProcsAssumption
     DEF Sd!Init, Sd!LockOwner, Sd!OwnTransfer, Sd!Progress, Sd!WithLock, Sd!Waiting
<1> QED BY <1>1, <1>2 DEF Sd!SdIndInv

(* Every step keeps the types. *)
LEMMA SdTypes ==
  ASSUME Sd!TypeOK, Sd!Next
  PROVE  Sd!TypeOK'
<1> USE DEF Sd!TypeOK, Sd!Labels, Sd!Goto, Sd!call
<1>1. ASSUME NEW p \in SdProcs, NEW o \in {"read", "write"}, NEW s \in Sector, NEW v \in Val,
             Sd!Call(p, o, s, v)
      PROVE  Sd!TypeOK'
  BY <1>1 DEF Sd!Call
<1>2. ASSUME NEW p \in SdProcs, Sd!Lock(p) PROVE Sd!TypeOK'
  BY <1>2 DEF Sd!Lock
<1>3. ASSUME NEW p \in SdProcs, Sd!CommandFails(p) PROVE Sd!TypeOK'
  BY <1>3 DEF Sd!CommandFails
<1>4. ASSUME NEW p \in SdProcs, Sd!TokenTimeout(p) PROVE Sd!TypeOK'
  BY <1>4 DEF Sd!TokenTimeout
<1>5. ASSUME NEW p \in SdProcs, Sd!StartDma(p) PROVE Sd!TypeOK'
  BY <1>5 DEF Sd!StartDma
<1>6. ASSUME NEW p \in SdProcs, Sd!TestIdle(p) PROVE Sd!TypeOK'
  BY <1>6 DEF Sd!TestIdle
<1>7. ASSUME NEW p \in SdProcs, Sd!Sleep(p) PROVE Sd!TypeOK'
  BY <1>7 DEF Sd!Sleep
<1>8. ASSUME NEW p \in SdProcs, Sd!ReadDone(p) PROVE Sd!TypeOK'
  BY <1>8 DEF Sd!ReadDone
<1>9. ASSUME NEW p \in SdProcs, Sd!WriteSent(p) PROVE Sd!TypeOK'
  BY <1>9 DEF Sd!WriteSent
<1>10. ASSUME NEW p \in SdProcs, Sd!WriteDone(p) PROVE Sd!TypeOK'
  BY <1>10 DEF Sd!WriteDone
<1>11. ASSUME NEW p \in SdProcs, Sd!WriteFails(p) PROVE Sd!TypeOK'
  BY <1>11 DEF Sd!WriteFails
<1>12. ASSUME NEW p \in SdProcs, Sd!Unlock(p) PROVE Sd!TypeOK'
  BY <1>12 DEF Sd!Unlock
<1>13. ASSUME NEW p \in SdProcs, Sd!KillWakes(p) PROVE Sd!TypeOK'
  BY <1>13 DEF Sd!KillWakes
<1>14. CASE Sd!DmaFinish
  BY <1>14 DEF Sd!DmaFinish
<1>15. CASE Sd!DmacIntr
  BY <1>15 DEF Sd!DmacIntr
<1>16. CASE Sd!Programmed
  BY <1>16 DEF Sd!Programmed
<1> QED BY <1>1, <1>2, <1>3, <1>4, <1>5, <1>6, <1>7, <1>8, <1>9, <1>10,
             <1>11, <1>12, <1>13, <1>14, <1>15, <1>16
            DEF Sd!Next, Sd!Inside

(* A panicked hart stays in panic()'s loop.                                *)
LEMMA SdPanics ==
  ASSUME Sd!TypeOK, Sd!Next, NoPanic'
  PROVE  NoPanic
<1> USE DEF Sd!TypeOK, NoPanic, Sd!Goto, Sd!call
<1>1. ASSUME NEW p \in SdProcs, NEW o \in {"read", "write"}, NEW s \in Sector, NEW v \in Val,
             Sd!Call(p, o, s, v)
      PROVE  NoPanic
  BY <1>1 DEF Sd!Call
<1>2. ASSUME NEW p \in SdProcs, Sd!Lock(p) PROVE NoPanic
  BY <1>2 DEF Sd!Lock
<1>3. ASSUME NEW p \in SdProcs, Sd!CommandFails(p) PROVE NoPanic
  BY <1>3 DEF Sd!CommandFails
<1>4. ASSUME NEW p \in SdProcs, Sd!TokenTimeout(p) PROVE NoPanic
  BY <1>4 DEF Sd!TokenTimeout
<1>5. ASSUME NEW p \in SdProcs, Sd!StartDma(p) PROVE NoPanic
  BY <1>5 DEF Sd!StartDma
<1>6. ASSUME NEW p \in SdProcs, Sd!TestIdle(p) PROVE NoPanic
  BY <1>6 DEF Sd!TestIdle
<1>7. ASSUME NEW p \in SdProcs, Sd!Sleep(p) PROVE NoPanic
  BY <1>7 DEF Sd!Sleep
<1>8. ASSUME NEW p \in SdProcs, Sd!ReadDone(p) PROVE NoPanic
  BY <1>8 DEF Sd!ReadDone
<1>9. ASSUME NEW p \in SdProcs, Sd!WriteSent(p) PROVE NoPanic
  BY <1>9 DEF Sd!WriteSent
<1>10. ASSUME NEW p \in SdProcs, Sd!WriteDone(p) PROVE NoPanic
  BY <1>10 DEF Sd!WriteDone
<1>11. ASSUME NEW p \in SdProcs, Sd!WriteFails(p) PROVE NoPanic
  BY <1>11 DEF Sd!WriteFails
<1>12. ASSUME NEW p \in SdProcs, Sd!Unlock(p) PROVE NoPanic
  BY <1>12 DEF Sd!Unlock
<1>13. ASSUME NEW p \in SdProcs, Sd!KillWakes(p) PROVE NoPanic
  BY <1>13 DEF Sd!KillWakes
<1>14. CASE Sd!DmaFinish
  BY <1>14 DEF Sd!DmaFinish
<1>15. CASE Sd!DmacIntr
  BY <1>15 DEF Sd!DmacIntr
<1>16. CASE Sd!Programmed
  BY <1>16 DEF Sd!Programmed
<1> QED BY <1>1, <1>2, <1>3, <1>4, <1>5, <1>6, <1>7, <1>8, <1>9, <1>10,
             <1>11, <1>12, <1>13, <1>14, <1>15, <1>16
            DEF Sd!Next, Sd!Inside

(* The lock is the caller's from the command on.                           *)
LEMMA SdLocked ==
  ASSUME Sd!TypeOK, Sd!LockOwner, Sd!Next, NoPanic'
  PROVE  Sd!LockOwner'
<1> USE DiskProcsAssumption DEF Sd!TypeOK, Sd!LockOwner, Sd!WithLock, NoPanic, Sd!Goto, Sd!call
<1>1. ASSUME NEW p \in SdProcs, NEW o \in {"read", "write"}, NEW s \in Sector, NEW v \in Val,
             Sd!Call(p, o, s, v)
      PROVE  Sd!LockOwner'
  BY <1>1 DEF Sd!Call
<1>2. ASSUME NEW p \in SdProcs, Sd!Lock(p) PROVE Sd!LockOwner'
  BY <1>2 DEF Sd!Lock
<1>3. ASSUME NEW p \in SdProcs, Sd!CommandFails(p) PROVE Sd!LockOwner'
  BY <1>3 DEF Sd!CommandFails
<1>4. ASSUME NEW p \in SdProcs, Sd!TokenTimeout(p) PROVE Sd!LockOwner'
  BY <1>4 DEF Sd!TokenTimeout
<1>5. ASSUME NEW p \in SdProcs, Sd!StartDma(p) PROVE Sd!LockOwner'
  BY <1>5 DEF Sd!StartDma
<1>6. ASSUME NEW p \in SdProcs, Sd!TestIdle(p) PROVE Sd!LockOwner'
  BY <1>6 DEF Sd!TestIdle
<1>7. ASSUME NEW p \in SdProcs, Sd!Sleep(p) PROVE Sd!LockOwner'
  BY <1>7 DEF Sd!Sleep
<1>8. ASSUME NEW p \in SdProcs, Sd!ReadDone(p) PROVE Sd!LockOwner'
  BY <1>8 DEF Sd!ReadDone
<1>9. ASSUME NEW p \in SdProcs, Sd!WriteSent(p) PROVE Sd!LockOwner'
  BY <1>9 DEF Sd!WriteSent
<1>10. ASSUME NEW p \in SdProcs, Sd!WriteDone(p) PROVE Sd!LockOwner'
  BY <1>10 DEF Sd!WriteDone
<1>11. ASSUME NEW p \in SdProcs, Sd!WriteFails(p) PROVE Sd!LockOwner'
  BY <1>11 DEF Sd!WriteFails
<1>12. ASSUME NEW p \in SdProcs, Sd!Unlock(p) PROVE Sd!LockOwner'
  BY <1>12 DEF Sd!Unlock
<1>13. ASSUME NEW p \in SdProcs, Sd!KillWakes(p) PROVE Sd!LockOwner'
  BY <1>13 DEF Sd!KillWakes
<1>14. CASE Sd!DmaFinish
  BY <1>14 DEF Sd!DmaFinish
<1>15. CASE Sd!DmacIntr
  BY <1>15 DEF Sd!DmacIntr
<1>16. CASE Sd!Programmed
  BY <1>16 DEF Sd!Programmed
<1> QED BY <1>1, <1>2, <1>3, <1>4, <1>5, <1>6, <1>7, <1>8, <1>9, <1>10,
             <1>11, <1>12, <1>13, <1>14, <1>15, <1>16
            DEF Sd!Next, Sd!Inside

(* The channel and the card work for the caller that has the lock, and     *)
(* what they moved is what it asked for.                                   *)
LEMMA SdTransfers ==
  ASSUME Sd!TypeOK, Sd!LockOwner, Sd!OwnTransfer, Sd!Progress, Sd!Next, NoPanic'
  PROVE  Sd!OwnTransfer' /\ Sd!Progress'
<1> USE DiskProcsAssumption DEF Sd!TypeOK, Sd!LockOwner, Sd!OwnTransfer, Sd!Progress, Sd!WithLock,
        Sd!Waiting, Sd!Arrived, NoPanic, Sd!Goto, Sd!call
<1>1. ASSUME NEW p \in SdProcs, NEW o \in {"read", "write"}, NEW s \in Sector, NEW v \in Val,
             Sd!Call(p, o, s, v)
      PROVE  Sd!OwnTransfer' /\ Sd!Progress'
  BY <1>1 DEF Sd!Call
<1>2. ASSUME NEW p \in SdProcs, Sd!Lock(p) PROVE Sd!OwnTransfer' /\ Sd!Progress'
  BY <1>2 DEF Sd!Lock
<1>3. ASSUME NEW p \in SdProcs, Sd!CommandFails(p) PROVE Sd!OwnTransfer' /\ Sd!Progress'
  BY <1>3 DEF Sd!CommandFails
<1>4. ASSUME NEW p \in SdProcs, Sd!TokenTimeout(p) PROVE Sd!OwnTransfer' /\ Sd!Progress'
  BY <1>4 DEF Sd!TokenTimeout
<1>5. ASSUME NEW p \in SdProcs, Sd!StartDma(p) PROVE Sd!OwnTransfer' /\ Sd!Progress'
  BY <1>5 DEF Sd!StartDma
<1>6. ASSUME NEW p \in SdProcs, Sd!TestIdle(p) PROVE Sd!OwnTransfer' /\ Sd!Progress'
  BY <1>6 DEF Sd!TestIdle
<1>7. ASSUME NEW p \in SdProcs, Sd!Sleep(p) PROVE Sd!OwnTransfer' /\ Sd!Progress'
  BY <1>7 DEF Sd!Sleep
<1>8. ASSUME NEW p \in SdProcs, Sd!ReadDone(p) PROVE Sd!OwnTransfer' /\ Sd!Progress'
  BY <1>8 DEF Sd!ReadDone
<1>9. ASSUME NEW p \in SdProcs, Sd!WriteSent(p) PROVE Sd!OwnTransfer' /\ Sd!Progress'
  BY <1>9 DEF Sd!WriteSent
<1>10. ASSUME NEW p \in SdProcs, Sd!WriteDone(p) PROVE Sd!OwnTransfer' /\ Sd!Progress'
  BY <1>10 DEF Sd!WriteDone
<1>11. ASSUME NEW p \in SdProcs, Sd!WriteFails(p) PROVE Sd!OwnTransfer' /\ Sd!Progress'
  BY <1>11 DEF Sd!WriteFails
<1>12. ASSUME NEW p \in SdProcs, Sd!Unlock(p) PROVE Sd!OwnTransfer' /\ Sd!Progress'
  BY <1>12 DEF Sd!Unlock
<1>13. ASSUME NEW p \in SdProcs, Sd!KillWakes(p) PROVE Sd!OwnTransfer' /\ Sd!Progress'
  BY <1>13 DEF Sd!KillWakes
<1>14. CASE Sd!DmaFinish
  BY <1>14 DEF Sd!DmaFinish
<1>15. CASE Sd!DmacIntr
  BY <1>15 DEF Sd!DmacIntr
<1>16. CASE Sd!Programmed
  BY <1>16 DEF Sd!Programmed
<1> QED BY <1>1, <1>2, <1>3, <1>4, <1>5, <1>6, <1>7, <1>8, <1>9, <1>10,
             <1>11, <1>12, <1>13, <1>14, <1>15, <1>16
            DEF Sd!Next, Sd!Inside

(* The steps of the card keep the whole invariant, unless somebody panicked. *)
LEMMA SdStep ==
  ASSUME Sd!SdIndInv, Sd!Next
  PROVE  Sd!SdIndInv'
<1>1. Sd!TypeOK /\ Sd!TypeOK'
  BY SdTypes DEF Sd!SdIndInv
<1>2. ASSUME NoPanic' PROVE Sd!LockOwner' /\ Sd!OwnTransfer' /\ Sd!Progress'
  <2>1. Sd!LockOwner /\ Sd!OwnTransfer /\ Sd!Progress
    <3>1. NoPanic
      BY <1>1, <1>2, SdPanics
    <3> QED BY <3>1 DEF Sd!SdIndInv, NoPanic
  <2>2. Sd!LockOwner'
    BY <1>1, <1>2, <2>1, SdLocked
  <2>3. Sd!OwnTransfer' /\ Sd!Progress'
    BY <1>1, <1>2, <2>1, SdTransfers
  <2> QED BY <2>2, <2>3
<1> QED BY <1>1, <1>2 DEF Sd!SdIndInv, NoPanic

-----------------------------------------------------------------------------
(* The virtio disk.  The descriptors alloc3_desc() takes.                  *)
LEMMA VdLowest ==
  ASSUME NEW S \in SUBSET Vd!Desc, S # {}
  PROVE  Vd!Lowest(S) \in S
<1>1. S \in SUBSET Nat
  BY DiskAssumption DEF Vd!Desc
<1>2. \E i \in S : \A j \in S : i <= j
  BY <1>1, Least
<1> QED BY <1>2 DEF Vd!Lowest

(* The descriptors and their sets are finite. *)
LEMMA VdFinite ==
  /\ IsFiniteSet(Vd!Desc)
  /\ \A S \in SUBSET Vd!Desc : IsFiniteSet(S) /\ Cardinality(S) \in Nat
<1>1. IsFiniteSet(Vd!Desc)
  BY DiskAssumption, FS_Interval DEF Vd!Desc
<1> QED BY <1>1, FS_Subset, FS_CardinalityType

(* A set has at least as many descriptors as a part of it. *)
LEMMA VdSmaller ==
  ASSUME NEW S \in SUBSET Vd!Desc, NEW T \in SUBSET S
  PROVE  Cardinality(T) <= Cardinality(S)
BY VdFinite, FS_Subset

(* A set of n + 1 descriptors has a lowest one, and n others. *)
LEMMA VdNonempty ==
  ASSUME NEW S \in SUBSET Vd!Desc, NEW n \in Nat, Cardinality(S) >= n + 1
  PROVE  /\ Vd!Lowest(S) \in S
         /\ Cardinality(S \ {Vd!Lowest(S)}) >= n
<1>1. IsFiniteSet(S) /\ Cardinality(S) \in Nat
  BY VdFinite
<1>2. S # {}
  BY <1>1, FS_EmptySet
<1>3. Vd!Lowest(S) \in S
  BY <1>2, VdLowest
<1>4. Cardinality(S \ {Vd!Lowest(S)}) = Cardinality(S) - 1
  BY <1>1, <1>3, FS_RemoveElement
<1> QED BY <1>1, <1>3, <1>4

(* VirtioDisk's Cardinality is the one of the lemmas on finite sets. *)
LEMMA VdCardinality == \A S : Vd!Cardinality(S) = Cardinality(S)
BY DEF Vd!Cardinality, Cardinality

(* With three descriptors free alloc3_desc() finds three different ones. *)
LEMMA VdThree ==
  ASSUME free \subseteq Vd!Desc, Cardinality(free) >= 3
  PROVE  /\ Vd!Three \subseteq free
         /\ Vd!Lowest(Vd!Three) \in Vd!Three
         /\ \E x \in Vd!Three : x # Vd!Lowest(Vd!Three)
<1> DEFINE a == Vd!Lowest(free)
           b == Vd!Lowest(free \ {a})
           c == Vd!Lowest(free \ {a, b})
<1>1. a \in free /\ Cardinality(free \ {a}) >= 2
  BY VdNonempty
<1>2. b \in free \ {a} /\ Cardinality((free \ {a}) \ {b}) >= 1
  <2>1. free \ {a} \in SUBSET Vd!Desc
    OBVIOUS
  <2> QED BY <1>1, <2>1, VdNonempty
<1>3. c \in free \ {a, b}
  <2>1. (free \ {a}) \ {b} = free \ {a, b} /\ free \ {a, b} \in SUBSET Vd!Desc
    OBVIOUS
  <2>2. Cardinality(free \ {a, b}) >= 0 + 1
    BY <1>2, <2>1
  <2> QED BY <2>1, <2>2, VdNonempty
<1>4. Vd!Three = {a, b, c}
  BY DEF Vd!Three
<1>5. Vd!Lowest(Vd!Three) \in Vd!Three
  <2>1. Vd!Three \in SUBSET Vd!Desc /\ Vd!Three # {}
    BY <1>1, <1>2, <1>3, <1>4
  <2> QED BY <2>1, VdLowest
<1> HIDE DEF a, b, c
<1> QED BY <1>1, <1>2, <1>3, <1>4, <1>5

-----------------------------------------------------------------------------
(* The indices of the two rings.                                           *)
LEMMA VdWidth == NUM \in Nat \ {0} /\ UMod \in Nat \ {0} /\ NUM <= UMod
<1>1. UMod < NUM => UMod % NUM = UMod
  BY DiskAssumption, ModSmall
<1> QED BY <1>1, DiskAssumption

(* The entries of a ring are the places of Modular. *)
LEMMA VdEntries ==
  ASSUME NEW a \in Int, NEW b \in Int
  PROVE  Vd!Entries(a, b) = Places(NUM, a, b)
BY DEF Vd!Entries, Places, Vd!Desc

(* The avail ring holds as many requests as its two indices are apart.     *)
LEMMA VdAskedLength ==
  ASSUME Vd!TypeOK, Vd!AvailRoom
  PROVE  /\ (availIdx - devIdx) % UMod \in 0..(NUM - 1)
         /\ (availIdx - devIdx) % NUM = (availIdx - devIdx) % UMod
<1> DEFINE L == (availIdx - devIdx) % UMod
<1>1. availIdx - devIdx \in Int
  BY VdWidth DEF Vd!TypeOK
<1>2. L \in 0..(UMod - 1)
  BY <1>1, VdWidth, ModDef
<1>3. L < NUM
  BY DEF Vd!AvailRoom
<1>4. L % NUM = (availIdx - devIdx) % NUM
  BY <1>1, VdWidth, DiskAssumption, ModMultiple
<1> HIDE DEF L
<1>5. L \in 0..(NUM - 1)
  BY <1>2, <1>3, VdWidth
<1>6. L % NUM = L
  BY <1>5, VdWidth, ModSmall
<1> QED BY <1>4, <1>5, <1>6 DEF L

(* A request more: a new place, unless it makes the ring full. *)
LEMMA VdAskMore ==
  ASSUME Vd!TypeOK, Vd!AvailRoom
  PROVE  /\ availIdx % NUM \in Vd!Desc /\ availIdx % NUM \notin Vd!Asked
         /\ \/ /\ Vd!Entries(devIdx, (availIdx + 1) % UMod) = Vd!Asked \cup {availIdx % NUM}
               /\ (((availIdx + 1) % UMod) - devIdx) % UMod < NUM
            \/ Vd!Asked \cup {availIdx % NUM} = Vd!Desc
<1> DEFINE L == (availIdx - devIdx) % UMod
           up == (availIdx + 1) % UMod
<1>1. availIdx \in Int /\ devIdx \in Int
  BY VdWidth DEF Vd!TypeOK
<1>2. L \in 0..(NUM - 1) /\ (availIdx - devIdx) % NUM = L
  BY VdAskedLength
<1>3. Vd!Asked = Places(NUM, devIdx, availIdx)
  BY <1>1, VdEntries DEF Vd!Asked
<1>4. up \in Int
  BY <1>1, VdWidth, ModDef
<1>5. /\ availIdx % NUM \in 0..(NUM - 1) /\ availIdx % NUM \notin Vd!Asked
      /\ L # NUM - 1 => Places(NUM, devIdx, availIdx + 1) = Vd!Asked \cup {availIdx % NUM}
      /\ L = NUM - 1 => Vd!Asked \cup {availIdx % NUM} = 0..(NUM - 1)
  <2> DEFINE d == (availIdx - devIdx) % NUM
  <2>1. /\ availIdx % NUM \in 0..(NUM - 1)
        /\ availIdx % NUM \notin Places(NUM, devIdx, availIdx)
        /\ d # NUM - 1 => Places(NUM, devIdx, availIdx + 1)
                             = Places(NUM, devIdx, availIdx) \cup {availIdx % NUM}
        /\ d = NUM - 1 => Places(NUM, devIdx, availIdx) \cup {availIdx % NUM} = 0..(NUM - 1)
    BY <1>1, VdWidth, PlacesPut
  <2>2. d = L
    BY <1>2
  <2> HIDE DEF d, L
  <2> QED BY <1>3, <2>1, <2>2
<1>6. Vd!Entries(devIdx, up) = Places(NUM, devIdx, availIdx + 1)
  <2>0. availIdx + 1 \in Int
    BY <1>1
  <2>1. up % NUM = (availIdx + 1) % NUM
    BY <2>0, VdWidth, DiskAssumption, ModMultiple
  <2>2. Places(NUM, devIdx, up) = Places(NUM, devIdx, availIdx + 1)
    BY <1>1, <1>4, <2>1, VdWidth, PlacesSame
  <2> QED BY <1>1, <1>4, <2>2, VdEntries
<1>7. L # NUM - 1 => (up - devIdx) % UMod = L + 1
  <2>0. availIdx + 1 \in Int
    BY <1>1
  <2>1. up % UMod = (availIdx + 1) % UMod
    BY <2>0, VdWidth, ModMod
  <2>2. (up - devIdx) % UMod = ((availIdx + 1) - devIdx) % UMod
    <3> DEFINE next == availIdx + 1
    <3>1. next \in Int /\ up % UMod = next % UMod
      BY <2>0, <2>1
    <3> HIDE DEF up, next
    <3>2. (up - devIdx) % UMod = (next - devIdx) % UMod
      BY <1>1, <1>4, <3>1, VdWidth, ModLess
    <3> QED BY <3>2 DEF next
  <2>3. (availIdx + 1) - devIdx = (availIdx - devIdx) + 1 /\ availIdx - devIdx \in Int
    BY <1>1
  <2>4. ((availIdx - devIdx) + 1) % UMod = (IF L = UMod - 1 THEN 0 ELSE L + 1)
    BY <2>3, VdWidth, ModNext
  <2> HIDE DEF L
  <2>5. L # NUM - 1 => L # UMod - 1
    BY <1>2, VdWidth
  <2> QED BY <2>2, <2>3, <2>4, <2>5
<1> HIDE DEF L, up
<1>8. CASE L # NUM - 1
  <2>1. (up - devIdx) % UMod < NUM
    BY <1>2, <1>7, <1>8, VdWidth
  <2> QED BY <1>5, <1>6, <1>8, <2>1 DEF up, Vd!Desc
<1>9. CASE L = NUM - 1
  BY <1>5, <1>9 DEF Vd!Desc
<1> QED BY <1>8, <1>9

(* The device looks at one request more. *)
LEMMA VdAskLess ==
  ASSUME Vd!TypeOK, Vd!AvailRoom, devIdx # availIdx
  PROVE  /\ devIdx % NUM \in Vd!Asked
         /\ Vd!Entries((devIdx + 1) % UMod, availIdx) = Vd!Asked \ {devIdx % NUM}
         /\ (availIdx - ((devIdx + 1) % UMod)) % UMod < NUM
<1> DEFINE L == (availIdx - devIdx) % UMod
           up == (devIdx + 1) % UMod
<1>1. availIdx \in Int /\ devIdx \in Int /\ availIdx - devIdx \in Int
  BY VdWidth DEF Vd!TypeOK
<1>2. L \in 0..(NUM - 1) /\ (availIdx - devIdx) % NUM = L
  BY VdAskedLength
<1>3. L # 0
  <2> SUFFICES ASSUME L = 0 PROVE FALSE
    OBVIOUS
  <2>1. ((availIdx - devIdx) + devIdx) % UMod = devIdx % UMod
    BY <1>1, VdWidth, ModZero
  <2>2. (availIdx - devIdx) + devIdx = availIdx
    BY <1>1
  <2>3. availIdx % UMod = availIdx /\ devIdx % UMod = devIdx
    BY VdWidth, ModSmall DEF Vd!TypeOK
  <2> QED BY <2>1, <2>2, <2>3
<1>4. devIdx % NUM # availIdx % NUM
  <2> SUFFICES ASSUME devIdx % NUM = availIdx % NUM PROVE FALSE
    OBVIOUS
  <2>1. (availIdx - devIdx) % NUM = (devIdx - devIdx) % NUM
    BY <1>1, VdWidth, ModMinus
  <2>2. devIdx - devIdx = 0 /\ 0 % NUM = 0
    BY <1>1, VdWidth, ModSmall
  <2> QED BY <1>2, <1>3, <2>1, <2>2
<1>5. Vd!Asked = Places(NUM, devIdx, availIdx)
  BY <1>1, VdEntries DEF Vd!Asked
<1>6. /\ devIdx % NUM \in Vd!Asked
      /\ Places(NUM, devIdx + 1, availIdx) = Vd!Asked \ {devIdx % NUM}
  BY <1>1, <1>4, <1>5, VdWidth, PlacesTake
<1>7. up \in Int
  BY <1>1, VdWidth, ModDef
<1>8. Vd!Entries(up, availIdx) = Places(NUM, devIdx + 1, availIdx)
  <2>0. devIdx + 1 \in Int
    BY <1>1
  <2>1. up % NUM = (devIdx + 1) % NUM
    BY <2>0, VdWidth, DiskAssumption, ModMultiple
  <2>2. Places(NUM, up, availIdx) = Places(NUM, devIdx + 1, availIdx)
    BY <1>1, <1>7, <2>1, VdWidth, PlacesSame
  <2> QED BY <1>1, <1>7, <2>2, VdEntries
<1>9. (availIdx - up) % UMod = L - 1
  <2>0. devIdx + 1 \in Int
    BY <1>1
  <2>1. up % UMod = (devIdx + 1) % UMod
    BY <2>0, VdWidth, ModMod
  <2>2. (availIdx - up) % UMod = (availIdx - (devIdx + 1)) % UMod
    <3> DEFINE next == devIdx + 1
    <3>1. next \in Int /\ up % UMod = next % UMod
      BY <2>0, <2>1
    <3> HIDE DEF up, next
    <3>2. (availIdx - up) % UMod = (availIdx - next) % UMod
      BY <1>1, <1>7, <3>1, VdWidth, ModFrom
    <3> QED BY <3>2 DEF next
  <2>3. availIdx - (devIdx + 1) = (availIdx - devIdx) - 1
    BY <1>1
  <2>4. ((availIdx - devIdx) - 1) % UMod = (IF L = 0 THEN UMod - 1 ELSE L - 1)
    BY <1>1, VdWidth, ModNext
  <2> QED BY <1>3, <2>2, <2>3, <2>4
<1> HIDE DEF L, up
<1>10. (availIdx - up) % UMod < NUM
  BY <1>2, <1>9, VdWidth
<1> QED BY <1>6, <1>8, <1>10 DEF up

(* The same of the used ring, whose two indices count differently. *)
LEMMA VdAnswerMore ==
  ASSUME Vd!TypeOK
  PROVE  /\ usedId % NUM \in Vd!Desc /\ usedId % NUM \notin Vd!Answered
         /\ \/ Vd!Entries(usedIdx, (usedId + 1) % UMod) = Vd!Answered \cup {usedId % NUM}
            \/ Vd!Answered \cup {usedId % NUM} = Vd!Desc
<1> DEFINE up == (usedId + 1) % UMod
<1>1. usedId \in Int /\ usedIdx \in Int
  BY VdWidth DEF Vd!TypeOK, Vd!Desc
<1>2. Vd!Answered = Places(NUM, usedIdx, usedId)
  BY <1>1, VdEntries DEF Vd!Answered
<1>3. /\ usedId % NUM \in 0..(NUM - 1) /\ usedId % NUM \notin Vd!Answered
      /\ \/ Places(NUM, usedIdx, usedId + 1) = Vd!Answered \cup {usedId % NUM}
         \/ Vd!Answered \cup {usedId % NUM} = 0..(NUM - 1)
  BY <1>1, <1>2, VdWidth, PlacesPut
<1>4. up \in Int
  BY <1>1, VdWidth, ModDef
<1>5. Vd!Entries(usedIdx, up) = Places(NUM, usedIdx, usedId + 1)
  <2>0. usedId + 1 \in Int
    BY <1>1
  <2>1. up % NUM = (usedId + 1) % NUM
    BY <2>0, VdWidth, DiskAssumption, ModMultiple
  <2>2. Places(NUM, usedIdx, up) = Places(NUM, usedIdx, usedId + 1)
    BY <1>1, <1>4, <2>1, VdWidth, PlacesSame
  <2> QED BY <1>1, <1>4, <2>2, VdEntries
<1> QED BY <1>3, <1>5 DEF Vd!Desc

(* The handler takes the oldest entry of the used ring. *)
LEMMA VdAnswerLess ==
  ASSUME Vd!TypeOK, usedIdx # usedId % NUM
  PROVE  /\ usedIdx \in Vd!Answered
         /\ Vd!Entries((usedIdx + 1) % NUM, usedId) = Vd!Answered \ {usedIdx}
<1> DEFINE up == (usedIdx + 1) % NUM
<1>1. usedId \in Int /\ usedIdx \in Int /\ usedIdx % NUM = usedIdx
  BY VdWidth, ModSmall DEF Vd!TypeOK, Vd!Desc
<1>2. Vd!Answered = Places(NUM, usedIdx, usedId)
  BY <1>1, VdEntries DEF Vd!Answered
<1>3. /\ usedIdx \in Vd!Answered
      /\ Places(NUM, usedIdx + 1, usedId) = Vd!Answered \ {usedIdx}
  <2>1. usedIdx % NUM # usedId % NUM
    BY <1>1
  <2>2. /\ usedIdx % NUM \in Places(NUM, usedIdx, usedId)
        /\ Places(NUM, usedIdx + 1, usedId) = Places(NUM, usedIdx, usedId) \ {usedIdx % NUM}
    BY <1>1, <2>1, VdWidth, PlacesTake
  <2> QED BY <1>1, <1>2, <2>2
<1>4. up \in Int /\ up % NUM = (usedIdx + 1) % NUM
  <2>1. usedIdx + 1 \in Int
    BY <1>1
  <2>2. up \in 0..(NUM - 1)
    BY <2>1, VdWidth, ModDef
  <2>3. up % NUM = (usedIdx + 1) % NUM
    BY <2>1, VdWidth, ModMod
  <2> QED BY <2>2, <2>3
<1>5. Places(NUM, up, usedId) = Places(NUM, usedIdx + 1, usedId)
  BY <1>1, <1>4, VdWidth, PlacesSame
<1> QED BY <1>1, <1>3, <1>4, <1>5, VdEntries

-----------------------------------------------------------------------------
(* Each action of the processes, of the handler and of the device keeps    *)
(* VdIndInv.                                                               *)
LEMMA VdInit == Vd!Init => Vd!VdIndInv
<1> SUFFICES ASSUME Vd!Init PROVE Vd!VdIndInv
  OBVIOUS
<1> USE VdWidth DEF Vd!Init
<1>1. Vd!TypeOK
  <2>1. 0 \in Vd!Desc /\ 0 \in 0..(UMod - 1)
    BY DEF Vd!Desc
  <2> QED BY <2>1 DEF Vd!TypeOK, Vd!Labels
<1>2. \A a \in Int : a % NUM >= 0
  BY ModDef
<1>3. 0 % NUM = 0 /\ 0 % UMod = 0
  BY ModSmall
<1>4. Vd!Entries(0, 0) = {}
  <2>1. \A j \in Vd!Desc : j - 0 \in Int
    BY DEF Vd!Desc
  <2> QED BY <1>2, <1>3, <2>1 DEF Vd!Entries
<1>5. Vd!Asked = {} /\ Vd!Answered = {}
  BY <1>4 DEF Vd!Asked, Vd!Answered
<1>6. Vd!Requests
  BY DEF Vd!Requests, Vd!InProgress
<1>7. Vd!AvailRoom
  BY <1>3 DEF Vd!AvailRoom
<1>8. Vd!InRings /\ Vd!OncePerRequest
  BY <1>5 DEF Vd!InRings, Vd!OncePerRequest
<1>9. Vd!TransferComplete /\ Vd!DescSleepersHaveReason
  BY DEF Vd!TransferComplete, Vd!DescSleepersHaveReason
<1> QED BY <1>1, <1>6, <1>7, <1>8, <1>9 DEF Vd!VdIndInv

(* A step that leaves requests and rings alone, and starts or ends none.   *)
LEMMA VdQuiet ==
  ASSUME Vd!VdIndInv, UNCHANGED <<Vd!request, Vd!ring, moved>>, Vd!TypeOK',
         \A p \in VdProcs : Vd!InProgress(p)' <=> Vd!InProgress(p),
         Vd!DescSleepersHaveReason'
  PROVE  Vd!VdIndInv'
<1> USE DEF Vd!request, Vd!ring
<1>1. /\ Vd!TypeOK /\ Vd!Requests /\ Vd!AvailRoom /\ Vd!InRings /\ Vd!OncePerRequest
      /\ Vd!TransferComplete
  BY DEF Vd!VdIndInv
<1>2. Vd!Asked' = Vd!Asked /\ Vd!Answered' = Vd!Answered
  BY DEF Vd!Asked, Vd!Answered, Vd!Entries
<1>3. Vd!Requests'
  <2>1. \A i \in Vd!Desc : info[i] # Vd!None => info[i] \in VdProcs
    BY <1>1 DEF Vd!TypeOK
  <2> QED BY <1>1, <2>1 DEF Vd!Requests
<1>4. Vd!AvailRoom' /\ Vd!InRings' /\ Vd!OncePerRequest'
  BY <1>1, <1>2 DEF Vd!AvailRoom, Vd!InRings, Vd!Busy, Vd!OncePerRequest
<1>5. Vd!TransferComplete'
  BY <1>1 DEF Vd!TransferComplete, Vd!InProgress
<1> QED BY <1>3, <1>4, <1>5 DEF Vd!VdIndInv

(* Steps that touch neither a request nor a ring. *)
LEMMA VdQuietSteps ==
  ASSUME Vd!VdIndInv,
         \/ \E p \in VdProcs : Vd!Call(p) \/ Vd!NoDesc(p) \/ Vd!StillBusy(p) \/ Vd!KillWakes(p)
         \/ Vd!IntrBegin \/ Vd!IntrLoopEnd \/ Vd!IntrAck
  PROVE  Vd!VdIndInv'
<1> USE DEF Vd!VdIndInv, Vd!TypeOK, Vd!Labels, Vd!InProgress, Vd!DescSleepersHaveReason, Vd!request,
        Vd!ring
<1> DEFINE Quiet == /\ UNCHANGED <<Vd!request, Vd!ring, moved>> /\ Vd!TypeOK'
                    /\ \A q \in VdProcs : Vd!InProgress(q)' <=> Vd!InProgress(q)
                    /\ Vd!DescSleepersHaveReason'
<1>1. ASSUME NEW p \in VdProcs, Vd!Call(p) PROVE Quiet
  BY <1>1 DEF Vd!Call
<1>2. ASSUME NEW p \in VdProcs, Vd!NoDesc(p) PROVE Quiet
  BY <1>2 DEF Vd!NoDesc, Vd!WokenForDesc
<1>3. ASSUME NEW p \in VdProcs, Vd!StillBusy(p) PROVE Quiet
  BY <1>3 DEF Vd!StillBusy
<1>4. ASSUME NEW p \in VdProcs, Vd!KillWakes(p) PROVE Quiet
  BY <1>4 DEF Vd!KillWakes
<1>5. ASSUME Vd!IntrBegin PROVE Quiet
  BY <1>5 DEF Vd!IntrBegin
<1>6. ASSUME Vd!IntrLoopEnd PROVE Quiet
  BY <1>6 DEF Vd!IntrLoopEnd
<1>7. ASSUME Vd!IntrAck PROVE Quiet
  BY <1>7 DEF Vd!IntrAck
<1>8. Quiet
  BY <1>1, <1>2, <1>3, <1>4, <1>5, <1>6, <1>7
<1> QED BY <1>8, VdQuiet

(* A request in progress is busy with its own descriptors only: none is    *)
(* free, and not all of them are heads.                                    *)
LEMMA VdHeads ==
  ASSUME Vd!TypeOK, Vd!Requests, NEW i \in Vd!Desc, Vd!Busy(i)
  PROVE  /\ info[i] \in VdProcs /\ Vd!InProgress(info[i]) /\ head[info[i]] = i
         /\ i \in chain[info[i]] /\ i \notin free
         /\ \E x \in Vd!Desc : x # i /\ \A k \in Vd!Desc : Vd!Busy(k) => k # x
<1> DEFINE p == info[i]
<1>1. p \in VdProcs /\ Vd!InProgress(p) /\ head[p] = i
  BY DEF Vd!Busy, Vd!TypeOK, Vd!Requests
<1>2. chain[p] \cap free = {} /\ head[p] \in chain[p] /\ \E x \in chain[p] : x # head[p]
  BY <1>1 DEF Vd!Requests
<1>3. PICK x \in chain[p] : x # i
  BY <1>1, <1>2
<1>4. x \in Vd!Desc
  BY <1>1, <1>3 DEF Vd!TypeOK
<1>5. ASSUME NEW k \in Vd!Desc, Vd!Busy(k), k = x PROVE FALSE
  <2>1. info[k] \in VdProcs /\ Vd!InProgress(info[k]) /\ head[info[k]] = k
    BY <1>5 DEF Vd!Busy, Vd!TypeOK, Vd!Requests
  <2>2. k \in chain[info[k]]
    BY <2>1 DEF Vd!Requests
  <2>3. info[k] = p
    BY <1>1, <1>3, <1>5, <2>1, <2>2 DEF Vd!Requests
  <2> QED BY <1>1, <1>3, <1>5, <2>1, <2>3
<1> QED BY <1>1, <1>2, <1>3, <1>4, <1>5

(* virtio_disk_rw() up to its first sleep: the descriptors were free, so   *)
(* the request is another than all those in progress.                      *)
LEMMA VdSubmit ==
  ASSUME Vd!VdIndInv, NEW p \in VdProcs, Vd!Submit(p)
  PROVE  Vd!VdIndInv'
<1>0. PICK h, k : h = Vd!Lowest(Vd!Three) /\ k = availIdx % NUM
  OBVIOUS
<1>1. /\ Vd!TypeOK /\ Vd!Requests /\ Vd!AvailRoom /\ Vd!InRings /\ Vd!OncePerRequest
      /\ Vd!TransferComplete /\ Vd!DescSleepersHaveReason
  BY DEF Vd!VdIndInv
<1>2. /\ pc[p] = "acq" /\ Cardinality(free) >= 3 /\ free' = free \ Vd!Three
      /\ chain' = [chain EXCEPT ![p] = Vd!Three] /\ head' = [head EXCEPT ![p] = h]
      /\ info' = [info EXCEPT ![h] = p] /\ avail' = [avail EXCEPT ![k] = h]
      /\ bdisk' = [bdisk EXCEPT ![p] = TRUE] /\ availIdx' = (availIdx + 1) % UMod
      /\ moved' = [moved EXCEPT ![p] = FALSE] /\ pc' = [pc EXCEPT ![p] = "io"]
      /\ UNCHANGED <<lock, devIdx, inflight, used, usedId, usedIdx, isr, hpc>>
  BY <1>0, VdCardinality DEF Vd!Submit
<1>3. /\ free \subseteq Vd!Desc /\ Vd!Three \subseteq free /\ h \in Vd!Three
      /\ \E x \in Vd!Three : x # h
  BY <1>0, <1>1, <1>2, VdThree DEF Vd!TypeOK
<1>4. /\ k \in Vd!Desc /\ k \notin Vd!Asked
      /\ \/ /\ Vd!Entries(devIdx, (availIdx + 1) % UMod) = Vd!Asked \cup {k}
            /\ (((availIdx + 1) % UMod) - devIdx) % UMod < NUM
         \/ Vd!Asked \cup {k} = Vd!Desc
  BY <1>0, <1>1, VdAskMore
<1>5. availIdx' \in 0..(UMod - 1)
  <2>1. availIdx + 1 \in Int
    BY <1>1, VdWidth DEF Vd!TypeOK
  <2> QED BY <1>2, <2>1, VdWidth, ModDef
<1>6. Vd!TypeOK'
  BY <1>1, <1>2, <1>3, <1>4, <1>5 DEF Vd!TypeOK, Vd!Labels
<1>7. \A i \in Vd!Desc : Vd!Busy(i) => i \notin free /\ info[i] # p
  BY <1>1, <1>2, VdHeads DEF Vd!InProgress
<1>8. info[h] = Vd!None
  BY <1>1, <1>3 DEF Vd!TypeOK, Vd!Requests
<1>9. \A i \in Vd!Desc : Vd!Busy(i) => i # h /\ info'[i] = info[i] /\ Vd!Busy(i)'
  BY <1>1, <1>2, <1>3, <1>7 DEF Vd!TypeOK, Vd!Busy
<1>10. Vd!Busy(h)'
  BY <1>1, <1>2, <1>3, DiskProcsAssumption DEF Vd!TypeOK, Vd!Busy
<1>11. /\ \A j \in Vd!Asked : Vd!Busy(avail[j]) /\ avail[j] \in Vd!Desc /\ avail'[j] = avail[j]
       /\ avail'[k] = h
  BY <1>1, <1>2, <1>4 DEF Vd!InRings, Vd!TypeOK, Vd!Asked, Vd!Entries
<1>12. Vd!Asked' = Vd!Asked \cup {k} /\ Vd!AvailRoom'
  <2>1. ASSUME Vd!Asked \cup {k} = Vd!Desc PROVE FALSE
    <3>1. PICK x \in Vd!Three : x # h
      BY <1>3
    <3>2. avail' \in [Vd!Desc -> Vd!Desc \ {x}]
      <4>1. avail' \in [Vd!Desc -> Vd!Desc]
        BY <1>6 DEF Vd!TypeOK
      <4>2. ASSUME NEW j \in Vd!Desc PROVE avail'[j] # x
        <5>1. CASE j = k
          BY <1>11, <3>1, <5>1
        <5>2. CASE j \in Vd!Asked
          BY <1>3, <1>7, <1>11, <3>1, <5>2
        <5> QED BY <2>1, <5>1, <5>2
      <4> QED BY <4>1, <4>2
    <3>3. x \in Vd!Desc
      BY <1>3, <3>1
    <3>4. PICK i \in Vd!Desc, j \in Vd!Desc : i # j /\ avail'[i] = avail'[j]
      BY <3>2, <3>3, VdFinite, NotAllDifferent
    <3>5. i \in Vd!Asked \cup {k} /\ j \in Vd!Asked \cup {k}
      BY <2>1
    <3> QED BY <1>1, <1>9, <1>11, <3>4, <3>5 DEF Vd!OncePerRequest
  <2> QED BY <1>2, <1>4, <2>1 DEF Vd!Asked, Vd!AvailRoom
<1>13. Vd!Answered' = Vd!Answered /\ Vd!Answered \subseteq Vd!Desc
  BY <1>2 DEF Vd!Answered, Vd!Entries
<1>14. Vd!Requests'
  <2>1. ASSUME NEW q \in VdProcs
        PROVE  /\ chain'[q] \cap free' = {}
               /\ Vd!InProgress(q)' => /\ head'[q] \in chain'[q] /\ (\E x \in chain'[q] : x # head'[q])
                                       /\ info'[head'[q]] = q
               /\ ~Vd!InProgress(q)' => chain'[q] = {}
    <3>1. CASE q = p
      <4>1. chain'[q] = Vd!Three /\ head'[q] = h /\ pc'[q] = "io" /\ info'[h] = p
        BY <1>1, <1>2, <1>3, <3>1 DEF Vd!TypeOK
      <4> QED BY <1>2, <1>3, <3>1, <4>1 DEF Vd!InProgress
    <3>2. CASE q # p
      <4>1. /\ chain'[q] = chain[q] /\ head'[q] = head[q] /\ Vd!InProgress(q)' = Vd!InProgress(q)
            /\ chain[q] \cap free = {}
            /\ ~Vd!InProgress(q) => chain[q] = {}
            /\ Vd!InProgress(q) => /\ head[q] \in chain[q] /\ (\E x \in chain[q] : x # head[q])
                                   /\ info[head[q]] = q
        BY <1>1, <1>2, <3>2 DEF Vd!TypeOK, Vd!InProgress, Vd!Requests
      <4>2. Vd!InProgress(q) => info'[head[q]] = q
        BY <1>1, <1>2, <1>3, <4>1 DEF Vd!TypeOK
      <4> QED BY <1>2, <4>1, <4>2
    <3> QED BY <3>1, <3>2
  <2>2. ASSUME NEW q \in VdProcs, NEW r \in VdProcs, q # r
        PROVE  chain'[q] \cap chain'[r] = {}
    BY <1>1, <1>2, <1>3, <2>2 DEF Vd!TypeOK, Vd!Requests
  <2>3. ASSUME NEW i \in Vd!Desc, info'[i] # Vd!None
        PROVE  pc'[info'[i]] \in {"io", "ioacq"} /\ head'[info'[i]] = i
    <3>1. CASE i = h
      BY <1>1, <1>2, <3>1 DEF Vd!TypeOK, Vd!InProgress
    <3>2. CASE i # h
      BY <1>1, <1>2, <2>3, <3>2 DEF Vd!TypeOK, Vd!InProgress, Vd!Requests
    <3> QED BY <3>1, <3>2
  <2> QED BY <2>1, <2>2, <2>3 DEF Vd!Requests, Vd!InProgress
<1>15. Vd!InRings'
  <2>1. \A j \in Vd!Asked' : Vd!Busy(avail[j])'
    BY <1>9, <1>10, <1>11, <1>12 DEF Vd!Busy
  <2>2. \A i \in inflight : Vd!Busy(i)'
    BY <1>1, <1>9 DEF Vd!InRings, Vd!TypeOK
  <2>3. ASSUME NEW j \in Vd!Answered PROVE Vd!Busy(used[j])' /\ moved'[info'[used[j]]]
    <3>1. used[j] \in Vd!Desc /\ Vd!Busy(used[j]) /\ moved[info[used[j]]]
      BY <1>1, <1>13 DEF Vd!InRings, Vd!TypeOK
    <3>2. info[used[j]] # p /\ info[used[j]] \in VdProcs
      BY <1>1, <1>7, <3>1, VdHeads
    <3> QED BY <1>1, <1>2, <1>9, <3>1, <3>2 DEF Vd!TypeOK
  <2> QED BY <1>2, <1>13, <2>1, <2>2, <2>3 DEF Vd!InRings
<1>16. Vd!OncePerRequest'
  <2>1. \A i \in inflight : i # h
    BY <1>1, <1>9 DEF Vd!InRings, Vd!TypeOK
  <2>2. \A j \in Vd!Answered : used[j] # h
    BY <1>1, <1>9, <1>13 DEF Vd!InRings, Vd!TypeOK
  <2>3. \A j \in Vd!Asked : avail[j] # h
    BY <1>9, <1>11
  <2>4. \A i, j \in Vd!Asked' : avail'[i] = avail'[j] => i = j
    BY <1>1, <1>11, <1>12, <2>3 DEF Vd!OncePerRequest
  <2>5. /\ \A j \in Vd!Asked' : avail'[j] \notin inflight
        /\ \A j \in Vd!Asked', i \in Vd!Answered : avail'[j] # used[i]
    BY <1>1, <1>11, <1>12, <2>1, <2>2 DEF Vd!OncePerRequest
  <2> QED BY <1>1, <1>2, <1>13, <2>4, <2>5 DEF Vd!OncePerRequest
<1>17. Vd!TransferComplete'
  BY <1>1, <1>2 DEF Vd!TransferComplete, Vd!TypeOK
<1>18. Vd!DescSleepersHaveReason'
  <2>1. Cardinality(free') <= Cardinality(free)
    BY <1>2, <1>3, VdSmaller
  <2>2. Cardinality(free) \in Nat /\ Cardinality(free') \in Nat
    BY <1>2, <1>3, VdFinite
  <2>3. ASSUME NEW q \in VdProcs, pc'[q] = "nodesc" PROVE Cardinality(free) < 3
    BY <1>1, <1>2, <2>3, VdCardinality DEF Vd!DescSleepersHaveReason, Vd!TypeOK
  <2> QED BY <2>1, <2>2, <2>3, VdCardinality DEF Vd!DescSleepersHaveReason
<1> QED BY <1>6, <1>12, <1>14, <1>15, <1>16, <1>17, <1>18 DEF Vd!VdIndInv

(* The end of virtio_disk_rw(): a request no ring holds any more gives its *)
(* descriptors back, and everybody who waits for descriptors is woken.     *)
LEMMA VdReturn ==
  ASSUME Vd!VdIndInv, NEW p \in VdProcs, Vd!Return(p)
  PROVE  Vd!VdIndInv'
<1>1. /\ Vd!TypeOK /\ Vd!Requests /\ Vd!AvailRoom /\ Vd!InRings /\ Vd!OncePerRequest
      /\ Vd!TransferComplete
  BY DEF Vd!VdIndInv
<1>2. /\ pc[p] = "ioacq" /\ ~bdisk[p] /\ info' = [info EXCEPT ![head[p]] = Vd!None]
      /\ free' = free \cup chain[p] /\ chain' = [chain EXCEPT ![p] = {}]
      /\ head' = [head EXCEPT ![p] = Vd!NoHead] /\ pc' = Vd!WokenForDesc(p, "out")
      /\ UNCHANGED <<lock, bdisk, Vd!ring, isr, moved, hpc>>
  BY DEF Vd!Return
<1>3. UNCHANGED <<avail, availIdx, devIdx, inflight, used, usedId, usedIdx>>
  BY <1>2 DEF Vd!ring
<1>4. /\ pc' \in [VdProcs -> Vd!Labels] /\ pc'[p] = "out"
      /\ \A q \in VdProcs : /\ q # p /\ pc[q] # "nodesc" => pc'[q] = pc[q]
                            /\ q # p /\ pc[q] = "nodesc" => pc'[q] = "acq"
  BY <1>1, <1>2 DEF Vd!WokenForDesc, Vd!TypeOK, Vd!Labels
<1>5. Vd!TypeOK'
  BY <1>1, <1>2, <1>3, <1>4 DEF Vd!TypeOK
<1>6. head[p] \in chain[p] /\ head[p] \in Vd!Desc /\ info[head[p]] = p
  BY <1>1, <1>2 DEF Vd!Requests, Vd!InProgress, Vd!TypeOK
<1>7. \A i \in Vd!Desc : Vd!Busy(i) => i # head[p] /\ info'[i] = info[i] /\ Vd!Busy(i)'
  BY <1>1, <1>2, <1>6 DEF Vd!Busy, Vd!TypeOK
<1>8. Vd!Asked' = Vd!Asked /\ Vd!Answered' = Vd!Answered
  BY <1>3 DEF Vd!Asked, Vd!Answered, Vd!Entries
<1>9. Vd!Requests'
  <2>1. ASSUME NEW q \in VdProcs
        PROVE  /\ chain'[q] \cap free' = {}
               /\ Vd!InProgress(q)' => /\ head'[q] \in chain'[q] /\ (\E x \in chain'[q] : x # head'[q])
                                       /\ info'[head'[q]] = q
               /\ ~Vd!InProgress(q)' => chain'[q] = {}
    <3>1. CASE q = p
      <4>1. chain'[q] = {} /\ ~Vd!InProgress(q)'
        BY <1>1, <1>2, <1>4, <3>1 DEF Vd!TypeOK, Vd!InProgress
      <4> QED BY <4>1
    <3>2. CASE q # p
      <4>1. /\ chain'[q] = chain[q] /\ head'[q] = head[q] /\ Vd!InProgress(q)' = Vd!InProgress(q)
        BY <1>1, <1>2, <1>4, <3>2 DEF Vd!TypeOK, Vd!InProgress
      <4>2. /\ chain[q] \cap free = {} /\ chain[q] \cap chain[p] = {}
            /\ ~Vd!InProgress(q) => chain[q] = {}
            /\ Vd!InProgress(q) => /\ head[q] \in chain[q] /\ (\E x \in chain[q] : x # head[q])
                                   /\ info[head[q]] = q
        BY <1>1, <3>2 DEF Vd!Requests
      <4>3. Vd!InProgress(q) => info'[head[q]] = q
        BY <1>1, <1>2, <1>6, <4>2 DEF Vd!TypeOK
      <4> QED BY <1>2, <4>1, <4>2, <4>3
    <3> QED BY <3>1, <3>2
  <2>2. ASSUME NEW q \in VdProcs, NEW r \in VdProcs, q # r
        PROVE  chain'[q] \cap chain'[r] = {}
    BY <1>1, <1>2, <2>2 DEF Vd!TypeOK, Vd!Requests
  <2>3. ASSUME NEW i \in Vd!Desc, info'[i] # Vd!None
        PROVE  pc'[info'[i]] \in {"io", "ioacq"} /\ head'[info'[i]] = i
    <3>1. i # head[p] /\ info'[i] = info[i]
      BY <1>1, <1>2, <1>6, <2>3 DEF Vd!TypeOK
    <3>2. info[i] \in VdProcs /\ pc[info[i]] \in {"io", "ioacq"} /\ head[info[i]] = i
      BY <1>1, <2>3, <3>1 DEF Vd!TypeOK, Vd!Requests, Vd!InProgress
    <3>3. info[i] # p
      BY <3>1, <3>2
    <3> QED BY <1>1, <1>2, <1>4, <3>1, <3>2, <3>3 DEF Vd!TypeOK
  <2> QED BY <2>1, <2>2, <2>3 DEF Vd!Requests, Vd!InProgress
<1>10. Vd!InRings'
  <2>1. ASSUME NEW j \in Vd!Asked PROVE Vd!Busy(avail[j])'
    BY <1>1, <1>3, <1>7 DEF Vd!InRings, Vd!TypeOK, Vd!Asked, Vd!Entries, Vd!Busy
  <2>2. \A i \in inflight : Vd!Busy(i)'
    BY <1>1, <1>7 DEF Vd!InRings, Vd!TypeOK
  <2>3. ASSUME NEW j \in Vd!Answered PROVE Vd!Busy(used[j])' /\ moved'[info'[used[j]]]
    <3>1. used[j] \in Vd!Desc /\ Vd!Busy(used[j]) /\ moved[info[used[j]]]
      BY <1>1 DEF Vd!InRings, Vd!TypeOK, Vd!Answered, Vd!Entries
    <3> QED BY <1>2, <1>3, <1>7, <3>1 DEF Vd!Busy
  <2> QED BY <1>3, <1>8, <2>1, <2>2, <2>3 DEF Vd!InRings
<1>11. Vd!AvailRoom' /\ Vd!OncePerRequest'
  BY <1>1, <1>3, <1>8 DEF Vd!AvailRoom, Vd!OncePerRequest
<1>12. Vd!TransferComplete'
  BY <1>1, <1>2, <1>4 DEF Vd!TransferComplete
<1>13. Vd!DescSleepersHaveReason'
  BY <1>4 DEF Vd!DescSleepersHaveReason
<1> QED BY <1>5, <1>9, <1>10, <1>11, <1>12, <1>13 DEF Vd!VdIndInv

(* The device moves a request from the avail ring to those it works on.    *)
LEMMA VdDeviceTake ==
  ASSUME Vd!VdIndInv, Vd!DeviceTake
  PROVE  Vd!VdIndInv'
<1>0. PICK k : k = devIdx % NUM
  OBVIOUS
<1>1. /\ Vd!TypeOK /\ Vd!Requests /\ Vd!AvailRoom /\ Vd!InRings /\ Vd!OncePerRequest
      /\ Vd!TransferComplete /\ Vd!DescSleepersHaveReason
  BY DEF Vd!VdIndInv
<1>2. /\ devIdx # availIdx /\ inflight' = inflight \cup {avail[k]}
      /\ devIdx' = (devIdx + 1) % UMod
      /\ UNCHANGED <<lock, Vd!request, avail, availIdx, used, usedId, usedIdx, isr, moved, hpc, pc>>
  BY <1>0 DEF Vd!DeviceTake
<1>3. UNCHANGED <<free, chain, head, info, bdisk>>
  BY <1>2 DEF Vd!request
<1>4. /\ k \in Vd!Asked
      /\ Vd!Entries((devIdx + 1) % UMod, availIdx) = Vd!Asked \ {k}
      /\ (availIdx - ((devIdx + 1) % UMod)) % UMod < NUM
  BY <1>0, <1>1, <1>2, VdAskLess
<1>5. k \in Vd!Desc /\ avail[k] \in Vd!Desc /\ Vd!Busy(avail[k])
  BY <1>1, <1>4 DEF Vd!TypeOK, Vd!InRings, Vd!Asked, Vd!Entries
<1>6. Vd!TypeOK'
  <2>1. devIdx + 1 \in Int
    BY <1>1, VdWidth DEF Vd!TypeOK
  <2>2. devIdx' \in 0..(UMod - 1)
    BY <1>2, <2>1, VdWidth, ModDef
  <2> QED BY <1>1, <1>2, <1>3, <1>5, <2>2 DEF Vd!TypeOK
<1>7. Vd!Asked' = Vd!Asked \ {k} /\ Vd!AvailRoom'
  BY <1>2, <1>4 DEF Vd!Asked, Vd!AvailRoom
<1>8. Vd!Answered' = Vd!Answered
  BY <1>2 DEF Vd!Answered, Vd!Entries
<1>9. Vd!Requests' /\ Vd!TransferComplete' /\ Vd!DescSleepersHaveReason'
  BY <1>1, <1>2, <1>3 DEF Vd!Requests, Vd!InProgress, Vd!TransferComplete, Vd!DescSleepersHaveReason
<1>10. Vd!InRings'
  BY <1>1, <1>2, <1>3, <1>5, <1>7, <1>8 DEF Vd!InRings, Vd!Busy
<1>11. Vd!OncePerRequest'
  BY <1>1, <1>2, <1>4, <1>7, <1>8 DEF Vd!OncePerRequest
<1> QED BY <1>6, <1>7, <1>9, <1>10, <1>11 DEF Vd!VdIndInv

(* The device puts a request it worked on on the used ring. *)
LEMMA VdDeviceDone ==
  ASSUME Vd!VdIndInv, NEW i \in Vd!Desc, Vd!DeviceDone(i)
  PROVE  Vd!VdIndInv'
<1>0. PICK k : k = usedId % NUM
  OBVIOUS
<1>1. /\ Vd!TypeOK /\ Vd!Requests /\ Vd!AvailRoom /\ Vd!InRings /\ Vd!OncePerRequest
      /\ Vd!TransferComplete /\ Vd!DescSleepersHaveReason
  BY DEF Vd!VdIndInv
<1>2. i \in inflight /\ Vd!Busy(i) /\ info[i] \in VdProcs
  BY <1>1, VdHeads DEF Vd!DeviceDone, Vd!InRings
<1>3. /\ inflight' = inflight \ {i} /\ used' = [used EXCEPT ![k] = i]
      /\ usedId' = (usedId + 1) % UMod /\ isr' = TRUE /\ moved' = [moved EXCEPT ![info[i]] = TRUE]
      /\ UNCHANGED <<lock, Vd!request, avail, availIdx, devIdx, usedIdx, hpc, pc>>
  BY <1>0, <1>2 DEF Vd!DeviceDone
<1>4. UNCHANGED <<free, chain, head, info, bdisk>>
  BY <1>3 DEF Vd!request
<1>5. /\ k \in Vd!Desc /\ k \notin Vd!Answered
      /\ \/ Vd!Entries(usedIdx, (usedId + 1) % UMod) = Vd!Answered \cup {k}
         \/ Vd!Answered \cup {k} = Vd!Desc
  BY <1>0, <1>1, VdAnswerMore
<1>6. Vd!TypeOK'
  <2>1. usedId + 1 \in Int
    BY <1>1, VdWidth DEF Vd!TypeOK
  <2>2. usedId' \in 0..(UMod - 1)
    BY <1>3, <2>1, VdWidth, ModDef
  <2> QED BY <1>1, <1>3, <1>4, <1>5, <2>2 DEF Vd!TypeOK
<1>7. /\ \A j \in Vd!Answered : j \in Vd!Desc /\ used'[j] = used[j] /\ Vd!Busy(used[j])
      /\ used'[k] = i
  BY <1>1, <1>3, <1>5 DEF Vd!TypeOK, Vd!InRings, Vd!Answered, Vd!Entries
<1>8. \A j, l \in Vd!Answered \cup {k} : used'[j] = used'[l] => j = l
  BY <1>1, <1>2, <1>7 DEF Vd!OncePerRequest
<1>9. Vd!Answered' = Vd!Answered \cup {k}
  <2>1. ASSUME Vd!Answered \cup {k} = Vd!Desc PROVE FALSE
    <3>1. PICK x \in Vd!Desc : x # i /\ \A h \in Vd!Desc : Vd!Busy(h) => h # x
      BY <1>1, <1>2, VdHeads
    <3>2. used' \in [Vd!Desc -> Vd!Desc \ {x}]
      <4>1. used' \in [Vd!Desc -> Vd!Desc]
        BY <1>6 DEF Vd!TypeOK
      <4>2. \A j \in Vd!Desc : used'[j] # x
        BY <1>7, <2>1, <3>1, <4>1
      <4> QED BY <4>1, <4>2
    <3>3. PICK j \in Vd!Desc, l \in Vd!Desc : j # l /\ used'[j] = used'[l]
      BY <3>2, VdFinite, NotAllDifferent
    <3> QED BY <1>8, <2>1, <3>3
  <2> QED BY <1>3, <1>5, <2>1 DEF Vd!Answered
<1>10. Vd!Asked' = Vd!Asked /\ Vd!AvailRoom'
  BY <1>1, <1>3 DEF Vd!Asked, Vd!Entries, Vd!AvailRoom
<1>11. Vd!Requests' /\ Vd!DescSleepersHaveReason'
  BY <1>1, <1>3, <1>4 DEF Vd!Requests, Vd!InProgress, Vd!DescSleepersHaveReason
<1>12. Vd!TransferComplete'
  BY <1>1, <1>2, <1>3, <1>4 DEF Vd!TransferComplete, Vd!TypeOK
<1>13. Vd!InRings'
  <2>1. /\ \A j \in Vd!Asked : Vd!Busy(avail[j])'
        /\ \A h \in inflight' : Vd!Busy(h)'
    BY <1>1, <1>3, <1>4 DEF Vd!InRings, Vd!Busy
  <2>2. ASSUME NEW j \in Vd!Answered \cup {k}
        PROVE  Vd!Busy(used[j])' /\ moved'[info'[used'[j]]]
    <3>1. CASE j = k
      BY <1>1, <1>2, <1>3, <1>4, <1>7, <3>1 DEF Vd!Busy, Vd!TypeOK
    <3>2. CASE j \in Vd!Answered
      <4>1. moved[info[used[j]]] /\ used[j] \in Vd!Desc
        BY <1>1, <1>7, <3>2 DEF Vd!InRings, Vd!TypeOK
      <4>2. info[used[j]] \in VdProcs
        BY <1>1, <1>7, <3>2, <4>1, VdHeads
      <4> QED BY <1>1, <1>2, <1>3, <1>4, <1>7, <3>2, <4>1, <4>2 DEF Vd!Busy, Vd!TypeOK
    <3> QED BY <3>1, <3>2
  <2> QED BY <1>9, <1>10, <2>1, <2>2 DEF Vd!InRings
<1>14. Vd!OncePerRequest'
  <2>1. \A j \in Vd!Answered \cup {k} : used'[j] \notin inflight'
    BY <1>1, <1>3, <1>7 DEF Vd!OncePerRequest
  <2>2. \A j \in Vd!Asked : avail[j] \notin inflight' /\ avail[j] # i
    BY <1>1, <1>2, <1>3 DEF Vd!OncePerRequest
  <2>3. \A j \in Vd!Asked, l \in Vd!Answered \cup {k} : avail[j] # used'[l]
    BY <1>1, <1>7, <2>2 DEF Vd!OncePerRequest
  <2> QED BY <1>1, <1>3, <1>8, <1>9, <1>10, <2>1, <2>2, <2>3 DEF Vd!OncePerRequest
<1> QED BY <1>6, <1>10, <1>11, <1>12, <1>13, <1>14, <1>9 DEF Vd!VdIndInv

(* The handler ends the request of one used element. *)
LEMMA VdIntrLoop ==
  ASSUME Vd!VdIndInv, Vd!IntrLoop
  PROVE  Vd!VdIndInv'
<1>0. PICK h, p : h = used[usedIdx] /\ p = info[h]
  OBVIOUS
<1>1. /\ Vd!TypeOK /\ Vd!Requests /\ Vd!AvailRoom /\ Vd!InRings /\ Vd!OncePerRequest
      /\ Vd!TransferComplete /\ Vd!DescSleepersHaveReason
  BY DEF Vd!VdIndInv
<1>2. /\ usedIdx # usedId % NUM /\ bdisk' = [bdisk EXCEPT ![p] = FALSE]
      /\ pc' = [pc EXCEPT ![p] = IF @ = "io" THEN "ioacq" ELSE @]
      /\ usedIdx' = (usedIdx + 1) % NUM
      /\ UNCHANGED <<lock, free, chain, head, info, avail, availIdx, devIdx, inflight,
                     used, usedId, isr, moved, hpc>>
  BY <1>0 DEF Vd!IntrLoop
<1>3. usedIdx \in Vd!Answered /\ Vd!Entries((usedIdx + 1) % NUM, usedId) = Vd!Answered \ {usedIdx}
  BY <1>1, <1>2, VdAnswerLess
<1>4. h \in Vd!Desc /\ Vd!Busy(h) /\ moved[p]
  BY <1>0, <1>1, <1>3 DEF Vd!TypeOK, Vd!InRings, Vd!Answered, Vd!Entries
<1>5. p \in VdProcs /\ Vd!InProgress(p) /\ head[p] = h
  BY <1>0, <1>1, <1>4, VdHeads
<1>6. Vd!TypeOK'
  <2>1. usedIdx + 1 \in Int
    BY <1>1, VdWidth DEF Vd!TypeOK, Vd!Desc
  <2>2. usedIdx' \in Vd!Desc
    BY <1>2, <2>1, VdWidth, ModDef DEF Vd!Desc
  <2>3. pc' \in [VdProcs -> Vd!Labels]
    BY <1>1, <1>2, <1>5 DEF Vd!TypeOK, Vd!Labels
  <2> QED BY <1>1, <1>2, <1>5, <2>2, <2>3 DEF Vd!TypeOK
<1>7. \A q \in VdProcs : /\ Vd!InProgress(q)' <=> Vd!InProgress(q)
                         /\ pc'[q] = "nodesc" <=> pc[q] = "nodesc"
  BY <1>1, <1>2, <1>5 DEF Vd!InProgress, Vd!TypeOK
<1>8. ASSUME NEW i \in Vd!Desc, Vd!Busy(i), i # h PROVE Vd!Busy(i)'
  <2>1. info[i] \in VdProcs /\ head[info[i]] = i
    BY <1>1, <1>8, VdHeads
  <2>2. info[i] # p
    BY <1>5, <1>8, <2>1
  <2> QED BY <1>1, <1>2, <1>5, <1>8, <2>1, <2>2 DEF Vd!Busy, Vd!TypeOK
<1>9. Vd!Answered' = Vd!Answered \ {usedIdx} /\ Vd!Asked' = Vd!Asked /\ Vd!AvailRoom'
  BY <1>1, <1>2, <1>3 DEF Vd!Answered, Vd!Asked, Vd!Entries, Vd!AvailRoom
<1>10. Vd!Requests'
  <2>1. \A i \in Vd!Desc : info[i] # Vd!None => info[i] \in VdProcs
    BY <1>1 DEF Vd!TypeOK
  <2> QED BY <1>1, <1>2, <1>7, <2>1 DEF Vd!Requests
<1>11. Vd!InRings'
  <2>1. ASSUME NEW j \in Vd!Asked PROVE Vd!Busy(avail[j])'
    <3>1. avail[j] \in Vd!Desc /\ Vd!Busy(avail[j]) /\ avail[j] # h
      BY <1>0, <1>1, <1>3 DEF Vd!TypeOK, Vd!InRings, Vd!OncePerRequest, Vd!Asked, Vd!Entries
    <3> QED BY <1>2, <1>8, <3>1 DEF Vd!Busy
  <2>2. ASSUME NEW i \in inflight PROVE Vd!Busy(i)'
    BY <1>0, <1>1, <1>3, <1>8 DEF Vd!TypeOK, Vd!InRings, Vd!OncePerRequest
  <2>3. ASSUME NEW j \in Vd!Answered, j # usedIdx PROVE Vd!Busy(used[j])' /\ moved'[info'[used'[j]]]
    <3>1. used[j] \in Vd!Desc /\ Vd!Busy(used[j]) /\ used[j] # h /\ moved[info[used[j]]]
      BY <1>0, <1>1, <1>3, <2>3
         DEF Vd!TypeOK, Vd!InRings, Vd!OncePerRequest, Vd!Answered, Vd!Entries
    <3> QED BY <1>2, <1>8, <3>1 DEF Vd!Busy
  <2> QED BY <1>2, <1>9, <2>1, <2>2, <2>3 DEF Vd!InRings
<1>12. Vd!OncePerRequest'
  BY <1>1, <1>2, <1>9 DEF Vd!OncePerRequest
<1>13. Vd!TransferComplete'
  <2>1. \A q \in VdProcs : q # p => bdisk'[q] = bdisk[q] /\ pc'[q] = pc[q]
    BY <1>1, <1>2 DEF Vd!TypeOK
  <2> QED BY <1>1, <1>2, <1>4, <2>1 DEF Vd!TransferComplete
<1>14. Vd!DescSleepersHaveReason'
  BY <1>1, <1>2, <1>7 DEF Vd!DescSleepersHaveReason
<1> QED BY <1>6, <1>9, <1>10, <1>11, <1>12, <1>13, <1>14 DEF Vd!VdIndInv

(* Every step of the driver, the handler and the device keeps VdIndInv. *)
LEMMA VdStep ==
  ASSUME Vd!VdIndInv, Vd!Next
  PROVE  Vd!VdIndInv'
<1>1. ASSUME NEW p \in VdProcs, Vd!Call(p) \/ Vd!NoDesc(p) \/ Vd!StillBusy(p) \/ Vd!KillWakes(p)
      PROVE  Vd!VdIndInv'
  BY <1>1, VdQuietSteps
<1>2. CASE Vd!IntrBegin \/ Vd!IntrLoopEnd \/ Vd!IntrAck
  BY <1>2, VdQuietSteps
<1>3. ASSUME NEW p \in VdProcs, Vd!Submit(p) PROVE Vd!VdIndInv'
  BY <1>3, VdSubmit
<1>4. ASSUME NEW p \in VdProcs, Vd!Return(p) PROVE Vd!VdIndInv'
  BY <1>4, VdReturn
<1>5. CASE Vd!IntrLoop
  BY <1>5, VdIntrLoop
<1>6. CASE Vd!DeviceTake
  BY <1>6, VdDeviceTake
<1>7. ASSUME NEW i \in Vd!Desc, Vd!DeviceDone(i) PROVE Vd!VdIndInv'
  BY <1>7, VdDeviceDone
<1> QED BY <1>1, <1>2, <1>3, <1>4, <1>5, <1>6, <1>7 DEF Vd!Next, Vd!Inside, Vd!Driver, Vd!Device

-----------------------------------------------------------------------------
(* The kernel has one of the two drivers, and keeps its invariant.         *)
LEMMA DiskStep == DiskIndInv /\ [Next]_vars => DiskIndInv'
<1> SUFFICES ASSUME DiskIndInv, [Next]_vars PROVE DiskIndInv'
  OBVIOUS
<1> USE DEF DiskIndInv
<1>1. CASE SdNext
  BY <1>1, SdStep DEF SdNext
<1>2. CASE VdNext
  BY <1>2, VdStep DEF VdNext
<1>3. CASE UNCHANGED vars
  <2>1. UNCHANGED <<build, lock, pc, chan, pending, card, staged, busy, op, sec, buf, bounce>>
    BY <1>3 DEF vars, sdState
  <2>2. UNCHANGED <<free, chain, head, info, bdisk, avail, availIdx, devIdx, inflight, used,
                    usedId, usedIdx, isr, moved, hpc>>
    BY <1>3 DEF vars, vdState
  <2>3. build = "k210" => Sd!SdIndInv'
    BY <2>1 DEF Sd!SdIndInv, Sd!TypeOK, Sd!LockOwner, Sd!OwnTransfer, Sd!Progress, Sd!Arrived
  <2>4. ASSUME build = "qemu" PROVE Vd!VdIndInv'
    <3>1. Vd!VdIndInv
      BY <2>4
    <3>2. UNCHANGED <<Vd!request, Vd!ring, moved>>
      BY <2>2 DEF Vd!request, Vd!ring
    <3>3. Vd!TypeOK'
      BY <2>1, <2>2, <3>1 DEF Vd!VdIndInv, Vd!TypeOK
    <3>4. Vd!DescSleepersHaveReason' /\ \A p \in VdProcs : Vd!InProgress(p)' <=> Vd!InProgress(p)
      BY <2>1, <2>2, <3>1 DEF Vd!VdIndInv, Vd!DescSleepersHaveReason, Vd!InProgress
    <3> QED BY <3>1, <3>2, <3>3, <3>4, VdQuiet
  <2> QED BY <2>1, <2>3, <2>4
<1> QED BY <1>1, <1>2, <1>3 DEF Next

(* The inductive invariant holds in the kernel of either build.            *)
THEOREM DiskInvariance == Spec => []DiskIndInv
<1>1. Init => DiskIndInv
  BY SdInit, VdInit DEF Init, DiskIndInv
<1> QED BY <1>1, DiskStep, PTL DEF Spec

(* disk_read() and disk_write() return when their own transfer is over:    *)
(* however many processes use the disk, and in whatever order the device   *)
(* completes their requests.                                               *)
THEOREM TransferOver == Spec => []TransferComplete
<1>1. ASSUME Sd!SdIndInv PROVE Sd!TransferComplete
  BY <1>1 DEF Sd!SdIndInv, Sd!Progress, Sd!TransferComplete
<1>2. ASSUME Vd!VdIndInv PROVE Vd!TransferComplete
  BY <1>2 DEF Vd!VdIndInv
<1>3. DiskIndInv => TransferComplete
  BY <1>1, <1>2 DEF DiskIndInv, TransferComplete
<1> QED BY <1>3, DiskInvariance, PTL

(* The wakeup of free_desc() is not lost: nobody sleeps for descriptors    *)
(* while three of them are free.                                           *)
THEOREM SleepersWait == Spec => []DescSleepersHaveReason
<1>1. ASSUME Vd!VdIndInv PROVE Vd!DescSleepersHaveReason
  BY <1>1 DEF Vd!VdIndInv
<1>2. DiskIndInv => DescSleepersHaveReason
  BY <1>1 DEF DiskIndInv, DescSleepersHaveReason
<1> QED BY <1>2, DiskInvariance, PTL

(* The driver never asks whether a ring has room, and need not: a request  *)
(* takes three descriptors, so neither ring ever holds an entry for every  *)
(* place, and no request is on a ring twice or on one while the device     *)
(* works on it.                                                            *)
RingsHold ==
  build = "qemu" =>
    /\ (availIdx - devIdx) % UMod < NUM
    /\ \A j \in Vd!Asked : avail[j] \notin inflight
    /\ \A j, k \in Vd!Asked : avail[j] = avail[k] => j = k
    /\ \A j, k \in Vd!Answered : used[j] = used[k] => j = k

(* Neither virtqueue of virtio_disk_rw() ever overflows or repeats a         *)
(* request.                                                                  *)
THEOREM RingsNeverOverflow == Spec => []RingsHold
<1>1. DiskIndInv => RingsHold
  BY DEF DiskIndInv, RingsHold, Vd!VdIndInv, Vd!AvailRoom, Vd!OncePerRequest
<1> QED BY <1>1, DiskInvariance, PTL

-----------------------------------------------------------------------------

(* The row of the table a function has is its setting. *)
LEMMA Row ==
  ASSUME NEW f \in 0..(FUNC_MAX - 1), NEW cell, <<f, cell>> \in Table
  PROVE  function_config[f] = cell
<1>1. PICK row \in Table : row[1] = f /\ \A other \in Table : other[1] = f => other = row
  BY TableAssumption
<1>2. row = <<f, cell>>
  BY <1>1
<1>3. \A other \in Table : other[1] = f => other = row
  BY <1>1
<1>4. (CHOOSE r \in Table : r[1] = f) = row
  BY <1>1, <1>3
<1>5. row[2] = cell
  BY <1>2
<1> QED BY <1>4, <1>5 DEF function_config

(* The settings of the card's signals. *)
LEMMA CardCells ==
  /\ function_config[FUNC_SPI0_SCLK] = Out
  /\ function_config[FUNC_SPI0_D0] = Shared /\ function_config[FUNC_SPI0_D1] = Shared
  /\ function_config[FUNC_GPIOHS0 + 7] = InOut
<1> USE DEF FUNC_SPI0_SCLK, FUNC_SPI0_D0, FUNC_SPI0_D1, FUNC_GPIOHS0, FUNC_MAX
<1>1. <<17, Out>> \in Table
  <2>1. <<17, Out>> \in Cells(17, 1, Out)
    BY DEF Cells
  <2> QED BY <2>1 DEF Table, SPI0_SS
<1>2. <<4, Shared>> \in Table /\ <<5, Shared>> \in Table
  <2>1. <<4, Shared>> \in Cells(4, 8, Shared) /\ <<5, Shared>> \in Cells(4, 8, Shared)
    BY DEF Cells
  <2> QED BY <2>1 DEF Table, SPI0_D
<1>3. <<31, InOut>> \in Table
  <2>1. <<31, InOut>> \in Cells(24, 8, InOut)
    BY DEF Cells
  <2> QED BY <2>1 DEF Table, GPIOHS0_7
<1>4. \A f \in {4, 5, 17, 31} : f \in 0..(FUNC_MAX - 1)
  OBVIOUS
<1>5. function_config[17] = Out
  BY <1>1, <1>4, Row, Zenon
<1>6. function_config[4] = Shared /\ function_config[5] = Shared
  BY <1>2, <1>4, Row, Zenon
<1>7. function_config[31] = InOut
  BY <1>3, <1>4, Row, Zenon
<1> QED BY <1>5, <1>6, <1>7

(* The fields of those settings the card depends on. *)
LEMMA CardFields ==
  /\ Out.oe_en = 1 /\ Out.pu = 0
  /\ Shared.oe_en = 1 /\ Shared.ie_en = 1 /\ Shared.pu = 0
  /\ InOut.oe_en = 1 /\ InOut.pu = 0 /\ InOut = [InOut EXCEPT !.pu = 0]
<1>1. /\ {"ds", "oe_en", "pu", "ie_en", "st", "oe_inv", "ie_inv"} \subseteq DOMAIN Off
      /\ Off.pu = 0
  BY DEF Off
<1>2. Out.oe_en = 1 /\ Out.pu = 0 /\ DOMAIN Out = DOMAIN Off
  BY <1>1 DEF Out
<1>3. /\ InOut.oe_en = 1 /\ InOut.ie_en = 1 /\ InOut.pu = 0
      /\ InOut = [field \in DOMAIN InOut |-> InOut[field]]
  BY <1>1, <1>2 DEF InOut
<1>4. Shared.oe_en = 1 /\ Shared.ie_en = 1 /\ Shared.pu = 0
  BY <1>1, <1>2, <1>3 DEF Shared
<1>5. ASSUME NEW c, c = [field \in DOMAIN c |-> c[field]], c.pu = 0
      PROVE  c = [c EXCEPT !.pu = 0]
  BY <1>5
<1>6. InOut = [InOut EXCEPT !.pu = 0]
  BY <1>3, <1>5
<1> QED BY <1>2, <1>3, <1>4, <1>6

-----------------------------------------------------------------------------
(* A function assigned to a pad is on that pad and no other, and functions *)
(* assigned before stay where they are.                                    *)
LEMMA Assigned ==
  ASSUME NEW s, Unpulled(s),
         NEW number \in Pins, NEW f \in Int, f # FUNC_RESV0,
         NEW r, r = fpioa_set_function(s, number, f)
  PROVE  /\ Unpulled(r)
         /\ On(r, f, number)
         /\ \A g \in Int, k \in Pins :
              g # f /\ g # FUNC_RESV0 /\ k # number /\ On(s, g, k) => On(r, g, k)
<1>1. r = [n \in Pins |->
             IF n = number THEN [ch_sel |-> f, pd |-> 0, cell |-> function_config[f]]
             ELSE IF s[n].ch_sel = f
             THEN [ch_sel |-> FUNC_RESV0, pd |-> 0, cell |-> function_config[FUNC_RESV0]]
             ELSE s[n]]
  BY DEF Unpulled, fpioa_set_function, fpioa_set_function_raw
<1>2. r = [n \in Pins |-> r[n]]
  BY <1>1
<1>3. r[number] = [ch_sel |-> f, pd |-> 0, cell |-> function_config[f]]
  BY <1>1
<1>4. ASSUME NEW n \in Pins, n # number
      PROVE  \/ s[n].ch_sel # f /\ r[n] = s[n]
             \/ s[n].ch_sel = f /\ r[n].ch_sel = FUNC_RESV0 /\ r[n].pd = 0
  BY <1>1, <1>4
<1>5. \A n \in Pins : r[n].pd = 0
  BY <1>3, <1>4 DEF Unpulled
<1>6. On(r, f, number)
  BY <1>3, <1>4 DEF On
<1>7. ASSUME NEW g \in Int, NEW k \in Pins, g # f, g # FUNC_RESV0, k # number, On(s, g, k)
      PROVE  On(r, g, k)
  <2>1. s[k].ch_sel = g /\ r[k] = s[k]
    BY <1>4, <1>7 DEF On
  <2>2. \A n \in Pins : r[n].ch_sel = g <=> n = k
    BY <1>3, <1>4, <1>7, <2>1 DEF On
  <2> QED BY <1>7, <2>1, <2>2 DEF On
<1> QED BY <1>2, <1>5, <1>6, <1>7 DEF Unpulled

(* fpioa_pin_init() puts each of the card's signals on its own pad. *)
LEMMA PinsInitialised ==
  ASSUME Unpulled(io)
  PROVE  LET r == fpioa_pin_init IN
         Unpulled(r) /\ Wired(r)
<1>0. /\ FUNC_SPI0_SCLK = 17 /\ FUNC_SPI0_D0 = 4 /\ FUNC_SPI0_D1 = 5
      /\ FUNC_GPIOHS0 + 7 = 31 /\ FUNC_SPI0_SS3 = 15 /\ FUNC_RESV0 = 120
  BY DEF FUNC_SPI0_SCLK, FUNC_SPI0_D0, FUNC_SPI0_D1, FUNC_GPIOHS0, FUNC_SPI0_SS3, FUNC_RESV0
<1>1. PICK a : a = fpioa_set_function(io, 27, 17)
  OBVIOUS
<1>2. PICK b : b = fpioa_set_function(a, 28, 4)
  OBVIOUS
<1>3. PICK c : c = fpioa_set_function(b, 26, 5)
  OBVIOUS
<1>4. PICK d : d = fpioa_set_function(c, 32, 31)
  OBVIOUS
<1>5. PICK e : e = fpioa_set_function(d, 29, 15)
  OBVIOUS
<1>6. ASSUME NEW s, Unpulled(s), NEW number \in Pins, NEW f \in {4, 5, 15, 17, 31},
             NEW r, r = fpioa_set_function(s, number, f)
      PROVE  /\ Unpulled(r) /\ On(r, f, number)
             /\ \A g \in {4, 5, 15, 17, 31}, k \in Pins :
                  g # f /\ k # number /\ On(s, g, k) => On(r, g, k)
  <2>1. f \in Int /\ f # FUNC_RESV0
    BY <1>0
  <2>2. \A g \in {4, 5, 15, 17, 31} : g \in Int /\ g # FUNC_RESV0
    BY <1>0
  <2> QED BY <1>6, <2>1, <2>2, Assigned
<1>7. {26, 27, 28, 29, 32} \subseteq Pins
  BY BoardAssumption
<1>8. Unpulled(io)
  OBVIOUS
<1>9. Unpulled(a) /\ On(a, 17, 27)
  BY <1>1, <1>6, <1>7, <1>8
<1>10. Unpulled(b) /\ On(b, 4, 28) /\ On(b, 17, 27)
  BY <1>2, <1>6, <1>7, <1>9
<1>11. Unpulled(c) /\ On(c, 5, 26) /\ On(c, 4, 28) /\ On(c, 17, 27)
  <2>1. Unpulled(c) /\ On(c, 5, 26)
    BY <1>3, <1>6, <1>7, <1>10
  <2>2. On(c, 4, 28)
    BY <1>3, <1>6, <1>7, <1>10
  <2>3. On(c, 17, 27)
    BY <1>3, <1>6, <1>7, <1>10
  <2> QED BY <2>1, <2>2, <2>3
<1>12. Unpulled(d) /\ On(d, 31, 32) /\ On(d, 5, 26) /\ On(d, 4, 28) /\ On(d, 17, 27)
  <2>1. Unpulled(d) /\ On(d, 31, 32)
    BY <1>4, <1>6, <1>7, <1>11
  <2>2. On(d, 5, 26)
    BY <1>4, <1>6, <1>7, <1>11
  <2>3. On(d, 4, 28)
    BY <1>4, <1>6, <1>7, <1>11
  <2>4. On(d, 17, 27)
    BY <1>4, <1>6, <1>7, <1>11
  <2> QED BY <2>1, <2>2, <2>3, <2>4
<1>13. Unpulled(e) /\ On(e, 15, 29) /\ On(e, 31, 32) /\ On(e, 5, 26) /\ On(e, 4, 28) /\ On(e, 17, 27)
  <2>1. Unpulled(e) /\ On(e, 15, 29)
    BY <1>5, <1>6, <1>7, <1>12
  <2>2. On(e, 31, 32)
    BY <1>5, <1>6, <1>7, <1>12
  <2>3. On(e, 5, 26)
    BY <1>5, <1>6, <1>7, <1>12
  <2>4. On(e, 4, 28)
    BY <1>5, <1>6, <1>7, <1>12
  <2>5. On(e, 17, 27)
    BY <1>5, <1>6, <1>7, <1>12
  <2> QED BY <2>1, <2>2, <2>3, <2>4, <2>5
<1>14. fpioa_pin_init = e
  BY <1>0, <1>1, <1>2, <1>3, <1>4, <1>5 DEF fpioa_pin_init
<1> QED BY <1>0, <1>13, <1>14 DEF Wired

-----------------------------------------------------------------------------
(* The steps of main() on the two harts. *)
LEMMA Steps0 ==
  /\ Len(Main0) = 17
  /\ Main0[1] = "consoleinit" /\ Main0[2] = "printfinit" /\ Main0[3] = "kinit"
  /\ Main0[4] = "kvminit" /\ Main0[5] = "kvminithart" /\ Main0[6] = "timerinit"
  /\ Main0[7] = "trapinithart" /\ Main0[8] = "procinit" /\ Main0[9] = "plicinit"
  /\ Main0[10] = "plicinithart" /\ Main0[11] = "fpioa_pin_init" /\ Main0[12] = "dmac_init"
  /\ Main0[13] = "disk_init" /\ Main0[14] = "binit" /\ Main0[15] = "fileinit"
  /\ Main0[16] = "userinit" /\ Main0[17] = "started"
BY DEF Main0

LEMMA Steps1 ==
  /\ Len(Main1) = 4
  /\ Main1[1] = "wait" /\ Main1[2] = "kvminithart" /\ Main1[3] = "trapinithart"
  /\ Main1[4] = "plicinithart"
BY DEF Main1

(* Where the hart is whose next step is given. *)
LEMMA HartPlaces ==
  ASSUME Order
  PROVE  /\ main[0] \in 0..17 /\ main[1] \in 0..4
         /\ AtMain(0, "fpioa_pin_init") => main[0] = 10
         /\ AtMain(0, "disk_init") => main[0] = 12
         /\ AtMain(0, "started") => main[0] = 16
         /\ ~AtMain(0, "wait")
         /\ AtMain(1, "wait") => main[1] = 0
         /\ ~AtMain(1, "fpioa_pin_init") /\ ~AtMain(1, "disk_init") /\ ~AtMain(1, "started")
         /\ \A h \in {0, 1} : \A s : AtMain(h, s) => main[h] < IF h = 0 THEN 17 ELSE 4
<1>1. main[0] \in 0..17 /\ main[1] \in 0..4
  BY Steps0, Steps1 DEF Order
<1>2. \A s : AtMain(0, s) => main[0] < 17 /\ s = Main0[main[0] + 1]
  BY Steps0 DEF AtMain, Main
<1>3. \A s : AtMain(1, s) => main[1] < 4 /\ s = Main1[main[1] + 1]
  BY Steps1 DEF AtMain, Main
<1>4. \A k \in 0..16 : /\ Main0[k + 1] = "fpioa_pin_init" => k = 10
                       /\ Main0[k + 1] = "disk_init" => k = 12
                       /\ Main0[k + 1] = "started" => k = 16
                       /\ Main0[k + 1] # "wait"
  BY Steps0
<1>5. \A k \in 0..3 : /\ Main1[k + 1] = "wait" => k = 0
                      /\ Main1[k + 1] \notin {"fpioa_pin_init", "disk_init", "started"}
  BY Steps1
<1> QED BY <1>1, <1>2, <1>3, <1>4, <1>5

LEMMA Lengths == Len(Main0) = 17 /\ Len(Main1) = 4
BY Steps0, Steps1

(* What the order says of the two counters. *)
LEMMA Counters ==
  ASSUME Order
  PROVE  /\ main \in [{0, 1} -> Nat] /\ started \in BOOLEAN
         /\ main[0] \in 0..17 /\ main[1] \in 0..4
         /\ started <=> main[0] = 17
         /\ ~started => main[1] = 0
<1>1. main \in [{0, 1} -> Nat] /\ started \in BOOLEAN
  BY DEF Order
<1>2. main[0] \in 0..17 /\ main[1] \in 0..4
  BY Lengths DEF Order
<1>3. started <=> main[0] = 17
  BY Lengths DEF Order
<1>4. ~started => main[1] = 0
  BY <1>2 DEF Order
<1> QED BY <1>1, <1>2, <1>3, <1>4

(* A step of hart 0, and of hart 1. *)
LEMMA Moves0 ==
  ASSUME Order, Advance(0), main[0] < Len(Main(0)), started' \in BOOLEAN,
         started' <=> main[0] = 16
  PROVE  Order'
<1>1. main'[0] = main[0] + 1 /\ main'[1] = main[1] /\ main' \in [{0, 1} -> Nat]
  BY DEF Advance, Order
<1>2. main[0] < 17
  BY Lengths DEF Main
<1>3. main[0] \in Nat /\ main[1] = 0
  BY <1>2, Counters
<1>4. started' <=> main'[0] = 17
  BY <1>1, <1>3
<1>5. ~(main'[1] > 0)
  BY <1>1, <1>3
<1>6. main'[0] <= 17 /\ main'[1] <= 4
  BY <1>1, <1>2, <1>3
<1> QED BY <1>1, <1>4, <1>5, <1>6, Lengths DEF Order

LEMMA Moves1 ==
  ASSUME Order, Advance(1), main[1] < Len(Main(1)), started, started' = started
  PROVE  Order'
<1>1. main'[1] = main[1] + 1 /\ main'[0] = main[0] /\ main' \in [{0, 1} -> Nat]
  BY DEF Advance, Order
<1>2. main[1] < 4
  BY Lengths DEF Main
<1>3. main[1] \in Nat /\ main[0] = 17
  BY Counters
<1>4. main'[0] = 17 /\ main'[1] <= 4
  BY <1>1, <1>2, <1>3
<1>5. started' /\ started' \in BOOLEAN
  BY DEF Order
<1> QED BY <1>1, <1>4, <1>5, Lengths DEF Order

(* Each step of main() keeps the order. *)
LEMMA OrderKept ==
  ASSUME Order, BoardNext
  PROVE  Order'
<1>1. ASSUME NEW h \in {0, 1}, InitStep(h) PROVE Order'
  <2>1. CASE h = 0
    <3>1. main[0] < 17 /\ Main0[main[0] + 1] # "started"
      BY <1>1, <2>1, Lengths DEF InitStep, Main
    <3>2. main[0] # 16
      BY <3>1, Steps0
    <3>3. ~started
      BY <3>1, Counters
    <3>4. started' \in BOOLEAN /\ (started' <=> main[0] = 16)
      BY <1>1, <3>2, <3>3, Counters DEF InitStep
    <3> QED BY <1>1, <2>1, <3>4, Moves0 DEF InitStep
  <2>2. CASE h = 1
    <3>1. Main1[main[1] + 1] # "wait"
      BY <1>1, <2>2 DEF InitStep, Main
    <3>2. main[1] # 0
      BY <3>1, Steps1
    <3>3. started
      BY <3>2, Counters
    <3> QED BY <1>1, <2>2, <3>3, Moves1 DEF InitStep
  <2> QED BY <2>1, <2>2
<1>2. ASSUME NEW h \in {0, 1}, PinInit(h) PROVE Order'
  <2>1. h = 0 /\ main[0] = 10
    BY <1>2, HartPlaces DEF PinInit
  <2>2. started' \in BOOLEAN /\ (started' <=> main[0] = 16)
    BY <1>2, <2>1, Counters DEF PinInit
  <2> QED BY <1>2, <2>1, <2>2, Moves0 DEF PinInit, AtMain
<1>3. ASSUME NEW h \in {0, 1}, SetStarted(h) PROVE Order'
  <2>1. h = 0 /\ main[0] = 16
    BY <1>3, HartPlaces DEF SetStarted
  <2> QED BY <1>3, <2>1, Moves0 DEF SetStarted, AtMain
<1>4. ASSUME NEW h \in {0, 1}, SeeStarted(h) PROVE Order'
  <2>1. h = 1 /\ started
    BY <1>4, HartPlaces DEF SeeStarted, WaitStarted
  <2> QED BY <1>4, <2>1, Moves1 DEF SeeStarted, AtMain
<1>5. ASSUME NEW h \in {0, 1}, SdDone(h) PROVE Order'
  <2>1. h = 0 /\ main[0] = 12
    BY <1>5, HartPlaces DEF SdDone
  <2>2. started' \in BOOLEAN /\ (started' <=> main[0] = 16)
    BY <1>5, <2>1, Counters DEF SdDone
  <2> QED BY <1>5, <2>1, <2>2, Moves0 DEF SdDone, AtMain
<1>6. ASSUME NEW h \in {0, 1}, SdStart(h) \/ SendCmd(h) \/ GetResponse(h) \/ EndCmd(h)
      PROVE  Order'
  <2>1. main' = main /\ started' = started
    BY <1>6 DEF SdStart, SendCmd, GetResponse, EndCmd
  <2> QED BY <2>1 DEF Order
<1> QED BY <1>1, <1>2, <1>3, <1>4, <1>5, <1>6 DEF BoardNext, HartStep

(* The pads. *)
LEMMA PadsKept ==
  ASSUME Order, Pads, BoardNext
  PROVE  Pads'
<1> USE DEF Pads
<1>0. main[0] \in Nat
  BY DEF Order
<1>1. ASSUME NEW h \in {0, 1}, InitStep(h) PROVE Pads'
  <2>1. h = 0 => main[0] # 10
    <3>1. h = 0 => Main0[main[0] + 1] # "fpioa_pin_init"
      BY <1>1 DEF InitStep, Main
    <3> QED BY <3>1, Steps0
  <2>2. main'[0] = main[0] \/ (main[0] # 10 /\ main'[0] = main[0] + 1)
    BY <1>1, <2>1, Counters DEF InitStep, Advance
  <2>3. main'[0] >= main[0] /\ (main'[0] > 10 => main[0] > 10)
    BY <1>0, <2>2
  <2> QED BY <1>0, <1>1, <2>2, <2>3 DEF InitStep, sdVars
<1>2. ASSUME NEW h \in {0, 1}, PinInit(h) PROVE Pads'
  <2>1. h = 0 /\ main[0] = 10
    BY <1>2, HartPlaces DEF PinInit
  <2>2. step = "start" /\ step' = "start" /\ Unpulled(io)
    BY <1>2, <2>1 DEF PinInit, sdVars
  <2>3. Unpulled(io') /\ Wired(io')
    BY <1>2, <2>2, PinsInitialised DEF PinInit
  <2> QED BY <2>2, <2>3
<1>3. ASSUME NEW h \in {0, 1}, SetStarted(h) PROVE Pads'
  <2>1. h = 0 /\ main[0] = 16
    BY <1>3, HartPlaces DEF SetStarted
  <2> QED BY <1>3, <2>1 DEF SetStarted, Advance, Order, sdVars
<1>4. ASSUME NEW h \in {0, 1}, SeeStarted(h) PROVE Pads'
  <2>1. h = 1 /\ main'[0] = main[0]
    BY <1>4, HartPlaces DEF SeeStarted, Advance, Order
  <2> QED BY <1>4, <2>1 DEF SeeStarted, sdVars
<1>5. ASSUME NEW h \in {0, 1}, SdDone(h) PROVE Pads'
  <2>1. h = 0 /\ main[0] = 12 /\ main'[0] = 13
    BY <1>5, HartPlaces DEF SdDone, Advance, Order
  <2> QED BY <1>5, <2>1 DEF SdDone, sdVars
<1>6. ASSUME NEW h \in {0, 1}, SdStart(h) PROVE Pads'
  <2>1. main[0] = 12 /\ main'[0] = 12 /\ step = "start" /\ step' = "cmd0" /\ dir' = "out"
    BY <1>6, HartPlaces DEF SdStart
  <2>2. fpioa_get_io_by_function(io, FUNC_GPIOHS0 + 7) = 32 /\ 32 \in Pins
    <3>1. 32 \in Pins
      BY BoardAssumption
    <3>2. On(io, FUNC_GPIOHS0 + 7, 32)
      BY <2>1 DEF Wired
    <3>3. \A n \in Pins : io[n].ch_sel = FUNC_GPIOHS0 + 7 <=> n = 32
      BY <3>2 DEF On
    <3> QED BY <3>1, <3>3 DEF fpioa_get_io_by_function
  <2>3. io' = [io EXCEPT ![32].pd = 1, ![32].cell.pu = 0]
    BY <1>6, <2>2 DEF SdStart, fpioa_set_io_pull
  <2>4. io[32] = [ch_sel |-> FUNC_GPIOHS0 + 7, pd |-> io[32].pd, cell |-> InOut]
    BY <2>1, CardCells DEF Wired, On
  <2>5. Unpulled(io)
    BY <2>1
  <2>6. io'[32] = [ch_sel |-> FUNC_GPIOHS0 + 7, pd |-> 1, cell |-> InOut]
    BY <2>2, <2>3, <2>4, <2>5, CardFields DEF Unpulled
  <2>7. \A n \in Pins \ {32} : io'[n] = io[n]
    BY <2>3, <2>5 DEF Unpulled
  <2>8. ASSUME NEW f, NEW k \in Pins, On(io, f, k), k # 32 \/ f = FUNC_GPIOHS0 + 7
        PROVE  On(io', f, k)
    BY <2>2, <2>4, <2>6, <2>7, <2>8, CardCells DEF On
  <2>9. Wired(io')
    BY <2>1, <2>8, BoardAssumption DEF Wired
  <2> QED BY <2>1, <2>5, <2>7, <2>9 DEF Unpulled
<1>7. ASSUME NEW h \in {0, 1}, SendCmd(h) \/ GetResponse(h) \/ EndCmd(h) PROVE Pads'
  <2>1. step # "start" /\ UNCHANGED <<main, io, dir>>
    BY <1>7 DEF SendCmd, GetResponse, EndCmd, Cmds
  <2>2. step' # "start"
    BY <1>7, <2>1 DEF SendCmd, GetResponse, EndCmd, Cmds, GoTo, Retry, AfterCmd55,
                       AfterAcmd41, AfterCcs
  <2> QED BY <2>1, <2>2
<1> QED BY <1>1, <1>2, <1>3, <1>4, <1>5, <1>6, <1>7 DEF BoardNext, HartStep

(* What a command does to the card. *)
LEMMA Received ==
  ASSUME NEW c \in [state : {"off", "idle", "ready"}, high : BOOLEAN, warm : Int,
                    app : BOOLEAN, blk : BOOLEAN],
         NEW cmd \in Cmds
  PROVE  /\ Receive(c, cmd) \in [state : {"off", "idle", "ready"}, high : BOOLEAN, warm : Int,
                                app : BOOLEAN, blk : BOOLEAN]
         /\ cmd = "cmd16" => /\ Receive(c, cmd).state = c.state
                             /\ Receive(c, cmd).high = c.high /\ Receive(c, cmd).blk
<1>1. CASE cmd = "cmd0"
  BY <1>1 DEF Receive
<1>2. CASE cmd = "cmd55"
  BY <1>2 DEF Receive
<1>3. CASE cmd = "cmd16"
  BY <1>3 DEF Receive
<1>4. CASE cmd = "acmd41"
  <2>1. CASE c.app /\ c.warm = 0
    <3>1. Receive(c, cmd) = [c EXCEPT !.state = "ready", !.app = FALSE]
      BY <1>4, <2>1 DEF Receive
    <3> QED BY <1>4, <3>1
  <2>2. CASE c.app /\ c.warm > 0
    <3>1. Receive(c, cmd) = [c EXCEPT !.warm = @ - 1, !.app = FALSE]
      BY <1>4, <2>2 DEF Receive
    <3>2. PICK d : d = [c EXCEPT !.warm = c.warm - 1]
      OBVIOUS
    <3>3. d \in [state : {"off", "idle", "ready"}, high : BOOLEAN, warm : Int,
                 app : BOOLEAN, blk : BOOLEAN]
      BY <3>2
    <3>4. Receive(c, cmd) = [d EXCEPT !.app = FALSE]
      BY <3>1, <3>2
    <3> QED BY <1>4, <3>3, <3>4
  <2>3. CASE ~(c.app /\ c.warm = 0) /\ ~(c.app /\ c.warm > 0)
    <3>1. Receive(c, cmd) = [c EXCEPT !.app = FALSE]
      BY <1>4, <2>3 DEF Receive
    <3> QED BY <1>4, <3>1
  <2> QED BY <2>1, <2>2, <2>3
<1>5. CASE cmd \in {"cmd8", "cmd58", "ccs"}
  BY <1>5 DEF Receive
<1> QED BY <1>1, <1>2, <1>3, <1>4, <1>5 DEF Cmds

(* How the driver comes to CMD16 and to success. *)
LEMMA Ends ==
  ASSUME NEW h \in {0, 1}, EndCmd(h), step' \in {"cmd16", "ok"}
  PROVE  /\ phase = "end"
         /\ \/ step = "ccs" /\ result = 0 /\ (step' = "ok" => ocr) /\ (step' = "cmd16" => ~ocr)
            \/ step = "cmd16" /\ (step' = "ok" => result = 0)
<1> USE DEF EndCmd, GoTo, Retry
<1>1. CASE step = "cmd0"
  BY <1>1
<1>2. CASE step = "cmd8"
  BY <1>2
<1>3. CASE step = "cmd58"
  BY <1>3
<1>4. CASE step = "cmd55"
  BY <1>4 DEF AfterCmd55
<1>5. CASE step = "acmd41"
  BY <1>5 DEF AfterAcmd41
<1>6. CASE step = "ccs"
  BY <1>6 DEF AfterCcs
<1>7. CASE step = "cmd16"
  BY <1>7
<1> QED BY <1>1, <1>2, <1>3, <1>4, <1>5, <1>6, <1>7 DEF Cmds

(* The driver and the card. *)
LEMMA SessionKept ==
  ASSUME Session, BoardNext
  PROVE  Session'
<1> USE DEF Session, InitSound, NoAnswer
<1>1. ASSUME NEW h \in {0, 1}, InitStep(h) \/ PinInit(h) \/ SetStarted(h) \/ SeeStarted(h)
                                 \/ SdDone(h)
      PROVE  Session'
  <2>1. UNCHANGED sdVars
    BY <1>1 DEF InitStep, PinInit, SetStarted, SeeStarted, SdDone
  <2> QED BY <2>1 DEF sdVars, R1
<1>2. ASSUME NEW h \in {0, 1}, SdStart(h) PROVE Session'
  BY <1>2 DEF SdStart
<1>3. ASSUME NEW h \in {0, 1}, SendCmd(h) PROVE Session'
  <2> USE <1>3 DEF SendCmd
  <2>1. step \in Cmds /\ step' = step /\ phase' = "answer" /\ step # "ok"
    BY DEF Cmds
  <2>2. CASE UNCHANGED sd /\ result' = NoAnswer
    BY <2>1, <2>2
  <2>3. CASE /\ sd' = IF sd.state = "off" /\ step # "cmd0" THEN sd ELSE Receive(sd, step)
             /\ result' = IF sd'.state = "off" THEN NoAnswer ELSE R1(sd')
    <3>1. /\ sd' \in [state : {"off", "idle", "ready"}, high : BOOLEAN, warm : Int,
                      app : BOOLEAN, blk : BOOLEAN]
          /\ step = "cmd16" => sd'.state = sd.state /\ sd'.high = sd.high /\ sd'.blk
      BY <2>1, <2>3, Received
    <3>2. result' \in {0, 1, NoAnswer} /\ (result' = R1(sd') \/ result' = NoAnswer)
      BY <2>3 DEF R1
    <3>3. step = "cmd16" => sd'.state = "ready" /\ ~sd'.high /\ sd'.blk
      BY <3>1
    <3>4. phase' \in {"send", "answer", "end"} /\ ~(phase' = "end") /\ step' # "ok"
      BY <2>1
    <3> HIDE <1>3
    <3> HIDE DEF SendCmd
    <3> QED BY <2>1, <3>1, <3>2, <3>3, <3>4
  <2> QED BY <2>2, <2>3
<1>4. ASSUME NEW h \in {0, 1}, GetResponse(h) PROVE Session'
  <2>1. UNCHANGED <<sd, step>> /\ phase = "answer" /\ phase' = "end" /\ step # "ok"
    BY <1>4 DEF GetResponse, Cmds
  <2>2. result' \in {result, NoAnswer}
    BY <1>4 DEF GetResponse
  <2>3. ASSUME result' = 0 PROVE sd.state = "ready" /\ ocr' = sd.high
    <3>1. result = 0 /\ result = R1(sd)
      BY <2>1, <2>2, <2>3
    <3>2. sd.state = "ready"
      BY <3>1 DEF R1
    <3>3. ocr' = (sd.high /\ sd.state = "ready")
      BY <1>4, <2>3, <3>1 DEF GetResponse
    <3>4. sd.high \in BOOLEAN
      OBVIOUS
    <3> QED BY <3>2, <3>3, <3>4
  <2>4. step = "cmd16" /\ result' = 0 => sd.blk
    BY <2>1, <2>2
  <2>5. result' \in {0, 1, NoAnswer}
    BY <2>2
  <2> QED BY <2>1, <2>3, <2>4, <2>5
<1>5. ASSUME NEW h \in {0, 1}, EndCmd(h) PROVE Session'
  <2>1. UNCHANGED <<sd, result, ocr>> /\ phase' = "send" /\ cs' = "high"
    BY <1>5 DEF EndCmd
  <2>2. step' = "cmd16" => sd.state = "ready" /\ ~sd.high
    BY <1>5, Ends
  <2>3. step' = "ok" => phase = "end" /\ step \in {"ccs", "cmd16"} /\ result = 0
    BY <1>5, Ends
  <2>4. step' = "ok" /\ step = "ccs" => sd.state = "ready" /\ sd.high
    BY <1>5, <2>3, Ends
  <2>5. step' = "ok" /\ step = "cmd16" => sd.state = "ready" /\ ~sd.high /\ sd.blk
    BY <2>3
  <2>6. step' = "ok" => is_standard_sd' = (step = "cmd16")
    BY <1>5 DEF EndCmd
  <2>7. step' = "ok" => is_standard_sd' = ~sd.high
    BY <2>3, <2>4, <2>5, <2>6
  <2> QED BY <2>1, <2>2, <2>3, <2>4, <2>5, <2>7
<1> QED BY <1>1, <1>2, <1>3, <1>4, <1>5 DEF BoardNext, HartStep

(* What the steps of hart 0 use, earlier ones have set up; what hart 1 and   *)
(* the scheduler use, all of them have.                                    *)
LEMMA NeedsMet ==
  ASSUME NEW k \in 0..17, NEW n,
         n \in Needs(IF k = 17 THEN "scheduler" ELSE Main0[k + 1])
  PROVE  \E j \in 1..k : Main0[j] = n
<1>1. CASE k = 0
  BY <1>1, Steps0 DEF Needs
<1>2. CASE k = 1
  BY <1>2, Steps0 DEF Needs
<1>3. CASE k = 2
  BY <1>3, Steps0 DEF Needs
<1>4. CASE k = 3
  <2>1. n \in {"kinit"}
    BY <1>4, Steps0 DEF Needs
  <2> QED BY <1>4, <2>1, Steps0
<1>5. CASE k = 4
  <2>1. n \in {"kvminit"}
    BY <1>5, Steps0 DEF Needs
  <2> QED BY <1>5, <2>1, Steps0
<1>6. CASE k = 5
  BY <1>6, Steps0 DEF Needs
<1>7. CASE k = 6
  <2>1. n \in {"kvminit", "timerinit"}
    BY <1>7, Steps0 DEF Needs
  <2> QED BY <1>7, <2>1, Steps0
<1>8. CASE k = 7
  BY <1>8, Steps0 DEF Needs
<1>9. CASE k = 8
  <2>1. n \in {"kvminit"}
    BY <1>9, Steps0 DEF Needs
  <2> QED BY <1>9, <2>1, Steps0
<1>10. CASE k = 9
  <2>1. n \in {"kvminit", "timerinit"}
    BY <1>10, Steps0 DEF Needs
  <2> QED BY <1>10, <2>1, Steps0
<1>11. CASE k = 10
  <2>1. n \in {"kvminit"}
    BY <1>11, Steps0 DEF Needs
  <2> QED BY <1>11, <2>1, Steps0
<1>12. CASE k = 11
  <2>1. n \in {"kvminit"}
    BY <1>12, Steps0 DEF Needs
  <2> QED BY <1>12, <2>1, Steps0
<1>13. CASE k = 12
  <2>1. n \in {"kinit", "kvminit", "fpioa_pin_init", "dmac_init"}
    BY <1>13, Steps0 DEF Needs
  <2> QED BY <1>13, <2>1, Steps0
<1>14. CASE k = 13
  BY <1>14, Steps0 DEF Needs
<1>15. CASE k = 14
  BY <1>15, Steps0 DEF Needs
<1>16. CASE k = 15
  <2>1. n \in {"kinit", "kvminit", "procinit"}
    BY <1>16, Steps0 DEF Needs
  <2> QED BY <1>16, <2>1, Steps0
<1>17. CASE k = 16
  BY <1>17, Steps0 DEF Needs
<1>18. CASE k = 17
  <2>1. n \in {"procinit", "userinit", "disk_init", "binit", "fileinit", "plicinit"}
    BY <1>18, Steps0 DEF Needs
  <2> QED BY <1>18, <2>1, Steps0
<1> QED BY <1>1, <1>2, <1>3, <1>4, <1>5, <1>6, <1>7, <1>8, <1>9, <1>10, <1>11, <1>12, <1>13, <1>14, <1>15, <1>16, <1>17, <1>18

LEMMA Initialised ==
  ASSUME Order
  PROVE  InitialisedFirst
<1>1. ASSUME NEW n, NEW j \in 1..main[0], Main0[j] = n PROVE Done(n)
  BY <1>1 DEF Done
<1>2. ASSUME NEW n \in Needs(IF main[0] = Len(Main(0)) THEN "scheduler" ELSE Main(0)[main[0] + 1])
      PROVE  Done(n)
  <2>1. n \in Needs(IF main[0] = 17 THEN "scheduler" ELSE Main0[main[0] + 1])
    BY <1>2, Lengths DEF Main
  <2> QED BY <1>1, <2>1, Counters, NeedsMet
<1>3. ASSUME main[1] = Len(Main(1)) \/ Main(1)[main[1] + 1] # "wait",
             NEW n \in Needs(IF main[1] = Len(Main(1)) THEN "scheduler" ELSE Main(1)[main[1] + 1])
      PROVE  Done(n)
  <2>1. main[1] # 0
    BY <1>3, Steps1 DEF Main
  <2>2. main[0] = 17
    BY <2>1, Counters
  <2>3. CASE main[1] = 4
    <3>1. n \in Needs(IF main[0] = 17 THEN "scheduler" ELSE Main0[main[0] + 1])
      <4>1. main[1] = Len(Main(1))
        BY <2>3, Lengths DEF Main
      <4> QED BY <1>3, <2>2, <4>1
    <3>2. main[0] \in 0..17
      BY <2>2
    <3>3. \E j \in 1..main[0] : Main0[j] = n
      BY <3>1, <3>2, NeedsMet
    <3> QED BY <1>1, <3>3
  <2>4. CASE main[1] # 4
    <3>1. n \in Needs("kvminithart") \cup Needs("trapinithart") \cup Needs("plicinithart")
      <4>1. main[1] \in {1, 2, 3}
        BY <2>1, <2>4, Counters
      <4>2. n \in Needs(Main1[main[1] + 1])
        BY <1>3, <2>4, Lengths DEF Main
      <4> QED BY <4>1, <4>2, Steps1
    <3>2. n \in {"kvminit", "timerinit"}
      BY <3>1 DEF Needs
    <3>3. Main0[4] = "kvminit" /\ Main0[6] = "timerinit" /\ 4 \in 1..main[0] /\ 6 \in 1..main[0]
      BY <2>2, Steps0
    <3> QED BY <1>1, <3>2, <3>3
  <2> QED BY <2>3, <2>4
<1> QED BY <1>2, <1>3 DEF InitialisedFirst

-----------------------------------------------------------------------------
(* The board starts as the boot loader left it. *)
LEMMA StartInv == BoardInit => BoardIndInv
<1> SUFFICES ASSUME BoardInit PROVE BoardIndInv
  OBVIOUS
<1>1. Order
  <2>1. main \in [{0, 1} -> Nat] /\ main[0] = 0 /\ main[1] = 0 /\ started = FALSE
    BY DEF BoardInit
  <2>2. ~started /\ main[0] # Len(Main0) /\ ~(main[1] > 0)
    BY <2>1, Lengths
  <2>3. main[0] <= Len(Main0) /\ main[1] <= Len(Main1)
    BY <2>1, Lengths
  <2> QED BY <2>1, <2>2, <2>3 DEF Order
<1>2. Pads
  BY DEF BoardInit, Pads, Unpulled
<1>3. Session
  <2>1. sd \in [state : {"off", "idle", "ready"}, high : BOOLEAN, warm : Int,
                app : BOOLEAN, blk : BOOLEAN]
    <3>1. 0..MaxWarm \subseteq Int
      BY BoardAssumption
    <3>2. sd \in [state : {"off"}, high : BOOLEAN, warm : 0..MaxWarm, app : {FALSE}, blk : {FALSE}]
      BY DEF BoardInit, Cards
    <3> QED BY <3>1, <3>2, Zenon
  <2> QED BY <2>1 DEF BoardInit, Session, InitSound, NoAnswer
<1> QED BY <1>1, <1>2, <1>3 DEF BoardIndInv

(* The inductive invariant of the start of the board. *)
THEOREM BoardInvariance == BoardSpec => []BoardIndInv
<1>1. BoardIndInv /\ [BoardNext]_boardVars => BoardIndInv'
  <2> SUFFICES ASSUME BoardIndInv, [BoardNext]_boardVars PROVE BoardIndInv'
    OBVIOUS
  <2>1. CASE BoardNext
    BY <2>1, OrderKept, PadsKept, SessionKept DEF BoardIndInv
  <2>2. CASE UNCHANGED boardVars
    BY <2>2 DEF boardVars, sdVars, BoardIndInv, Order, Pads, Session, InitSound, R1
  <2> QED BY <2>1, <2>2
<1> QED BY <1>1, StartInv, PTL DEF BoardSpec

(* main.c: whatever a hart is about to do, hart 0 has initialised what it  *)
(* uses; `started' is all that holds hart 1 back.                          *)
THEOREM UseAfterInit == BoardSpec => []InitialisedFirst
<1>1. ASSUME Order PROVE InitialisedFirst
  BY <1>1, Initialised
<1> QED BY <1>1, BoardInvariance, PTL DEF BoardIndInv

(* fpioa_pin_init(), gpiohs_set_drive_mode(): whatever the boot loader     *)
(* left in the pads, the card's signals are on the pads they are wired to. *)
THEOREM PinsRight == BoardSpec => []PinsWired
<1>1. ASSUME BoardIndInv PROVE PinsWired
  <2> SUFFICES ASSUME step # "start"
               PROVE  /\ \A w \in {<<27, FUNC_SPI0_SCLK>>, <<28, FUNC_SPI0_D0>>,
                                   <<26, FUNC_SPI0_D1>>, <<32, FUNC_GPIOHS0 + 7>>} :
                           {n \in Pins : io[n].ch_sel = w[2]} = {w[1]}
                      /\ \A n \in {27, 28, 32} : io[n].cell.oe_en = 1
                      /\ io[26].cell.ie_en = 1
                      /\ dir = "out" /\ \A n \in Pins : ~(io[n].cell.pu = 1 /\ io[n].pd = 1)
    BY DEF PinsWired
  <2>1. Wired(io) /\ dir = "out" /\ \A n \in Pins \ {32} : io[n].pd = 0
    <3>1. main[0] >= 12 /\ dir = "out" /\ \A n \in Pins \ {32} : io[n].pd = 0
      BY <1>1 DEF BoardIndInv, Pads
    <3>2. main[0] > 10
      BY <1>1, <3>1, Counters DEF BoardIndInv
    <3> QED BY <1>1, <3>1, <3>2 DEF BoardIndInv, Pads
  <2>2. ASSUME NEW f, NEW k \in Pins, On(io, f, k)
        PROVE  {n \in Pins : io[n].ch_sel = f} = {k} /\ io[k].cell = function_config[f]
    BY <2>2 DEF On
  <2>3. {26, 27, 28, 32} \subseteq Pins
    BY BoardAssumption
  <2>4. /\ io[27].cell = Out /\ io[28].cell = Shared /\ io[26].cell = Shared
        /\ io[32].cell = InOut
    BY <2>1, <2>2, <2>3, CardCells DEF Wired
  <2>5. \A w \in {<<27, FUNC_SPI0_SCLK>>, <<28, FUNC_SPI0_D0>>,
                  <<26, FUNC_SPI0_D1>>, <<32, FUNC_GPIOHS0 + 7>>} :
          {n \in Pins : io[n].ch_sel = w[2]} = {w[1]}
    BY <2>1, <2>2, <2>3 DEF Wired
  <2> QED BY <2>1, <2>4, <2>5, CardFields
<1> QED BY <1>1, BoardInvariance, PTL

(* sd_init(): success means a card that is ready, deselected and addressed *)
(* as its type needs, whichever commands and answers were lost.            *)
THEOREM CardReady == BoardSpec => []InitSound
<1>1. BoardIndInv => InitSound
  BY DEF BoardIndInv, Session
<1> QED BY <1>1, BoardInvariance, PTL
==============================================================================
