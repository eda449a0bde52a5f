------------------------------- MODULE BCache -------------------------------
(***************************************************************************)
(* kernel/bio.c: the buffer cache, with processes that use it the way      *)
(* kernel/fat32.c does: bread() a sector, perhaps change and bwrite() it,  *)
(* brelse() it.  What bcache.lock covers is one step.  b->lock is a mutex  *)
(* (module SleepLock shows that sleeplock.c implements one).  The window   *)
(* between the two locks, in bget() and in brelse(), is modelled.          *)
(* There is one device, dev 0.                                             *)
(***************************************************************************)
EXTENDS Integers, FiniteSets

CONSTANTS
  Procs,    \* processes
  NBUF,     \* buffers
  Sector,   \* sector numbers
  Val       \* what a sector can hold

ASSUME NBUFAssumption == NBUF \in Nat \ {0}

Buf == 1..NBUF
NoBuf == 0
NoProc == "noproc"
NoSector == "nosector"    \* b->sectorno = ~0
ASSUME NamesAssumption == NoProc \notin Procs /\ NoSector \notin Sector
ASSUME ProcsAssumption == IsFiniteSet(Procs)

VARIABLES
  sectorno, valid, refcnt, data,  \* fields of struct buf
  owner,     \* owner[b]: who has b->lock
  lru,       \* the list from head.next on: lru[1] is the most recent
  disk,      \* disk[s]: what the device holds
  bpc,       \* where p is
  bp,        \* bp[p]: the buffer p's call got, or NoBuf
  bwant,     \* bwant[p]: the sector p asked for, or NoSector
  panicked   \* panic("bget: no buffers"), whose hart keeps bcache.lock

bvars == <<sectorno, valid, refcnt, data, owner, lru, disk, bpc, bp, bwant, panicked>>
buffers == <<sectorno, valid, refcnt, data>>

(* "out"; in bread(): "acq" waiting for b->lock, "got" it, "io" in         *)
(* disk_read(); "hold" a buffer bread() returned, "dirty" changed it;      *)
(* "rel" in brelse() between the two locks.                                *)
BLabels == {"out", "acq", "got", "io", "hold", "dirty", "rel"}

Owning == {"got", "io", "hold", "dirty"}

BTypeOK ==
  /\ sectorno \in [Buf -> Sector \cup {NoSector}]
  /\ valid \in [Buf -> BOOLEAN]
  /\ refcnt \in [Buf -> Nat]
  /\ data \in [Buf -> Val]
  /\ owner \in [Buf -> Procs \cup {NoProc}]
  /\ lru \in [1..NBUF -> Buf]
  /\ disk \in [Sector -> Val]
  /\ bpc \in [Procs -> BLabels]
  /\ bp \in [Procs -> Buf \cup {NoBuf}]
  /\ bwant \in [Procs -> Sector \cup {NoSector}]
  /\ panicked \in BOOLEAN

(* binit() puts each buffer in front of the ones before it; b->valid and   *)
(* the data are not set.                                                   *)
BInit ==
  /\ sectorno = [b \in Buf |-> NoSector]
  /\ valid = [b \in Buf |-> FALSE]
  /\ refcnt = [b \in Buf |-> 0]
  /\ \E v \in Val : data = [b \in Buf |-> v]
  /\ owner = [b \in Buf |-> NoProc]
  /\ lru = [i \in 1..NBUF |-> NBUF + 1 - i]
  /\ disk \in [Sector -> Val]
  /\ bpc = [p \in Procs |-> "out"]
  /\ bp = [p \in Procs |-> NoBuf]
  /\ bwant = [p \in Procs |-> NoSector]
  /\ panicked = FALSE

BGoto(p, l) == bpc' = [bpc EXCEPT ![p] = l]

Cached(s) == \E b \in Buf : sectorno[b] = s

-----------------------------------------------------------------------------
(* bget() of a cached sector: a reference, then b->lock. *)
BgetHit(p, s) ==
  /\ ~panicked
  /\ bpc[p] = "out"
  /\ \E b \in Buf :
       /\ sectorno[b] = s
       /\ refcnt' = [refcnt EXCEPT ![b] = @ + 1]
       /\ bp' = [bp EXCEPT ![p] = b]
  /\ bwant' = [bwant EXCEPT ![p] = s]
  /\ BGoto(p, "acq")
  /\ UNCHANGED <<sectorno, valid, data, owner, lru, disk, panicked>>

(* The least recently used buffer nobody refers to. *)
IsVictim(b) ==
  \E i \in 1..NBUF :
     /\ lru[i] = b
     /\ refcnt[b] = 0
     /\ \A j \in (i + 1)..NBUF : refcnt[lru[j]] # 0

(* Mutant of BgetRecycle: b->valid is left as it was. *)
BgetRecycleKeepsValid(p, s) ==
  /\ ~panicked
  /\ bpc[p] = "out"
  /\ ~Cached(s)
  /\ \E b \in Buf :
       /\ IsVictim(b)
       /\ sectorno' = [sectorno EXCEPT ![b] = s]
       /\ refcnt' = [refcnt EXCEPT ![b] = 1]
       /\ bp' = [bp EXCEPT ![p] = b]
  /\ bwant' = [bwant EXCEPT ![p] = s]
  /\ BGoto(p, "acq")
  /\ UNCHANGED <<valid, data, owner, lru, disk, panicked>>

(* Mutant of BgetRecycle: the cache is not searched for the sector again   *)
(* after bcache.lock was given up in between.                              *)
BgetRecycleBlind(p, s) ==
  /\ ~panicked
  /\ bpc[p] = "out"
  /\ \E b \in Buf :
       /\ IsVictim(b)
       /\ sectorno' = [sectorno EXCEPT ![b] = s]
       /\ valid' = [valid EXCEPT ![b] = FALSE]
       /\ refcnt' = [refcnt EXCEPT ![b] = 1]
       /\ bp' = [bp EXCEPT ![p] = b]
  /\ bwant' = [bwant EXCEPT ![p] = s]
  /\ BGoto(p, "acq")
  /\ UNCHANGED <<data, owner, lru, disk, panicked>>

(* bget() of a sector that is not cached. *)
BgetRecycle(p, s) ==
  /\ ~panicked
  /\ bpc[p] = "out"
  /\ ~Cached(s)
  /\ \E b \in Buf :
       /\ IsVictim(b)
       /\ sectorno' = [sectorno EXCEPT ![b] = s]
       /\ valid' = [valid EXCEPT ![b] = FALSE]
       /\ refcnt' = [refcnt EXCEPT ![b] = 1]
       /\ bp' = [bp EXCEPT ![p] = b]
  /\ bwant' = [bwant EXCEPT ![p] = s]
  /\ BGoto(p, "acq")
  /\ UNCHANGED <<data, owner, lru, disk, panicked>>

(* bget() with every buffer referred to. *)
BgetPanic(p, s) ==
  /\ ~panicked
  /\ bpc[p] = "out"
  /\ ~Cached(s)
  /\ \A b \in Buf : refcnt[b] # 0
  /\ panicked' = TRUE
  /\ UNCHANGED <<buffers, owner, lru, disk, bpc, bp, bwant>>

(* acquiresleep(&b->lock) at the end of bget(). *)
AcquireSleep(p) ==
  /\ bpc[p] = "acq"
  /\ owner[bp[p]] = NoProc
  /\ owner' = [owner EXCEPT ![bp[p]] = p]
  /\ BGoto(p, "got")
  /\ UNCHANGED <<buffers, lru, disk, bp, bwant, panicked>>

(* bread(): valid is read with b->lock held, not bcache.lock. *)
BreadTest(p) ==
  /\ bpc[p] = "got"
  /\ BGoto(p, IF valid[bp[p]] THEN "hold" ELSE "io")
  /\ UNCHANGED <<buffers, owner, lru, disk, bp, bwant, panicked>>

(* disk_read(b); b->valid = 1 *)
DiskRead(p) ==
  LET b == bp[p] IN
  /\ bpc[p] = "io"
  /\ data' = [data EXCEPT ![b] = disk[sectorno[b]]]
  /\ valid' = [valid EXCEPT ![b] = TRUE]
  /\ BGoto(p, "hold")
  /\ UNCHANGED <<sectorno, refcnt, owner, lru, disk, bp, bwant, panicked>>

(* fat32.c changes what the buffer holds, and always calls bwrite() then. *)
Modify(p, v) ==
  /\ bpc[p] = "hold"
  /\ data' = [data EXCEPT ![bp[p]] = v]
  /\ BGoto(p, "dirty")
  /\ UNCHANGED <<sectorno, valid, refcnt, owner, lru, disk, bp, bwant, panicked>>

Bwrite(p) ==
  LET b == bp[p] IN
  /\ bpc[p] = "dirty"
  /\ disk' = [disk EXCEPT ![sectorno[b]] = data[b]]
  /\ BGoto(p, "hold")
  /\ UNCHANGED <<buffers, owner, lru, bp, bwant, panicked>>

(* brelse(): releasesleep(&b->lock) ... *)
BrelseUnlock(p) ==
  /\ bpc[p] = "hold"
  /\ owner' = [owner EXCEPT ![bp[p]] = NoProc]
  /\ BGoto(p, "rel")
  /\ UNCHANGED <<buffers, lru, disk, bp, bwant, panicked>>

(* The list with b moved to its head. *)
MovedToFront(b) ==
  LET k == CHOOSE i \in 1..NBUF : lru[i] = b
  IN [i \in 1..NBUF |-> IF i = 1 THEN b ELSE IF i <= k THEN lru[i - 1] ELSE lru[i]]

(* ... then, under bcache.lock, refcnt-- and the move to the head. *)
BrelseUnref(p) ==
  LET b == bp[p] IN
  /\ ~panicked
  /\ bpc[p] = "rel"
  /\ refcnt' = [refcnt EXCEPT ![b] = @ - 1]
  /\ lru' = IF refcnt[b] = 1 THEN MovedToFront(b) ELSE lru
  /\ bp' = [bp EXCEPT ![p] = NoBuf]
  /\ bwant' = [bwant EXCEPT ![p] = NoSector]
  /\ BGoto(p, "out")
  /\ UNCHANGED <<sectorno, valid, data, owner, disk, panicked>>

BNext ==
  \E p \in Procs :
     \/ \E s \in Sector : BgetHit(p, s) \/ BgetRecycle(p, s) \/ BgetPanic(p, s)
     \/ \E v \in Val : Modify(p, v)
     \/ AcquireSleep(p) \/ BreadTest(p) \/ DiskRead(p) \/ Bwrite(p)
     \/ BrelseUnlock(p) \/ BrelseUnref(p)

BSpec == BInit /\ [][BNext]_bvars

-----------------------------------------------------------------------------
(* A sector is in at most one buffer.                                      *)
OneBufferPerSector ==
  \A b, c \in Buf : sectorno[b] = sectorno[c] /\ sectorno[b] # NoSector => b = c

(* refcnt counts the processes between bget() and the end of brelse().     *)
RefsCounted ==
  \A b \in Buf : refcnt[b] = Cardinality({p \in Procs : bp[p] = b})

(* A process that is anywhere between bget() and brelse() has the sector   *)
(* it asked for: nobody recycled its buffer while it waited for b->lock.   *)
BufferKept ==
  \A p \in Procs : bp[p] # NoBuf => sectorno[bp[p]] = bwant[p] /\ bwant[p] # NoSector

(* A valid buffer nobody is changing agrees with the disk. *)
CleanBuffers ==
  \A b \in Buf :
     valid[b] /\ (\A p \in Procs : ~(bpc[p] = "dirty" /\ bp[p] = b)) =>
       sectorno[b] # NoSector /\ data[b] = disk[sectorno[b]]

(* b->lock has the owner the code believes it has. *)
LockOwner ==
  \A p \in Procs, b \in Buf : owner[b] = p <=> bp[p] = b /\ bpc[p] \in Owning

(* A process in the cache has a buffer, and one bread() gave it is valid. *)
Points ==
  \A p \in Procs :
     /\ bp[p] = NoBuf <=> bpc[p] = "out"
     /\ bpc[p] \in {"hold", "dirty"} => valid[bp[p]]
     /\ bpc[p] = "io" => ~valid[bp[p]]

(* The inductive invariant: bcache.lock protects the identity of a buffer  *)
(* and refcnt, b->lock its contents, and refcnt keeps the identity fixed   *)
(* for those who wait for b->lock without bcache.lock.                     *)
BIndInv ==
  /\ BTypeOK /\ Points /\ LockOwner
  /\ OneBufferPerSector /\ RefsCounted /\ BufferKept /\ CleanBuffers

HeldBy(b) == owner[b] # NoProc /\ bpc[owner[b]] \in {"hold", "dirty"}

(* The sector store the file system sees. *)
contentBar ==
  [s \in Sector |->
     IF \E b \in Buf : sectorno[b] = s /\ valid[b]
     THEN data[CHOOSE b \in Buf : sectorno[b] = s /\ valid[b]]
     ELSE disk[s]]
userBar ==
  [s \in Sector |->
     IF \E b \in Buf : sectorno[b] = s /\ HeldBy(b)
     THEN owner[CHOOSE b \in Buf : sectorno[b] = s /\ HeldBy(b)]
     ELSE NoProc]

Store == INSTANCE SectorStore WITH content <- contentBar, user <- userBar

(* bread(), bwrite() and brelse() implement the sector store: exclusive    *)
(* access to each sector, and no update lost to recycling.                 *)
ImplementsSectorStore == Store!SSpec
=============================================================================
