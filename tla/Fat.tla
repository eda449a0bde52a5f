--------------------------------- MODULE Fat ---------------------------------
(***************************************************************************)
(* The FAT32 volume of fat32.c: the allocation table, the chains of        *)
(* clusters of files and directories, the slots of a directory, and the    *)
(* calls of file.c and sysfile.c that reach them: open, read, write,       *)
(* close, mkdir, remove and rename, in one directory, by several           *)
(* processes.                                                              *)
(*                                                                         *)
(* A cluster holds C cells: bytes of a file, or 32-byte slots of a         *)
(* directory; the offsets of a directory are in slots.  A step is one      *)
(* access to a sector of the table that other processes use too, one       *)
(* acquisition or release of a sleep lock, or one cluster's worth of       *)
(* reading or writing under it.  todo[p] is what p has still to do in its  *)
(* call.                                                                   *)
(***************************************************************************)
EXTENDS Integers, Sequences, FiniteSets, Functions

CONSTANTS
  Procs,
  NENT,      \* entries of the cache, the root apart
  LAST,      \* the last cluster, data_clus_cnt + 1
  FATSZ,     \* sectors of the table
  PERSEC,    \* entries of a sector of it
  C,         \* cells of a cluster
  Names,     \* names, as sequences of pieces of CHAR_LONG_NAME characters
  Initial,   \* the low six bits of the first character of a name
  Loads,     \* what the processes do, and the volume they start from
  NoProc, None, Orphan

ASSUME SizesAssumption ==
  /\ C \in Nat \ {0} /\ FATSZ \in Nat \ {0} /\ PERSEC \in Nat \ {0} /\ NENT \in Nat
  /\ LAST \in 2..(FATSZ * PERSEC - 1)
ASSUME ProcsAssumption == IsFiniteSet(Procs) /\ NoProc \notin Procs
\* a name is a sequence, and has characters
ASSUME NamesAssumption ==
  \A n \in Names : Len(n) \in Nat \ {0} /\ n = [k \in 1..Len(n) |-> n[k]]
\* None is no open file
ASSUME NoneAssumption == None \notin [e : 0..NENT, off : Nat]

VARIABLES
  load, calls,   \* the member of Loads that runs, and the calls each process has left
  fat,           \* the table
  data,          \* the cells of each cluster
  ent,           \* the cache of entries; 0 is the root
  lru,           \* root.next ... root.prev
  todo,
  file,          \* the open file of a process, [e, off], or None
  got,           \* what its last read returned
  faults,        \* whether user memory may still fail
  panicked
vars == <<load, calls, fat, data, ent, lru, todo, file, got, faults, panicked>>

EOC == FATSZ * PERSEC      \* FAT32_EOC and what is above it
BAD == EOC + 1       \* the mark of a bad cluster
Root == 0
Entry == 0..NENT
Cluster == 0..(FATSZ * PERSEC - 1)
\* a byte of a file; a slot that begins with a zero byte is the end
Byte(v) == [k |-> "byte", v |-> v]
Zeros == [k \in 0..(C - 1) |-> Byte(0)]
IsCluster(c) == c >= 2 /\ c < EOC

-----------------------------------------------------------------------------
(* The table and the chains *)
read_fat(c) == IF c >= EOC THEN c ELSE IF c > LAST THEN 0 ELSE fat[c]

\* the cluster n further than c, which is EOC or 0 behind the end, and the chain from c on
Nth(c, n) ==
  LET succ == [d \in 0..BAD |-> read_fat(d)]
      go[k \in 0..n] == IF k = 0 THEN c ELSE succ[go[k-1]]
  IN go[n]
Chain(c) ==
  LET ends == {k \in 0..LAST : ~IsCluster(Nth(c, k))}
      len == IF ends = {} THEN LAST ELSE CHOOSE k \in ends : \A j \in ends : k <= j
  IN [k \in 1..len |-> Nth(c, k - 1)]

\* the loops of reloc_clus(): from the current cluster, or from the first one if that is
\* too far, towards cluster number n of the chain, or to its last one
Seek(x, n) ==
  LET cur == IF n < x.cnt THEN x.first ELSE x.cur
      cnt == IF n < x.cnt THEN 0 ELSE x.cnt
      steps == {k \in 0..(n - cnt) : \A j \in 0..k : Nth(cur, j) < EOC}
      k == CHOOSE k \in steps : \A j \in steps : j <= k
  IN [cur |-> Nth(cur, k), cnt |-> cnt + k]
MoveTo(x, w) == [x EXCEPT !.cur = w.cur, !.cnt = w.cnt]
\* reloc_clus() without alloc
reloc_clus(x, off) ==
  LET w == Seek(x, off \div C)
  IN IF w.cnt = off \div C THEN MoveTo(x, w) ELSE MoveTo(x, [cur |-> x.first, cnt |-> 0])

\* the element of a set that has one
The(S) == CHOOSE x \in S : TRUE
\* the cell of a chain at off, zero behind its end, and n of them
Cell(first, off) ==
  The({IF IsCluster(c) THEN data[c][off % C] ELSE Byte(0) : c \in {Nth(first, off \div C)}})
Cells(first, off, n) == [k \in 1..n |-> Cell(first, off + k - 1)]

-----------------------------------------------------------------------------
(* The slots of a directory *)
EMPTY_ENTRY == [k |-> "empty"]
Long(n, i) == [k |-> "long", order |-> i, last |-> i = Len(n), piece |-> n[i]]
Short(n, x) == [k |-> "short", name |-> n, first |-> x.first, size |-> x.size, dir |-> x.dir]
Slot == 0..(C * LAST)
\* what is at off in the directory whose first cluster is d; "byte" is END_OF_ENTRY, or
\* the end of the chain
Kind(d, off) == Cell(d, off).k

\* the slots of a file: its long entries, last one first, and the short one
Complete(d, off, n) ==
  /\ \A i \in 1..n : \E c \in {Cell(d, off + n - i)} :
       c.k = "long" /\ c.order = i /\ c.last = (i = n)
  /\ Kind(d, off + n) = "short"
Behind(d, off) == CHOOSE m \in Slot : /\ m >= off /\ Kind(d, m) # "empty"
                                      /\ \A j \in off..(m-1) : Kind(d, j) = "empty"
Entry1(d, off, n) == [ret |-> 1, count |-> n + 1, info |-> Cell(d, off + n),
                      name |-> [i \in 1..n |-> Cell(d, off + n - i).piece]]
\* enext(): what it returns, the count of slots, and what it read
enext(d, off) == The({
  CASE c.k = "byte" -> [ret |-> -1]
    [] c.k = "empty" ->
         IF Kind(d, Behind(d, off)) = "byte" THEN [ret |-> -1]
         ELSE [ret |-> 0, count |-> Behind(d, off) - off, name |-> <<>>]
    [] c.k = "long" ->
         IF Complete(d, off, c.order) THEN Entry1(d, off, c.order) ELSE [ret |-> -1]
    [] c.k = "short" -> [ret |-> 1, count |-> 1, info |-> c, name |-> c.name]
  : c \in {Cell(d, off)}})

\* the loop of dirlookup(): what enext() returns is compared with -1 before it is
\* assigned, so free slots are passed over like files that have no name
dirlookup(d, n) ==
  LET from[off \in Slot] == The({
        IF r.ret = -1 THEN [found |-> FALSE, off |-> off]
        ELSE IF r.name = n THEN [found |-> TRUE, off |-> off, info |-> r.info]
        ELSE from[off + r.count] : r \in {enext(d, off)}})
  IN from[0]
isdirempty(x) == enext(x.first, 2).ret = -1

-----------------------------------------------------------------------------
(* Steps *)
At(p, op) == todo[p] # <<>> /\ Head(todo[p]).op = op /\ panicked = "none"
Now(p) == Head(todo[p])
Push(p, steps) == todo' = [todo EXCEPT ![p] = steps \o Tail(@)]
Pop(p) == Push(p, <<>>)
elock(e) == [op |-> "elock", e |-> e]
eunlock(e) == [op |-> "eunlock", e |-> e]
eput(e) == [op |-> "eput", e |-> e]
etrunc(e, first) == [op |-> "etrunc", e |-> e, c |-> first]
alloc_clus(e, how) == [op |-> "alloc", e |-> e, sec |-> 0, how |-> how]
\* reloc_clus(e, off, 1) and rw_clus() of the cells, which are in one cluster
Store(e, off, cells, user) ==
  [op |-> "store", e |-> e, off |-> off, cells |-> cells, user |-> user]

Elock(p) ==
  /\ At(p, "elock") /\ ent[Now(p).e].lock = NoProc
  /\ ent' = [ent EXCEPT ![Now(p).e].lock = p] /\ Pop(p)
  /\ UNCHANGED <<load, lru, calls, fat, data, file, got, faults, panicked>>

Eunlock(p) ==
  /\ At(p, "eunlock")
  /\ ent' = [ent EXCEPT ![Now(p).e].lock = NoProc] /\ Pop(p)
  /\ UNCHANGED <<load, lru, calls, fat, data, file, got, faults, panicked>>

\* alloc_clus() with one sector of the table locked: the first free entry, whether or
\* not the volume has such a cluster; zero_clus() follows while nobody else knows it
LowestFree(sec) ==
  LET free == {c \in (sec * PERSEC)..((sec + 1) * PERSEC - 1) : fat[c] = 0}
  IN IF free = {} THEN {} ELSE {CHOOSE c \in free : \A d \in free : c <= d}
Alloc(p) ==
  /\ At(p, "alloc")
  /\ LET i == Now(p) IN
     IF LowestFree(i.sec) # {}
     THEN \E c \in LowestFree(i.sec) :
            /\ fat' = [fat EXCEPT ![c] = EOC]
            /\ data' = [data EXCEPT ![c] = Zeros]
            /\ IF c <= LAST THEN Push(p, <<[i EXCEPT !.op = "link", !.sec = c]>>) /\ UNCHANGED panicked
               ELSE panicked' = "past the last cluster" /\ UNCHANGED todo
     ELSE /\ IF i.sec + 1 < FATSZ
             THEN Push(p, <<[i EXCEPT !.sec = @ + 1]>>) /\ UNCHANGED panicked
             ELSE panicked' = "no clusters" /\ UNCHANGED todo
          /\ UNCHANGED <<fat, data>>
  /\ UNCHANGED <<load, lru, calls, ent, file, got, faults>>

\* the new cluster becomes the first of an empty file or directory, or is linked to the
\* last one by write_fat()
Link_First(p) ==
  LET i == Now(p) IN
  /\ ent' = [ent EXCEPT ![i.e] = [@ EXCEPT !.first = i.sec, !.cur = i.sec, !.cnt = 0,
                                           !.dirty = i.how = "write"]]
  /\ UNCHANGED fat
Link_More(p) ==
  LET i == Now(p) x == ent[i.e] IN
  /\ fat' = [fat EXCEPT ![x.cur] = i.sec]
  /\ ent' = [ent EXCEPT ![i.e] = MoveTo(@, [cur |-> i.sec, cnt |-> x.cnt + 1])]
Link(p) ==
  /\ At(p, "link")
  /\ IF Now(p).how = "more" THEN Link_More(p) ELSE Link_First(p)
  /\ Pop(p)
  /\ UNCHANGED <<load, lru, calls, data, file, got, faults, panicked>>

Written(cells, off, b) ==
  [k \in 0..(C - 1) |-> IF k >= off % C /\ k < (off % C) + Len(b) THEN b[k - (off % C) + 1] ELSE cells[k]]
\* one turn of the loop of ewrite(), or a slot of emake(): a cluster is allocated first if
\* the chain ends too early.  The caller's memory may fail after some of the cells
StoreStep(p) ==
  /\ At(p, "store")
  /\ LET i == Now(p) x == ent[i.e] w == Seek(x, i.off \div C) IN
     \/ /\ w.cnt = i.off \div C
        /\ ent' = [ent EXCEPT ![i.e] = MoveTo(@, w)]
        /\ data' = [data EXCEPT ![w.cur] = Written(@, i.off, i.cells)]
        /\ Pop(p) /\ UNCHANGED faults
     \/ /\ w.cnt = i.off \div C /\ i.user /\ faults
        /\ ent' = [ent EXCEPT ![i.e] = MoveTo(@, w)]
        /\ \E m \in 0..(Len(i.cells) - 1) :
             data' = [data EXCEPT ![w.cur] = Written(@, i.off, SubSeq(i.cells, 1, m))]
        /\ todo' = [todo EXCEPT ![p] = <<[op |-> "wrote", e |-> i.e, off |-> i.off, ok |-> FALSE],
                                         eunlock(i.e)>>]
        /\ faults' = FALSE
     \/ /\ w.cnt # i.off \div C
        /\ ent' = [ent EXCEPT ![i.e] = MoveTo(@, w)]
        /\ todo' = [todo EXCEPT ![p] = <<alloc_clus(i.e, "more")>> \o @]
        /\ UNCHANGED <<data, faults>>
  /\ UNCHANGED <<load, lru, calls, fat, file, got, panicked>>

\* one turn of the loop of etrunc(), and what follows it
Etrunc_KeepsFirst(x) == [x EXCEPT !.size = 0, !.dirty = TRUE]
EtruncEnd(x) == [x EXCEPT !.size = 0, !.first = 0, !.dirty = TRUE]
Etrunc(p) ==
  /\ At(p, "etrunc")
  /\ LET i == Now(p) IN
     IF IsCluster(i.c)
     THEN /\ Push(p, <<[i EXCEPT !.c = read_fat(i.c)]>>)
          /\ fat' = [fat EXCEPT ![i.c] = 0]
          /\ UNCHANGED ent
     ELSE /\ ent' = [ent EXCEPT ![i.e] = EtruncEnd(@)]
          /\ Pop(p) /\ UNCHANGED fat
  /\ UNCHANGED <<load, lru, calls, data, file, got, faults, panicked>>

-----------------------------------------------------------------------------
(* Directory entries *)
Dots == <<<<".">>, <<"..">>>>
\* emake(): the slots that are written for x at off; the first two are always "." and ".."
emake(d, x, off) ==
  IF off <= 1 THEN <<Store(d, off, <<Short(Dots[off + 1], [x EXCEPT !.dir = TRUE, !.size = 0])>>, FALSE)>>
  ELSE LET n == Len(x.name) IN
       [k \in 1..(n + 1) |->
          Store(d, off + k - 1, <<IF k <= n THEN Long(x.name, n + 1 - k) ELSE Short(<<>>, x)>>, FALSE)]
Emake(p) ==
  /\ At(p, "emake")
  /\ Push(p, emake(Now(p).e, ent[Now(p).x], Now(p).off))
  /\ UNCHANGED <<load, lru, calls, fat, data, ent, file, got, faults, panicked>>

\* the end of ealloc()
Valid(p) ==
  /\ At(p, "valid")
  /\ ent' = [ent EXCEPT ![Now(p).e].valid = 1, ![Now(p).e].lock = NoProc] /\ Pop(p)
  /\ UNCHANGED <<load, lru, calls, fat, data, file, got, faults, panicked>>

\* the cell of directory d at off is changed to v
SetCells(d, offs, v) ==
  LET s == Chain(ent[d].first) IN
  [c \in Cluster |-> [k \in 0..(C - 1) |->
     IF \E o \in offs : c = s[o \div C + 1] /\ k = o % C THEN v ELSE data[c][k]]]
\* what eupdate() and eremove() take for the number of long entries; a file that has none
\* has its name there
OrderAt(d, off) == The({IF c.k = "long" THEN c.order ELSE Initial[c.name] : c \in {Cell(ent[d].first, off)}})

\* eupdate(): size and first cluster go to the short entry
Update(x) == x.dirty /\ x.valid = 1
Eupdate(p) ==
  /\ At(p, "eupdate")
  /\ LET e == Now(p).e x == ent[e] o == x.off + OrderAt(Root, x.off) IN
     IF Update(x)
     THEN /\ data' = SetCells(Root, {o}, [Cell(ent[Root].first, o) EXCEPT
                                          !.first = x.first, !.size = x.size])
          /\ ent' = [ent EXCEPT ![e].dirty = FALSE, ![Root] = reloc_clus(@, o)]
     ELSE UNCHANGED <<data, ent>>
  /\ Pop(p)
  /\ UNCHANGED <<load, lru, calls, fat, file, got, faults, panicked>>

\* eremove(): all slots of the entry are marked
Slots_ShortOnly(off, n) == {off + n}
Slots(off, n) == off..(off + n)
Eremove(p) ==
  /\ At(p, "eremove")
  /\ LET e == Now(p).e x == ent[e] n == OrderAt(Root, x.off) IN
     IF x.valid = 1
     THEN /\ data' = SetCells(Root, Slots(x.off, n), EMPTY_ENTRY)
          /\ ent' = [ent EXCEPT ![e].valid = -1, ![Root] = reloc_clus(@, x.off + n + 1)]
     ELSE UNCHANGED <<data, ent>>
  /\ Pop(p)
  /\ UNCHANGED <<load, lru, calls, fat, file, got, faults, panicked>>

\* eput(): the last reference flushes the entry, or frees what was removed
Flush(e) == <<elock(Root), [op |-> "eupdate", e |-> e], eunlock(Root)>>
LastPut_OnlyFlushes(e) == Flush(e)
LastPut(e) == IF ent[e].valid = -1 THEN <<etrunc(e, ent[e].first)>> ELSE Flush(e)
Eput(p) ==
  /\ At(p, "eput")
  /\ LET e == Now(p).e x == ent[e] IN
     IF x.ref = 1 /\ x.valid # 0
     THEN /\ x.lock = NoProc
          /\ ent' = [ent EXCEPT ![e].lock = p]
          /\ lru' = <<e>> \o SelectSeq(lru, LAMBDA y : y # e)
          /\ Push(p, LastPut(e) \o <<[op |-> "drop", e |-> e]>>)
     ELSE ent' = [ent EXCEPT ![e].ref = @ - 1] /\ Pop(p) /\ UNCHANGED lru
  /\ UNCHANGED <<load, calls, fat, data, file, got, faults, panicked>>
Drop(p) ==
  /\ At(p, "drop")
  /\ ent' = [ent EXCEPT ![Now(p).e].lock = NoProc, ![Now(p).e].ref = @ - 1] /\ Pop(p)
  /\ UNCHANGED <<load, lru, calls, fat, data, file, got, faults, panicked>>

-----------------------------------------------------------------------------
(* Calls *)
Creates(c) == c.k = "mkdir" \/ (c.k = "open" /\ c.create)
\* what the call does with the entry e, once the root is locked and looked up
After(c, e, dir) ==
  <<eunlock(Root)>> \o
  CASE Creates(c) /\ dir # (c.k = "mkdir") -> <<eput(e)>>
    [] c.k = "open" /\ ~(c.create /\ dir) -> <<elock(e), [op |-> "opened", e |-> e, c |-> c]>>
    [] c.k = "mkdir" /\ dir -> <<elock(e), eunlock(e), eput(e)>>
    [] c.k = "remove" -> <<elock(e), [op |-> "remove", e |-> e]>>
    [] c.k = "rename" -> <<elock(e), elock(Root), [op |-> "target", e |-> e, c |-> c]>>

Fill(n, dir, first, size, off) ==
  [name |-> n, dir |-> dir, first |-> first, size |-> size, cur |-> first, cnt |-> 0,
   dirty |-> FALSE, valid |-> 1, ref |-> 1, off |-> off, lock |-> NoProc]
\* the least recently used entry without references
Unused == {e \in Entry \ {Root} : ent[e].ref = 0}
Victim == {lru[k] : k \in {k \in DOMAIN lru : lru[k] \in Unused /\
                            \A j \in (k+1)..Len(lru) : lru[j] \notin Unused}}

\* dirlookup() in the root, which is locked, and ealloc() where it finds nothing
Lookup(p) ==
  /\ At(p, "lookup")
  /\ LET c == Now(p).c r == dirlookup(ent[Root].first, c.name)
         hits == {e \in Entry \ {Root} : ent[e].valid = 1 /\ ent[e].name = c.name}
         root == reloc_clus(ent[Root], r.off)
     IN CASE hits # {} ->
               \E e \in hits : ent' = [ent EXCEPT ![e].ref = @ + 1] /\ Push(p, After(c, e, ent[e].dir))
          [] hits = {} /\ r.found ->
               \E e \in Victim :
                 /\ ent' = [ent EXCEPT ![Root] = root,
                       ![e] = Fill(c.name, r.info.dir, r.info.first, r.info.size, r.off)]
                 /\ Push(p, After(c, e, r.info.dir))
          [] hits = {} /\ ~r.found /\ ~Creates(c) ->
               \E e \in Victim : /\ ent' = [ent EXCEPT ![Root] = root, ![e].valid = 0]
                                 /\ Push(p, <<eunlock(Root)>>)
          [] hits = {} /\ ~r.found /\ Creates(c) ->
               \E e \in Victim :
                 /\ ent' = [ent EXCEPT ![Root] = root,
                       ![e] = [Fill(c.name, c.k = "mkdir", 0, 0, r.off) EXCEPT
                                 !.valid = 0, !.lock = p]]
                 /\ Push(p, (IF c.k = "mkdir"
                             THEN <<alloc_clus(e, "dir"),
                                    [op |-> "emake", e |-> e, x |-> e, off |-> 0],
                                    [op |-> "emake", e |-> e, x |-> Root, off |-> 1]>>
                             ELSE <<>>) \o
                            <<[op |-> "emake", e |-> Root, x |-> e, off |-> r.off],
                              [op |-> "valid", e |-> e]>> \o After(c, e, c.k = "mkdir"))
  /\ UNCHANGED <<load, lru, calls, fat, data, file, got, faults, panicked>>

\* the rest of sys_open(), with the entry locked
Opened(p) ==
  /\ At(p, "opened")
  /\ LET i == Now(p) x == ent[i.e] IN
     Push(p, IF x.dir THEN <<eunlock(i.e), eput(i.e)>>
             ELSE (IF i.c.trunc THEN <<etrunc(i.e, x.first)>> ELSE <<>>) \o
                  <<[op |-> "setfile", e |-> i.e, append |-> i.c.append], eunlock(i.e)>>)
  /\ UNCHANGED <<load, lru, calls, fat, data, ent, file, got, faults, panicked>>
SetFile(p) ==
  /\ At(p, "setfile")
  /\ file' = [file EXCEPT ![p] = [e |-> Now(p).e,
                                  off |-> IF Now(p).append THEN ent[Now(p).e].size ELSE 0]]
  /\ Pop(p)
  /\ UNCHANGED <<load, lru, calls, fat, data, ent, got, faults, panicked>>

\* ewrite() with the entry locked: an empty file gets its first cluster, then a piece
\* goes to each cluster
Pieces(e, off, b) ==
  LET cut(k) == IF k = 0 THEN 0 ELSE IF k * C - (off % C) < Len(b) THEN k * C - (off % C) ELSE Len(b)
      n == ((off % C) + Len(b) + C - 1) \div C
  IN [k \in 1..n |-> Store(e, off + cut(k-1), SubSeq(b, cut(k-1) + 1, cut(k)), TRUE)]
Ewrite(p) ==
  /\ At(p, "ewrite")
  /\ LET i == Now(p) x == ent[i.e] off == file[p].off b == i.bytes IN
     Push(p, IF off > x.size THEN <<eunlock(i.e)>>
             ELSE (IF x.first = 0 THEN <<alloc_clus(i.e, "write")>> ELSE <<>>) \o
                  Pieces(i.e, off, b) \o
                  <<[op |-> "wrote", e |-> i.e, off |-> off + Len(b), ok |-> TRUE], eunlock(i.e)>>)
  /\ UNCHANGED <<load, lru, calls, fat, data, ent, file, got, faults, panicked>>

\* the end of ewrite() and of filewrite()
Grown_Always(x, off) == [x EXCEPT !.size = off, !.dirty = TRUE]
Grown(x, off) == IF off > x.size THEN [x EXCEPT !.size = off, !.dirty = TRUE] ELSE x
Wrote(p) ==
  /\ At(p, "wrote")
  /\ LET i == Now(p) IN
     /\ ent' = [ent EXCEPT ![i.e] = Grown(@, i.off)]
     /\ file' = IF i.ok THEN [file EXCEPT ![p].off = i.off] ELSE file
  /\ Pop(p)
  /\ UNCHANGED <<load, lru, calls, fat, data, got, faults, panicked>>

\* sys_remove() with the entry locked
Remove(p) ==
  /\ At(p, "remove")
  /\ LET e == Now(p).e x == ent[e] IN
     Push(p, IF x.dir /\ ~isdirempty(x) THEN <<eunlock(e), eput(e)>>
             ELSE <<elock(Root), [op |-> "eremove", e |-> e], eunlock(Root), eunlock(e), eput(e)>>)
  /\ UNCHANGED <<load, lru, calls, fat, data, ent, file, got, faults, panicked>>

\* sys_rename() with the entry and the root locked: a new name that is taken is refused
\* (directories that replace directories are in ECache); else the entry is written again
\* under the new name, and the old one removed
Target(p) ==
  /\ At(p, "target")
  /\ LET i == Now(p) r == dirlookup(ent[Root].first, i.c.new)
         hits == {e \in Entry \ {Root} : ent[e].valid = 1 /\ ent[e].name = i.c.new}
         Fails(dst) == <<eunlock(Root), eunlock(i.e), eput(dst), eput(i.e)>>
         root == reloc_clus(ent[Root], r.off)
     IN CASE hits # {} ->
               \E e \in hits : ent' = [ent EXCEPT ![e].ref = @ + 1] /\ Push(p, Fails(e))
          [] hits = {} /\ r.found ->
               \E e \in Victim :
                 /\ ent' = [ent EXCEPT ![Root] = root,
                       ![e] = Fill(i.c.new, r.info.dir, r.info.first, r.info.size, r.off)]
                 /\ Push(p, Fails(e))
          [] hits = {} /\ ~r.found ->
               \E e \in Victim :
                 /\ ent' = [ent EXCEPT ![Root] = root, ![e].valid = 0, ![i.e].name = i.c.new]
                 /\ Push(p, <<[op |-> "emake", e |-> Root, x |-> i.e, off |-> r.off],
                              [op |-> "eremove", e |-> i.e], eunlock(Root),
                              [op |-> "renamed", e |-> i.e, off |-> r.off, old |-> i.c.name],
                              eunlock(i.e), eput(i.e)>>)
  /\ UNCHANGED <<load, lru, calls, fat, data, file, got, faults, panicked>>

\* the root is unlocked already
Renamed(p) ==
  /\ At(p, "renamed")
  /\ ent' = [ent EXCEPT ![Now(p).e].off = Now(p).off, ![Now(p).e].valid = 1] /\ Pop(p)
  /\ UNCHANGED <<load, lru, calls, fat, data, file, got, faults, panicked>>

Idle(p) == todo[p] = <<>> /\ panicked = "none"
Calls(p, k) == Idle(p) /\ calls[p] # <<>> /\ Head(calls[p]).k \in k
Return(p) == calls' = [calls EXCEPT ![p] = Tail(@)]

\* these calls start in the root
CallName(p) ==
  /\ Calls(p, {"open", "mkdir", "remove", "rename"}) /\ Return(p)
  /\ todo' = [todo EXCEPT ![p] = <<elock(Root), [op |-> "lookup", c |-> Head(calls[p])]>>]
  /\ UNCHANGED <<load, lru, fat, data, ent, file, got, faults, panicked>>

CallWrite(p) ==
  /\ Calls(p, {"write"}) /\ Return(p)
  /\ todo' = [todo EXCEPT ![p] = IF file[p] = None THEN <<>>
       ELSE <<elock(file[p].e), [op |-> "ewrite", e |-> file[p].e, bytes |-> Head(calls[p]).bytes]>>]
  /\ UNCHANGED <<load, lru, fat, data, ent, file, got, faults, panicked>>

\* fileread(), in one step: it reads nothing but the locked file
CallRead(p) ==
  /\ Calls(p, {"read"}) /\ Return(p)
  /\ IF file[p] = None THEN UNCHANGED <<ent, file, got>>
     ELSE LET e == file[p].e x == ent[e] off == file[p].off n == Head(calls[p]).n
              m == IF off > x.size THEN 0 ELSE IF off + n > x.size THEN x.size - off ELSE n
          IN /\ x.lock = NoProc
             /\ got' = [got EXCEPT ![p] = IF m = 0 THEN <<>> ELSE Cells(x.first, off, m)]
             /\ file' = [file EXCEPT ![p].off = @ + m]
             /\ ent' = IF m = 0 THEN ent ELSE [ent EXCEPT ![e] = reloc_clus(@, off + m - 1)]
  /\ UNCHANGED <<load, lru, fat, data, todo, faults, panicked>>

CallClose(p) ==
  /\ Calls(p, {"close"}) /\ Return(p)
  /\ todo' = [todo EXCEPT ![p] = IF file[p] = None THEN <<>> ELSE <<eput(file[p].e)>>]
  /\ file' = [file EXCEPT ![p] = None]
  /\ UNCHANGED <<load, lru, fat, data, ent, got, faults, panicked>>

Init ==
  /\ load \in Loads /\ calls = load.calls
  /\ fat = load.fat /\ data = load.data
  /\ ent = [e \in Entry |->
       [Fill(<<>>, e = Root, IF e = Root THEN 2 ELSE 0, 0, 0) EXCEPT
          !.valid = IF e = Root THEN 1 ELSE 0, !.ref = IF e = Root THEN 1 ELSE 0]]
  /\ lru = [k \in 1..NENT |-> NENT + 1 - k]
  /\ todo = [p \in Procs |-> <<>>] /\ file = [p \in Procs |-> None]
  /\ got = [p \in Procs |-> <<>>] /\ faults = load.faults /\ panicked = "none"

Next == \E p \in Procs :
  \/ CallName(p) \/ CallWrite(p) \/ CallRead(p) \/ CallClose(p)
  \/ Elock(p) \/ Eunlock(p) \/ Lookup(p) \/ Emake(p) \/ Valid(p) \/ Opened(p) \/ SetFile(p)
  \/ Ewrite(p) \/ StoreStep(p) \/ Alloc(p) \/ Link(p) \/ Wrote(p) \/ Etrunc(p)
  \/ Eput(p) \/ Drop(p) \/ Eupdate(p) \/ Remove(p) \/ Eremove(p) \/ Target(p) \/ Renamed(p)
Spec == Init /\ [][Next]_vars
-----------------------------------------------------------------------------
(***************************************************************************)
(* Properties                                                              *)
(***************************************************************************)
Max(a, b) == IF a > b THEN a ELSE b
Quiet == ent[Root].lock = NoProc           \* no directory slot is being written
Listing ==
  LET d == ent[Root].first
      from[off \in Slot] ==
        LET r == enext(d, off)
        IN IF r.ret = -1 THEN {}
           ELSE (IF r.ret = 1 THEN {[off |-> off, name |-> r.name, info |-> r.info]} ELSE {})
                \cup from[off + r.count]
  IN from[0]
Steps(p) == {todo[p][k] : k \in DOMAIN todo[p]}
Renaming(e) == \E p \in Procs : \E i \in Steps(p) : i.op = "renamed" /\ i.e = e
Named(e) == ent[e].valid = 1 \/ Renaming(e)
Cached(n) == {e \in Entry \ {Root} : Named(e) /\ ent[e].name = n}
\* n is the old name of an entry that has the new one already
Leaving(n) == \E p \in Procs : /\ \E i \in Steps(p) : i.op = "renamed" /\ i.old = n
                               /\ \E i \in Steps(p) : i.op = "eremove"
Truncating(e) == {p \in Procs : todo[p] # <<>> /\ Now(p).op = "etrunc" /\ Now(p).e = e}

\* who has clusters, and from which one on: entries in memory, files found on disk only
InMemory == {e \in Entry : ent[e].valid = 1 \/ ent[e].ref > 0}
FirstOf(e) == IF Truncating(e) = {} THEN ent[e].first
              ELSE Now(CHOOSE p \in Truncating(e) : TRUE).c
Owners == {[e |-> e, name |-> <<>>, first |-> FirstOf(e)] : e \in InMemory} \cup
          {[e |-> -1, name |-> l.name, first |-> l.info.first] : l \in {m \in Listing : Cached(m.name) = {}}}

\* Whatever is allocated, linked and freed at the same time by calls on different files,
\* each chain of clusters ends, none of its clusters is free, and no cluster is in two
\* files or directories.
ChainsDisjoint == (Quiet /\ panicked = "none") =>
  /\ \A o \in Owners : IsCluster(o.first) =>
       LET s == Chain(o.first) IN
       /\ Cardinality(Range(s)) = Len(s) /\ read_fat(s[Len(s)]) = EOC
       /\ Range(s) \subseteq 2..LAST
  /\ \A o, q \in Owners : o # q => Range(Chain(o.first)) \cap Range(Chain(q.first)) = {}

\* The slots of the directory are those of whole entries, every name once, with nothing
\* but zeros after the end; an entry in memory knows where its slots are, and once it is
\* closed what the disk says of it is what the memory says.
DirectoryRight == Quiet => LET d == ent[Root].first list == Listing IN
  /\ \A l, m \in list : l.name = m.name => l = m
  /\ \A o \in 0..(C * Len(Chain(d)) - 1) : Kind(d, o) \in {"byte", "empty"} \/
       \E l \in list : o \in l.off..(l.off + Len(l.name))
  /\ \A e \in Entry \ {Root} : ent[e].valid = 1 =>
       \E l \in list :
         /\ l.off = ent[e].off /\ l.name = ent[e].name
         /\ ent[e].ref > 0 \/ (l.info.first = ent[e].first /\ l.info.size = ent[e].size)

\* When no call is under way every allocated cluster belongs to a file or a directory: no
\* call leaks one, whichever of its steps failed.
NoClusterLost == (\A p \in Procs : Idle(p)) =>
  {c \in 2..LAST : fat[c] # 0 /\ load.fat[c] # BAD} \subseteq
  UNION {Range(Chain(o.first)) : o \in Owners}

(* The files as FileStore has them *)
WriteSteps(p) ==
  SelectSeq(todo[p], LAMBDA i : i.op = "wrote" \/ (i.op = "store" /\ i.user))
Progress(e) ==
  LET ws == {p \in Procs : WriteSteps(p) # <<>> /\ WriteSteps(p)[1].e = e}
  IN IF ws = {} THEN 0 ELSE WriteSteps(CHOOSE p \in ws : TRUE)[1].off
Bytes(e) == IF Truncating(e) # {} THEN <<>>
            ELSE Cells(ent[e].first, 0, Max(ent[e].size, Progress(e)))
visibleBar == [n \in Names |->
  IF Cached(n) # {} THEN LET e == CHOOSE e \in Cached(n) : TRUE
                         IN IF ent[e].dir THEN None ELSE Bytes(e)
  ELSE IF Leaving(n) \/ \E e \in InMemory : ent[e].valid = 0 /\ ent[e].name = n THEN None
  ELSE The({IF r.found THEN IF r.info.dir THEN None ELSE Cells(r.info.first, 0, r.info.size)
            ELSE None : r \in {dirlookup(ent[Root].first, n)}})]
handleBar == [p \in Procs |->
  IF file[p] = None THEN None
  ELSE IF Named(file[p].e) THEN ent[file[p].e].name ELSE Orphan]
orphanBar == [p \in Procs |-> IF handleBar[p] = Orphan THEN Bytes(file[p].e) ELSE <<>>]
atBar == [p \in Procs |-> IF file[p] = None THEN 0 ELSE file[p].off]
Joined(s) == LET upto[k \in 0..Len(s)] == IF k = 0 THEN <<>> ELSE upto[k-1] \o
                    (IF s[k].op = "store" THEN s[k].cells ELSE <<>>)
             IN upto[Len(s)]
writingBar == [p \in Procs |->
  LET s == WriteSteps(p)
  IN IF s = <<>> THEN [off |-> 0, bytes |-> <<>>, ok |-> TRUE, busy |-> FALSE]
     ELSE [off |-> s[1].off, bytes |-> Joined(s), ok |-> s[Len(s)].ok, busy |-> TRUE]]
View == [visible |-> visibleBar, handle |-> handleBar, orphan |-> orphanBar, at |-> atBar,
         writing |-> writingBar, got |-> got]
=============================================================================
