------------------------------ MODULE FatVolume ------------------------------
(***************************************************************************)
(* What the volumes and the calls are that the theorems of Fat_proof are   *)
(* about.  A table holds chains that end and never meet; the root          *)
(* directory is made of whole groups of slots, the long entries of a file  *)
(* and the short one behind them, and of free slots; every cluster in use  *)
(* belongs to the root or to one file of it, and no call is a rename.      *)
(***************************************************************************)
EXTENDS Fat

(* The table.                                                              *)
\* go n times from c along a function
Walk(S, c, n) ==
  LET go[k \in 0..n] == IF k = 0 THEN c ELSE S[go[k-1]] IN go[n]
Succ(t) == [d \in 0..BAD |-> IF d >= EOC THEN d ELSE IF d > LAST THEN 0 ELSE t[d]]
To(t, c, n) == Walk(Succ(t), c, n)
Cl(c) == c \in 2..LAST
Live(t, c) == c \in 2..LAST /\ t[c] # 0 /\ t[c] # BAD
Links(t) == \A c \in 2..LAST :
  /\ t[c] \in {0, EOC, BAD} \cup (2..LAST)
  /\ t[c] \in 2..LAST => t[t[c]] # 0 /\ t[t[c]] # BAD
OnePred(t) == \A c, d \in 2..LAST : t[c] = t[d] /\ t[c] \in 2..LAST => c = d
TableOK(t) == Links(t) /\ OnePred(t)
\* the first cluster of a chain
IsHead(t, h) == Live(t, h) /\ \A c \in 2..LAST : t[c] # h

(* The slots of the root directory, by their offsets.                      *)
CellOf(t, d, first, off) ==
  IF IsCluster(To(t, first, off \div C)) THEN d[To(t, first, off \div C)][off % C] ELSE Byte(0)
DirOf(t, d) == [o \in Nat |-> CellOf(t, d, 2, o)]
IsLast(c) == c.last = TRUE
NotLast(c) == c.last = FALSE
IsGroup(D, g) ==
  /\ D[g].k = "long" /\ IsLast(D[g]) /\ D[g].order \in Nat \ {0}
  /\ \A i \in 1..D[g].order :
       /\ D[g + D[g].order - i].k = "long" /\ D[g + D[g].order - i].order = i
       /\ i # D[g].order => NotLast(D[g + D[g].order - i])
  /\ D[g + D[g].order].k = "short"
GEnd(D, g) == g + D[g].order
GName(D, g) == [i \in 1..D[g].order |-> D[g + D[g].order - i].piece]
GInfo(D, g) == D[g + D[g].order]
Regular(D, N) == \A o \in 0..(N - 1) :
  D[o].k = "empty" \/ \E g \in 0..o : IsGroup(D, g) /\ o <= GEnd(D, g) /\ GEnd(D, g) < N
IsShort(c) == /\ c.first = 0 \/ Cl(c.first)
              /\ c.size \in Nat /\ c.dir \in BOOLEAN /\ (c.size > 0 => c.first # 0)
              /\ c = [k |-> "short", name |-> c.name, first |-> c.first, size |-> c.size, dir |-> c.dir]

(* The calls.                                                              *)
IsSeq(s) == Len(s) \in Nat /\ s = [k \in 1..Len(s) |-> s[k]]
CallsOf(l, p) == {l.calls[p][j] : j \in 1..Len(l.calls[p])}
Removed(l) == {n \in Names : \E p \in Procs : \E c \in CallsOf(l, p) : c.k = "remove" /\ c.name = n}
CallIs(c) ==
  /\ c.k \in {"open", "mkdir", "remove", "read", "write", "close"}
  /\ c.k \in {"open", "mkdir", "remove"} => c.name \in Names
  /\ c.k = "open" => c.create \in BOOLEAN
  /\ c.k = "write" => IsSeq(c.bytes)
  /\ c.k = "read" => c.n \in Nat
CallsAre(l) == \A p \in Procs : \A c \in CallsOf(l, p) : CallIs(c)

-----------------------------------------------------------------------------
(* An ordinary volume and ordinary calls on it.                            *)
RootDir(l) == DirOf(l.fat, l.data)
\* the files of the root, by the offset of their first slot, and the root itself
FilesOf(D) == {g \in Slot : IsGroup(D, g)}
Homes(D) == FilesOf(D) \cup {-1}
Start(D, g) == IF g = -1 THEN 2 ELSE GInfo(D, g).first
OrdinaryTable(l) ==
  /\ l.fat \in [Cluster -> 0..BAD] /\ l.fat[0] # 0 /\ l.fat[1] # 0 /\ TableOK(l.fat)
  /\ l.data = [c \in Cluster |-> l.data[c]]
\* files and free slots, and zeros from the first one that is zero on
OrdinarySlots(D) == \E N \in Slot :
  /\ Regular(D, N)
  /\ \A o \in N..(C * LAST) : D[o].k \in {"empty", "byte"} /\ (D[o].k = "byte" => D[o + 1].k = "byte")
\* names are distinct, and the first file of the volume, or some other one, is never removed
OrdinaryNames(l, D) ==
  /\ \A g, h \in FilesOf(D) : GName(D, g) = GName(D, h) => g = h
  /\ \A g \in FilesOf(D) : GName(D, g) \in Names /\ IsShort(GInfo(D, g))
  /\ \E g \in FilesOf(D) : GName(D, g) \notin Removed(l)
\* each chain has one owner
OrdinaryChains(l, D) ==
  /\ \A g, h \in Homes(D) : Cl(Start(D, g)) =>
       IsHead(l.fat, Start(D, g)) /\ (Start(D, g) = Start(D, h) => g = h)
  /\ \A c \in 2..LAST : l.fat[c] \notin {0, BAD} =>
       \E g \in Homes(D), n \in 0..LAST : Cl(Start(D, g)) /\ To(l.fat, Start(D, g), n) = c
\* no call renames
OrdinaryCalls(l) ==
  /\ l.calls = [p \in Procs |-> l.calls[p]] /\ (\A p \in Procs : IsSeq(l.calls[p]))
  /\ CallsAre(l)
Ordinary(l) ==
  /\ OrdinaryCalls(l) /\ OrdinaryTable(l)
  /\ OrdinarySlots(RootDir(l)) /\ OrdinaryNames(l, RootDir(l)) /\ OrdinaryChains(l, RootDir(l))
=============================================================================
