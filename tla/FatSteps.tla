------------------------------- MODULE FatSteps -------------------------------
(***************************************************************************)
(* The volume of Fat.tla, first half: the lemmas about its operators, the  *)
(* inductive invariant, and the steps that keep it up to alloc_clus().     *)
(*                                                                         *)
(* The invariant relates ten variables, so it is written over values: l is *)
(* the load, K the calls left, E the entries in memory, T what each        *)
(* process has to do, F its open file, t the FAT, d the clusters' contents *)
(* and D the slots of the directory. CtlOK(l, K, E, T, F) is the control   *)
(* part: what a process has left to do has one of a few shapes, an entry   *)
(* is locked by the process whose list says so, and the references of an   *)
(* entry are the files and the lists that hold it. DiskOK(l, E, T, t, d,   *)
(* D) is the disk part: every cluster that is not free is in the chain of  *)
(* exactly one head; a head is the first cluster of an entry in memory, of *)
(* a chain a process is about to free, or of a file that is on disk only;  *)
(* the slots of the directory are regular; and an entry in memory agrees   *)
(* with its slots, or is marked dirty.                                     *)
(***************************************************************************)
EXTENDS FatVolume, Modular, SequenceTheorems

-----------------------------------------------------------------------------
(* Induction over the natural numbers, for a set.                          *)
LEMMA Induct ==
  ASSUME NEW T \in SUBSET Nat, 0 \in T, \A n \in T : n + 1 \in T
  PROVE  T = Nat
<1> SUFFICES ASSUME Nat \ T # {} PROVE FALSE
  OBVIOUS
<1>1. PICK m \in Nat \ T : \A j \in Nat \ T : m <= j
  BY Least
<1>2. m # 0 /\ m - 1 \in Nat /\ m - 1 \in T
  BY <1>1
<1> QED BY <1>1, <1>2

LEMMA GreatestLeast ==
  ASSUME NEW T \in SUBSET Nat, T # {}, NEW b \in Nat, \A x \in T : x <= b
  PROVE  \E x \in T : \A y \in T : y <= x
<1> DEFINE R == {u \in Nat : \A y \in T : y <= u}
<1>1. R \in SUBSET Nat /\ b \in R
  OBVIOUS
<1>2. PICK u \in R : \A j \in R : u <= j
  <2> HIDE DEF R
  <2> QED BY <1>1, Least
<1>3. CASE u \in T
  BY <1>3, <1>2
<1>4. CASE u \notin T
  <2>1. \A y \in T : y <= u - 1
    BY <1>4, <1>2
  <2>2. PICK y \in T : y \in Nat
    OBVIOUS
  <2>3. u - 1 \in R
    BY <2>1, <2>2
  <2> QED BY <2>3, <1>2
<1> QED BY <1>3, <1>4

(* The recursive function that goes n times from c along a function.       *)
IsGo(S, c, n, g) == g = [k \in 0..n |-> IF k = 0 THEN c ELSE S[g[k-1]]]

LEMMA GoExists ==
  ASSUME NEW S, NEW c, NEW n \in Nat
  PROVE  \E g : IsGo(S, c, n, g)
<1> DEFINE T == {m \in Nat : \E g : IsGo(S, c, m, g)}
<1>1. 0 \in T
  <2> DEFINE f == [k \in 0..0 |-> c]
  <2>1. f = [k \in 0..0 |-> IF k = 0 THEN c ELSE S[f[k-1]]]
    OBVIOUS
  <2> QED BY <2>1 DEF IsGo
<1>2. ASSUME NEW m \in T PROVE m + 1 \in T
  <2>1. PICK h : IsGo(S, c, m, h)
    OBVIOUS
  <2> DEFINE f == [k \in 0..(m + 1) |-> IF k = m + 1 THEN S[h[m]] ELSE h[k]]
  <2>2. ASSUME NEW k \in 0..(m + 1) PROVE f[k] = IF k = 0 THEN c ELSE S[f[k-1]]
    <3>1. CASE k = m + 1
      BY <3>1
    <3>2. CASE k < m + 1
      <4>1. k \in 0..m /\ (k # 0 => k - 1 \in 0..m)
        BY <3>2
      <4> QED BY <4>1, <2>1 DEF IsGo
    <3> QED BY <3>1, <3>2
  <2>3. IsGo(S, c, m + 1, f)
    BY <2>2 DEF IsGo
  <2> QED BY <2>3
<1>3. T = Nat
  <2> HIDE DEF T
  <2>1. T \in SUBSET Nat BY DEF T
  <2> QED BY <1>1, <1>2, <2>1, Induct
<1> QED BY <1>3

LEMMA GoSame ==
  ASSUME NEW S, NEW c, NEW n \in Nat, NEW m \in 0..n, NEW g, NEW h,
         IsGo(S, c, n, g), IsGo(S, c, m, h)
  PROVE  g[m] = h[m]
<1> DEFINE T == {k \in Nat : k <= m => g[k] = h[k]}
<1>1. 0 \in T
  BY DEF IsGo
<1>2. ASSUME NEW k \in T PROVE k + 1 \in T
  <2> SUFFICES ASSUME k + 1 <= m PROVE g[k+1] = h[k+1]
    OBVIOUS
  <2>1. g[k+1] = S[g[k]] /\ h[k+1] = S[h[k]]
    BY DEF IsGo
  <2> QED BY <2>1
<1>3. T = Nat
  <2> HIDE DEF T
  <2>1. T \in SUBSET Nat BY DEF T
  <2> QED BY <1>1, <1>2, <2>1, Induct
<1> QED BY <1>3

LEMMA WalkIs ==
  ASSUME NEW S, NEW c, NEW n \in Nat
  PROVE  Walk(S, c, 0) = c /\ Walk(S, c, n + 1) = S[Walk(S, c, n)]
<1> DEFINE G(m) == CHOOSE g : g = [k \in 0..m |-> IF k = 0 THEN c ELSE S[g[k-1]]]
<1>1. ASSUME NEW m \in Nat PROVE IsGo(S, c, m, G(m)) /\ Walk(S, c, m) = G(m)[m]
  <2>1. PICK h : IsGo(S, c, m, h)
    BY GoExists
  <2>3. h = [k \in 0..m |-> IF k = 0 THEN c ELSE S[h[k-1]]]
    BY <2>1, Zenon DEF IsGo
  <2>4. G(m) = [k \in 0..m |-> IF k = 0 THEN c ELSE S[G(m)[k-1]]]
    BY <2>3, Zenon
  <2>2. Walk(S, c, m) = G(m)[m]
    BY DEF Walk
  <2>5. IsGo(S, c, m, G(m))
    BY <2>4, Zenon DEF IsGo
  <2> QED BY <2>5, <2>2
<1> HIDE DEF G
<1>2. Walk(S, c, 0) = c
  BY <1>1 DEF IsGo
<1>3. IsGo(S, c, n + 1, G(n + 1)) /\ Walk(S, c, n + 1) = G(n + 1)[n + 1]
  BY <1>1, n + 1 \in Nat
<1>4. IsGo(S, c, n, G(n)) /\ Walk(S, c, n) = G(n)[n]
  BY <1>1
<1>5. G(n + 1)[n + 1] = S[G(n + 1)[n]]
  BY <1>3 DEF IsGo
<1>6. G(n + 1)[n] = G(n)[n]
  BY <1>3, <1>4, GoSame, n \in 0..(n + 1), n + 1 \in Nat
<1> QED BY <1>2, <1>3, <1>4, <1>5, <1>6

-----------------------------------------------------------------------------
(* The table *)

LEMMA Bounds == LAST \in 2..(EOC - 1) /\ EOC \in Nat /\ BAD = EOC + 1 /\ Cluster = 0..(EOC - 1)
                /\ C \in Nat \ {0}
<1>1. FATSZ * PERSEC \in Nat
  BY SizesAssumption
<1> QED BY <1>1, SizesAssumption DEF EOC, BAD, Cluster

LEMMA SuccIs ==
  ASSUME NEW t, TableOK(t)
  PROVE  /\ Succ(t)[EOC] = EOC
         /\ \A c : Live(t, c) => /\ Succ(t)[c] = t[c]
                                 /\ t[c] = EOC \/ Live(t, t[c])
<1>1. Succ(t)[EOC] = EOC
  BY Bounds DEF Succ
<1>2. ASSUME NEW c, Live(t, c) PROVE Succ(t)[c] = t[c] /\ (t[c] = EOC \/ Live(t, t[c]))
  <2>1. Succ(t)[c] = t[c]
    BY <1>2, Bounds DEF Succ, Live
  <2>2. t[c] = EOC \/ Live(t, t[c])
    BY <1>2 DEF TableOK, Links, Live
  <2> QED BY <2>1, <2>2
<1> QED BY <1>1, <1>2

LEMMA ToIs ==
  ASSUME NEW t, NEW c, NEW n \in Nat
  PROVE  To(t, c, 0) = c /\ To(t, c, n + 1) = Succ(t)[To(t, c, n)]
BY WalkIs DEF To

LEMMA ToPlus ==
  ASSUME NEW t, NEW c, NEW n \in Nat, NEW m \in Nat
  PROVE  To(t, To(t, c, n), m) = To(t, c, n + m)
<1> DEFINE T == {k \in Nat : To(t, To(t, c, n), k) = To(t, c, n + k)}
<1>1. 0 \in T
  BY ToIs
<1>2. ASSUME NEW k \in T PROVE k + 1 \in T
  <2>1. To(t, To(t, c, n), k + 1) = Succ(t)[To(t, To(t, c, n), k)]
    BY ToIs
  <2>2. To(t, c, (n + k) + 1) = Succ(t)[To(t, c, n + k)]
    BY ToIs, n + k \in Nat
  <2>3. n + (k + 1) = (n + k) + 1
    OBVIOUS
  <2> QED BY <2>1, <2>2, <2>3
<1>3. T = Nat
  <2> HIDE DEF T
  <2>1. T \in SUBSET Nat BY DEF T
  <2> QED BY <1>1, <1>2, <2>1, Induct
<1> QED BY <1>3

LEMMA Onward ==
  ASSUME NEW t, TableOK(t), NEW h, Live(t, h), NEW n \in Nat
  PROVE  To(t, h, n) = EOC \/ Live(t, To(t, h, n))
<1> DEFINE T == {k \in Nat : To(t, h, k) = EOC \/ Live(t, To(t, h, k))}
<1>1. 0 \in T
  BY ToIs
<1>2. ASSUME NEW k \in T PROVE k + 1 \in T
  <2>1. To(t, h, k + 1) = Succ(t)[To(t, h, k)]
    BY ToIs
  <2>2. To(t, h, k) = EOC \/ Live(t, To(t, h, k))
    OBVIOUS
  <2>3. To(t, h, k + 1) = EOC \/ Live(t, To(t, h, k + 1))
    BY <2>1, <2>2, SuccIs
  <2> QED BY <2>3
<1>3. T = Nat
  <2> HIDE DEF T
  <2>1. T \in SUBSET Nat BY DEF T
  <2> QED BY <1>1, <1>2, <2>1, Induct
<1> QED BY <1>3

LEMMA LiveNotEOC == ASSUME NEW t, NEW c, Live(t, c) PROVE c # EOC /\ c \in Nat /\ c >= 2 /\ c < EOC
BY Bounds DEF Live

\* the cluster before one that is not the end
LEMMA OneBack ==
  ASSUME NEW t, TableOK(t), NEW h, Live(t, h), NEW n \in Nat, To(t, h, n + 1) # EOC
  PROVE  Live(t, To(t, h, n)) /\ t[To(t, h, n)] = To(t, h, n + 1)
<1>1. To(t, h, n + 1) = Succ(t)[To(t, h, n)]
  BY ToIs
<1>2. To(t, h, n) = EOC \/ Live(t, To(t, h, n))
  BY Onward
<1> QED BY <1>1, <1>2, SuccIs

LEMMA EndStays ==
  ASSUME NEW t, TableOK(t), NEW h, Live(t, h), NEW n \in Nat, NEW m \in Nat, n <= m, To(t, h, n) = EOC
  PROVE  To(t, h, m) = EOC
<1> DEFINE T == {k \in Nat : To(t, h, n + k) = EOC}
<1>1. 0 \in T
  OBVIOUS
<1>2. ASSUME NEW k \in T PROVE k + 1 \in T
  <2>1. n + (k + 1) = (n + k) + 1 /\ n + k \in Nat
    OBVIOUS
  <2>2. To(t, h, (n + k) + 1) # EOC => To(t, h, n + k) # EOC
    BY <2>1, OneBack, LiveNotEOC
  <2> QED BY <2>1, <2>2
<1>3. T = Nat
  <2> HIDE DEF T
  <2>1. T \in SUBSET Nat BY DEF T
  <2> QED BY <1>1, <1>2, <2>1, Induct
<1>4. m - n \in Nat /\ n + (m - n) = m
  OBVIOUS
<1>5. To(t, h, n + (m - n)) = EOC
  BY <1>3, <1>4
<1> QED BY <1>4, <1>5

\* a cluster is at one place of one chain
LEMMA Apart ==
  ASSUME NEW t, TableOK(t), NEW h, NEW g, IsHead(t, h), IsHead(t, g),
         NEW m \in Nat, NEW n \in Nat, To(t, h, m) = To(t, g, n), To(t, h, m) # EOC
  PROVE  h = g /\ m = n
<1> DEFINE T == {k \in Nat : \A j \in Nat : To(t, h, k) = To(t, g, j) /\ To(t, h, k) # EOC => h = g /\ k = j}
<1>0. Live(t, h) /\ Live(t, g)
  BY DEF IsHead
<1>1. 0 \in T
  <2> SUFFICES ASSUME NEW j \in Nat, To(t, h, 0) = To(t, g, j), To(t, h, 0) # EOC PROVE h = g /\ 0 = j
    OBVIOUS
  <2>1. To(t, h, 0) = h
    BY ToIs
  <2>2. CASE j = 0
    BY <2>1, <2>2, ToIs
  <2>3. CASE j # 0
    <3>1. j - 1 \in Nat /\ (j - 1) + 1 = j
      BY <2>3
    <3>2. Live(t, To(t, g, j - 1)) /\ t[To(t, g, j - 1)] = To(t, g, j)
      BY <3>1, <1>0, OneBack
    <3> QED BY <3>2, <2>1 DEF IsHead, Live
  <2> QED BY <2>2, <2>3
<1>2. ASSUME NEW k \in T PROVE k + 1 \in T
  <2> SUFFICES ASSUME NEW j \in Nat, To(t, h, k + 1) = To(t, g, j), To(t, h, k + 1) # EOC
               PROVE  h = g /\ k + 1 = j
    OBVIOUS
  <2>1. Live(t, To(t, h, k)) /\ t[To(t, h, k)] = To(t, h, k + 1)
    BY <1>0, OneBack
  <2>2. CASE j = 0
    <3>1. To(t, g, j) = g
      BY <2>2, ToIs
    <3> QED BY <3>1, <2>1 DEF IsHead, Live
  <2>3. CASE j # 0
    <3>1. j - 1 \in Nat /\ (j - 1) + 1 = j
      BY <2>3
    <3>2. Live(t, To(t, g, j - 1)) /\ t[To(t, g, j - 1)] = To(t, g, j)
      BY <3>1, <1>0, OneBack
    <3>3. Live(t, To(t, h, k + 1))
      BY <1>0, Onward, k + 1 \in Nat
    <3>4. To(t, h, k) = To(t, g, j - 1)
      BY <2>1, <3>2, <3>3 DEF TableOK, OnePred, Live
    <3>5. To(t, h, k) # EOC
      BY <2>1, LiveNotEOC
    <3>6. h = g /\ k = j - 1
      BY <3>1, <3>4, <3>5
    <3> QED BY <3>6
  <2> QED BY <2>2, <2>3
<1>3. T = Nat
  <2> HIDE DEF T
  <2>1. T \in SUBSET Nat BY DEF T
  <2> QED BY <1>1, <1>2, <2>1, Induct
<1> QED BY <1>3

\* a chain has an end
LEMMA Ends ==
  ASSUME NEW t, TableOK(t), NEW h, IsHead(t, h)
  PROVE  \E n \in 1..(LAST - 1) : To(t, h, n) = EOC
<1> SUFFICES ASSUME \A n \in 1..(LAST - 1) : To(t, h, n) # EOC PROVE FALSE
  OBVIOUS
<1> DEFINE f == [n \in 0..(LAST - 1) |-> To(t, h, n)]
<1>0. LAST \in Nat /\ LAST >= 2
  BY Bounds
<1>1. ASSUME NEW n \in 0..(LAST - 1) PROVE To(t, h, n) # EOC /\ To(t, h, n) \in 2..LAST
  <2>1. To(t, h, 0) = h /\ h # EOC
    BY ToIs, LiveNotEOC DEF IsHead
  <2>2. To(t, h, n) # EOC
    BY <2>1, <1>0
  <2> QED BY <2>2, Onward, <1>0 DEF IsHead, Live
<1>2. f \in [0..(LAST - 1) -> 2..LAST]
  BY <1>1
<1>3. IsFiniteSet(0..(LAST - 1)) /\ Cardinality(0..(LAST - 1)) = LAST
  BY FS_Interval, <1>0
<1>4. IsFiniteSet(2..LAST) /\ Cardinality(2..LAST) = LAST - 1
  BY FS_Interval, <1>0
<1>5. Cardinality(2..LAST) < Cardinality(0..(LAST - 1))
  BY <1>0, <1>3, <1>4
<1>6. PICK x, y \in 0..(LAST - 1) : x # y /\ f[x] = f[y]
  <2> HIDE DEF f
  <2> QED BY <1>2, <1>3, <1>4, <1>5, FS_PigeonHole
<1>7. x \in Nat /\ y \in Nat /\ To(t, h, x) = To(t, h, y)
  BY <1>6, <1>0
<1> QED BY <1>6, <1>7, <1>1, Apart

\* a chain in a table that has the same links
Agree(t, u, h, m) == \A k \in 0..(m - 1) : Live(t, To(t, h, k)) => u[To(t, h, k)] = t[To(t, h, k)]
LEMMA SameChain ==
  ASSUME NEW t, NEW u, TableOK(t), NEW h, Live(t, h), NEW m \in Nat, Agree(t, u, h, m)
  PROVE  To(u, h, m) = To(t, h, m)
<1> DEFINE T == {k \in Nat : k <= m => To(u, h, k) = To(t, h, k)}
<1>1. 0 \in T
  BY ToIs
<1>2. ASSUME NEW k \in T PROVE k + 1 \in T
  <2> SUFFICES ASSUME k + 1 <= m PROVE To(u, h, k + 1) = To(t, h, k + 1)
    OBVIOUS
  <2>1. To(u, h, k + 1) = Succ(u)[To(u, h, k)] /\ To(t, h, k + 1) = Succ(t)[To(t, h, k)]
    BY ToIs
  <2>2. To(u, h, k) = To(t, h, k)
    OBVIOUS
  <2>3. To(t, h, k) = EOC \/ Live(t, To(t, h, k))
    BY Onward
  <2>4. CASE To(t, h, k) = EOC
    <3>1. Succ(u)[EOC] = EOC /\ Succ(t)[EOC] = EOC
      BY Bounds DEF Succ
    <3> QED BY <2>1, <2>2, <2>4, <3>1
  <2>5. CASE Live(t, To(t, h, k))
    <3>1. u[To(t, h, k)] = t[To(t, h, k)]
      BY <2>5 DEF Agree
    <3>2. Succ(u)[To(t, h, k)] = u[To(t, h, k)] /\ Succ(t)[To(t, h, k)] = t[To(t, h, k)]
      BY <2>5, Bounds DEF Succ, Live
    <3> QED BY <2>1, <2>2, <3>1, <3>2
  <2> QED BY <2>3, <2>4, <2>5
<1>3. T = Nat
  <2> HIDE DEF T
  <2>1. T \in SUBSET Nat BY DEF T
  <2> QED BY <1>1, <1>2, <2>1, Induct
<1> QED BY <1>3

\* Chain() and Seek() of a table
Ch(t, c) ==
  LET ends == {k \in 0..LAST : ~IsCluster(To(t, c, k))}
      len == IF ends = {} THEN LAST ELSE CHOOSE k \in ends : \A j \in ends : k <= j
  IN [k \in 1..len |-> To(t, c, k - 1)]
LEMMA NthIs == ASSUME NEW c, NEW n PROVE Nth(c, n) = To(fat, c, n)
BY DEF Nth, To, Walk, Succ, read_fat
LEMMA ChainIs == ASSUME NEW c PROVE Chain(c) = Ch(fat, c)
BY NthIs DEF Chain, Ch

\* the length of a chain
IsLength(t, h, l) ==
  /\ l \in 1..(LAST - 1)
  /\ \A k \in 0..(l - 1) : Live(t, To(t, h, k))
  /\ \A k \in Nat : k >= l => To(t, h, k) = EOC
LEMMA HasLength ==
  ASSUME NEW t, TableOK(t), NEW h, IsHead(t, h)
  PROVE  \E l : IsLength(t, h, l)
<1> DEFINE T == {n \in Nat : To(t, h, n) = EOC}
<1>1. T \in SUBSET Nat /\ T # {} /\ \E n \in T : n \in 1..(LAST - 1)
  BY Ends, Bounds
<1>2. PICK l \in T : \A j \in T : l <= j
  <2> HIDE DEF T
  <2> QED BY <1>1, Least
<1>3. l # 0
  BY ToIs, LiveNotEOC DEF IsHead
<1>4. l \in 1..(LAST - 1)
  BY <1>1, <1>2, <1>3, Bounds
<1>5. \A k \in Nat : k >= l => To(t, h, k) = EOC
  BY EndStays DEF IsHead
<1>6. ASSUME NEW k \in 0..(l - 1) PROVE Live(t, To(t, h, k))
  <2>1. k \in Nat /\ k \notin T
    BY <1>2
  <2> QED BY <2>1, Onward DEF IsHead
<1> QED BY <1>4, <1>5, <1>6 DEF IsLength

LEMMA ChIs ==
  ASSUME NEW t, TableOK(t), NEW h, IsHead(t, h), NEW l, IsLength(t, h, l)
  PROVE  Ch(t, h) = [k \in 1..l |-> To(t, h, k - 1)]
<1> DEFINE ends == {k \in 0..LAST : ~IsCluster(To(t, h, k))}
           len == IF ends = {} THEN LAST ELSE CHOOSE k \in ends : \A j \in ends : k <= j
<1>1. l \in ends /\ l \in Nat
  BY Bounds DEF IsLength, IsCluster
<1>2. ASSUME NEW k \in ends PROVE l <= k
  <2> SUFFICES ASSUME k < l PROVE FALSE
    BY <1>1
  <2>1. k \in 0..(l - 1)
    BY <1>1
  <2>2. Live(t, To(t, h, k))
    BY <2>1 DEF IsLength
  <2> QED BY <2>2, LiveNotEOC DEF IsCluster
<1>3. len = l
  <2>1. \A k \in ends : (\A j \in ends : k <= j) => k = l
    BY <1>1, <1>2
  <2>2. len \in ends /\ \A j \in ends : len <= j
    BY <1>1, <1>2
  <2> QED BY <2>1, <2>2
<1>4. Ch(t, h) = [k \in 1..len |-> To(t, h, k - 1)]
  BY DEF Ch
<1> QED BY <1>3, <1>4

LEMMA ChEmpty ==
  ASSUME NEW t, NEW h, ~IsCluster(h)
  PROVE  Ch(t, h) = <<>>
<1> DEFINE ends == {k \in 0..LAST : ~IsCluster(To(t, h, k))}
           len == IF ends = {} THEN LAST ELSE CHOOSE k \in ends : \A j \in ends : k <= j
<1>1. 0 \in ends
  BY Bounds, ToIs
<1>2. len \in ends /\ len <= 0
  <2>1. \A j \in ends : 0 <= j
    BY Bounds
  <2> QED BY <1>1, <2>1
<1>3. len = 0
  BY <1>2
<1>4. Ch(t, h) = [k \in 1..len |-> To(t, h, k - 1)]
  BY DEF Ch
<1> HIDE DEF len
<1> QED BY <1>3, <1>4

\* The loops of reloc_clus() stay on the chain, and stop early at its last cluster only
At1(t, first, cur, cnt) == cnt \in Nat /\ cur = To(t, first, cnt) /\ Live(t, cur)
LEMMA SeekIs ==
  ASSUME TableOK(fat), NEW x, IsHead(fat, x.first), At1(fat, x.first, x.cur, x.cnt), NEW n \in Nat
  PROVE  LET w == Seek(x, n) IN
         /\ At1(fat, x.first, w.cur, w.cnt) /\ w.cnt <= n
         /\ w.cnt # n => fat[w.cur] = EOC
         /\ w = [cur |-> w.cur, cnt |-> w.cnt]
<1> DEFINE cur == IF n < x.cnt THEN x.first ELSE x.cur
           cnt == IF n < x.cnt THEN 0 ELSE x.cnt
           steps == {k \in 0..(n - cnt) : \A j \in 0..k : Nth(cur, j) < EOC}
           k0 == CHOOSE k \in steps : \A j \in steps : j <= k
<1>1. At1(fat, x.first, cur, cnt) /\ cnt <= n
  BY ToIs DEF At1, IsHead
<1>2. Seek(x, n) = [cur |-> Nth(cur, k0), cnt |-> cnt + k0]
  BY DEF Seek
<1> HIDE DEF cur, cnt
<1>3. \A j \in Nat : Nth(cur, j) = To(fat, x.first, cnt + j)
  BY <1>1, NthIs, ToPlus DEF At1
<1>4. 0 \in steps /\ steps \in SUBSET Nat
  <2>1. Nth(cur, 0) = cur /\ cur < EOC
    BY <1>1, NthIs, ToIs, LiveNotEOC DEF At1
  <2> QED BY <1>1, <2>1 DEF At1
<1>5. PICK k1 \in steps : \A j \in steps : j <= k1
  <2>1. \A j \in steps : j <= n - cnt
    OBVIOUS
  <2>2. n - cnt \in Nat
    BY <1>1 DEF At1
  <2> HIDE DEF steps
  <2> QED BY <1>4, <2>1, <2>2, GreatestLeast
<1>6. k0 \in steps /\ \A j \in steps : j <= k0
  BY <1>5
<1> HIDE DEF k0
<1>7. k0 \in Nat /\ k0 <= n - cnt /\ cnt + k0 \in Nat /\ cnt \in Nat
  BY <1>1, <1>6 DEF At1
<1>8. Nth(cur, k0) = To(fat, x.first, cnt + k0) /\ Nth(cur, k0) < EOC
  BY <1>3, <1>6, <1>7
<1>9. Live(fat, To(fat, x.first, cnt + k0))
  BY <1>7, <1>8, Onward, Bounds DEF IsHead
<1>10. ASSUME cnt + k0 # n PROVE fat[Nth(cur, k0)] = EOC
  <2>1. k0 + 1 \in 0..(n - cnt) /\ k0 + 1 \in Nat
    BY <1>7, <1>10
  <2>2. k0 + 1 \notin steps
    BY <1>6, <1>7, <2>1
  <2>3. ~(Nth(cur, k0 + 1) < EOC)
    <3>1. \A j \in 0..(k0 + 1) : j \in 0..k0 \/ j = k0 + 1
      BY <1>7
    <3> QED BY <2>1, <2>2, <3>1, <1>6
  <2>4. Nth(cur, k0 + 1) = To(fat, x.first, (cnt + k0) + 1)
    <3>1. cnt + (k0 + 1) = (cnt + k0) + 1
      BY <1>7
    <3> QED BY <1>3, <2>1, <3>1
  <2>5. To(fat, x.first, (cnt + k0) + 1) = fat[To(fat, x.first, cnt + k0)]
    BY <1>7, <1>9, ToIs, SuccIs
  <2>6. fat[To(fat, x.first, cnt + k0)] = EOC \/ Live(fat, fat[To(fat, x.first, cnt + k0)])
    BY <1>9, SuccIs
  <2> QED BY <1>8, <2>3, <2>4, <2>5, <2>6, LiveNotEOC
<1> QED BY <1>2, <1>7, <1>8, <1>9, <1>10 DEF At1

\* g is f with the value v at x
Puts1(f, x, v, g) == g = [f EXCEPT ![x] = v]

\* Tables that agree on the clusters of the volume
LEMMA SameTable ==
  ASSUME NEW t, NEW u, TableOK(t), \A c \in 2..LAST : u[c] = t[c]
  PROVE  /\ TableOK(u)
         /\ \A h : Live(t, h) => Live(u, h)
         /\ \A h : IsHead(t, h) => IsHead(u, h) /\ \A n \in Nat : To(u, h, n) = To(t, h, n)
<1>1. TableOK(u)
  BY DEF TableOK, Links, OnePred
<1>2. \A h : (Live(t, h) => Live(u, h)) /\ (IsHead(t, h) => IsHead(u, h))
  BY DEF IsHead, Live
<1>3. ASSUME NEW h, IsHead(t, h), NEW n \in Nat PROVE To(u, h, n) = To(t, h, n)
  <2>1. Agree(t, u, h, n)
    BY DEF Agree, Live
  <2> QED BY <1>3, <2>1, SameChain DEF IsHead
<1> QED BY <1>1, <1>2, <1>3

\* alloc_clus(): a free cluster becomes a chain of its own
LEMMA TableAlloc ==
  ASSUME NEW t \in [Cluster -> Nat], TableOK(t), NEW c \in 2..LAST, t[c] = 0, NEW u, Puts1(t, c, EOC, u)
  PROVE  /\ TableOK(u) /\ IsHead(u, c) /\ u[c] = EOC
         /\ \A h : Live(t, h) => Live(u, h) /\ u[h] = t[h]
         /\ \A h : IsHead(t, h) =>
              h # c /\ IsHead(u, h) /\ \A n \in Nat : To(u, h, n) = To(t, h, n)
<1>0. /\ u[c] = EOC /\ \A d \in 2..LAST : d # c => u[d] = t[d]
      /\ EOC # 0 /\ EOC # BAD /\ EOC \notin 2..LAST
  BY Bounds DEF Puts1
<1>1. \A d \in 2..LAST : t[d] # c
  BY DEF TableOK, Links
<1>2. TableOK(u)
  <2>1. Links(u)
    BY <1>0, <1>1 DEF TableOK, Links
  <2>2. OnePred(u)
    BY <1>0 DEF TableOK, OnePred
  <2> QED BY <2>1, <2>2 DEF TableOK
<1>3. \A h : Live(t, h) => Live(u, h) /\ u[h] = t[h] /\ h # c
  BY <1>0 DEF Live
<1>4. IsHead(u, c)
  BY <1>0, <1>1 DEF IsHead, Live
<1>5. ASSUME NEW h, IsHead(t, h) PROVE h # c /\ IsHead(u, h)
  <2>1. h # c /\ Live(u, h) /\ h # EOC
    BY <1>5, <1>3, LiveNotEOC DEF IsHead
  <2>2. \A d \in 2..LAST : u[d] # h
    BY <1>5, <1>0, <2>1 DEF IsHead
  <2> QED BY <2>1, <2>2 DEF IsHead
<1>6. ASSUME NEW h, IsHead(t, h), NEW n \in Nat PROVE To(u, h, n) = To(t, h, n)
  <2>1. Live(t, h)
    BY <1>6 DEF IsHead
  <2>2. Agree(t, u, h, n)
    BY <1>3 DEF Agree
  <2> QED BY <2>1, <2>2, SameChain
<1> QED BY <1>0, <1>2, <1>3, <1>4, <1>5, <1>6

\* one turn of etrunc(): the first cluster of a chain is freed
LEMMA TableCut ==
  ASSUME NEW t \in [Cluster -> Nat], TableOK(t), NEW h, IsHead(t, h), NEW u, Puts1(t, h, 0, u)
  PROVE  /\ TableOK(u)
         /\ t[h] = EOC \/ IsHead(u, t[h])
         /\ \A n \in Nat : t[h] # EOC => To(u, t[h], n) = To(t, h, n + 1)
         /\ \A x : Live(t, x) /\ x # h => Live(u, x) /\ u[x] = t[x]
         /\ \A g : IsHead(t, g) /\ g # h =>
              t[h] # g /\ IsHead(u, g) /\ \A n \in Nat : To(u, g, n) = To(t, g, n)
<1>0. /\ u[h] = 0 /\ \A d \in 2..LAST : d # h => u[d] = t[d]
      /\ h \in 2..LAST /\ t[h] # h /\ Live(t, h)
  BY Bounds DEF IsHead, Live, Puts1
<1>1. TableOK(u)
  <2>1. Links(u)
    BY <1>0 DEF TableOK, Links, IsHead
  <2>2. OnePred(u)
    <3>1. ASSUME NEW c \in 2..LAST, NEW d \in 2..LAST, u[c] = u[d], u[c] \in 2..LAST PROVE c = d
      <4>1. c # h /\ d # h
        BY <1>0, <3>1
      <4>2. t[c] = t[d] /\ t[c] \in 2..LAST
        BY <1>0, <3>1, <4>1
      <4>3. OnePred(t)
        BY DEF TableOK
      <4> QED BY ONLY <3>1, <4>2, <4>3 DEF OnePred
    <3> QED BY <3>1 DEF OnePred
  <2> QED BY <2>1, <2>2 DEF TableOK
<1>2. \A x : Live(t, x) /\ x # h => Live(u, x) /\ u[x] = t[x]
  BY <1>0 DEF Live
<1>3. ASSUME NEW g, IsHead(t, g), g # h PROVE t[h] # g /\ IsHead(u, g)
  BY <1>0, <1>2, <1>3 DEF IsHead, Live
<1>4. ASSUME NEW g, IsHead(t, g), g # h, NEW n \in Nat PROVE To(u, g, n) = To(t, g, n)
  <2>1. Live(t, g)
    BY <1>4 DEF IsHead
  <2>2. ASSUME NEW k \in 0..(n - 1), Live(t, To(t, g, k)) PROVE To(t, g, k) # h
    <3>1. To(t, h, 0) = h /\ To(t, g, k) # EOC
      BY ToIs, <2>2, LiveNotEOC
    <3>2. k \in Nat
      OBVIOUS
    <3> QED BY <3>1, <3>2, <1>4, Apart
  <2>3. Agree(t, u, g, n)
    BY <2>2, <1>2 DEF Agree
  <2> QED BY <2>1, <2>3, SameChain
<1>5. t[h] = EOC \/ Live(t, t[h])
  BY <1>0, SuccIs
<1>6. t[h] = EOC \/ IsHead(u, t[h])
  <2> SUFFICES ASSUME Live(t, t[h]) PROVE IsHead(u, t[h])
    BY <1>5
  <2>1. \A d \in 2..LAST : d # h => t[d] # t[h]
    BY <1>0 DEF TableOK, OnePred, Live
  <2> QED BY <2>1, <1>0, <1>2, Bounds DEF IsHead, Live
<1>7. ASSUME t[h] # EOC, NEW n \in Nat PROVE To(u, t[h], n) = To(t, h, n + 1)
  <2>1. Live(t, t[h])
    BY <1>5, <1>7
  <2>2. ASSUME NEW k \in Nat PROVE To(t, t[h], k) = To(t, h, k + 1)
    <3>1. To(t, h, 0 + 1) = Succ(t)[h]
      BY ToIs, 0 \in Nat
    <3>2. To(t, h, 1) = t[h]
      BY <3>1, <1>0, SuccIs
    <3>3. To(t, To(t, h, 1), k) = To(t, h, 1 + k)
      BY ToPlus
    <3> QED BY <3>2, <3>3
  <2>3. ASSUME NEW k \in Nat, Live(t, To(t, t[h], k)) PROVE To(t, t[h], k) # h
    <3>1. To(t, h, 0) = h /\ To(t, h, k + 1) # EOC
      BY ToIs, <2>2, <2>3, LiveNotEOC
    <3> QED BY <3>1, <2>2, Apart, k + 1 \in Nat
  <2>5. Agree(t, u, t[h], n)
    BY <2>3, <1>2 DEF Agree
  <2>4. To(u, t[h], n) = To(t, t[h], n)
    BY <2>1, <2>5, SameChain
  <2> QED BY <2>2, <2>4
<1> QED BY <1>1, <1>2, <1>3, <1>4, <1>6, <1>7

\* write_fat() of reloc_clus(): a chain of one cluster is appended to another
LEMMA TableLink ==
  ASSUME NEW t \in [Cluster -> Nat], TableOK(t), NEW h, IsHead(t, h), NEW s, IsHead(t, s), s # h, t[s] = EOC,
         NEW x, NEW m, At1(t, h, x, m), t[x] = EOC, NEW u, Puts1(t, x, s, u)
  PROVE  /\ TableOK(u)
         /\ \A g : IsHead(t, g) /\ g # s => IsHead(u, g)
         /\ \A y : Live(t, y) => Live(u, y) /\ (y # x => u[y] = t[y])
         /\ \A g : IsHead(t, g) /\ g # h => \A n \in Nat : To(u, g, n) = To(t, g, n)
         /\ \A n \in 0..m : To(u, h, n) = To(t, h, n)
         /\ To(u, h, m + 1) = s /\ u[s] = EOC
         /\ \A n \in Nat : n > m + 1 => To(u, h, n) = EOC
         /\ \A n \in Nat : n > m => To(t, h, n) = EOC
<1>0. /\ x \in 2..LAST /\ x = To(t, h, m) /\ m \in Nat /\ Live(t, x) /\ s \in 2..LAST /\ Live(t, s)
      /\ u[x] = s /\ \A d \in 2..LAST : d # x => u[d] = t[d]
      /\ EOC # 0 /\ EOC # BAD /\ EOC \notin 2..LAST
  <2>1. /\ x \in 2..LAST /\ x = To(t, h, m) /\ m \in Nat /\ Live(t, x)
    BY DEF At1, Live
  <2>2. s \in 2..LAST /\ Live(t, s)
    BY DEF IsHead, Live
  <2>3. EOC # 0 /\ EOC # BAD /\ EOC \notin 2..LAST /\ 2..LAST \subseteq Cluster
    BY ONLY Bounds
  <2>4. u[x] = s /\ \A d \in 2..LAST : d # x => u[d] = t[d]
    BY <2>1, <2>3 DEF Puts1
  <2> QED BY ONLY <2>1, <2>2, <2>3, <2>4
<1>1. x # s
  <2>1. To(t, s, 0) = s
    BY ToIs
  <2> QED BY <1>0, <2>1, Apart, LiveNotEOC
<1>2. s # EOC /\ s # 0 /\ s # BAD /\ u[s] = EOC /\ \A d \in 2..LAST : t[d] # s
  BY <1>0, <1>1, LiveNotEOC, Bounds DEF IsHead
<1>3. TableOK(u)
  <2>1. Links(u)
    BY <1>0, <1>2 DEF TableOK, Links
  <2>2. OnePred(u)
    BY <1>0, <1>2 DEF TableOK, OnePred
  <2> QED BY <2>1, <2>2 DEF TableOK
<1>4. \A y : Live(t, y) => Live(u, y) /\ (y # x => u[y] = t[y])
  BY <1>0, <1>2 DEF Live
<1>5. \A g : IsHead(t, g) /\ g # s => IsHead(u, g)
  BY <1>0, <1>4 DEF IsHead
<1>6. ASSUME NEW g, IsHead(t, g), NEW n \in Nat, g # h \/ n <= m PROVE To(u, g, n) = To(t, g, n)
  <2>1. Live(t, g)
    BY <1>6 DEF IsHead
  <2>2. ASSUME NEW k \in 0..(n - 1), Live(t, To(t, g, k)) PROVE To(t, g, k) # x
    <3>0. k \in Nat
      OBVIOUS
    <3>1. To(t, g, k) # EOC /\ (To(t, g, k) = To(t, h, m) => k = m /\ g = h)
      BY <2>2, <3>0, LiveNotEOC, <1>0, <1>6, Apart
    <3> QED BY <3>1, <1>0, <1>6
  <2>3. Agree(t, u, g, n)
    BY <2>2, <1>4 DEF Agree
  <2> QED BY <2>1, <2>3, SameChain
<1>7. To(u, h, m + 1) = s
  <2>1. To(u, h, m) = x
    <3>1. m <= m /\ m \in Nat
      BY <1>0
    <3>2. To(u, h, m) = To(t, h, m)
      BY <3>1, <1>6
    <3> QED BY <3>2, <1>0
  <2>2. To(u, h, m + 1) = Succ(u)[x]
    BY <2>1, <1>0, ToIs
  <2>3. Succ(u)[x] = u[x]
    BY <1>0, <1>3, <1>4, SuccIs
  <2> QED BY <2>2, <2>3, <1>0
<1>8. ASSUME NEW n \in Nat, n > m + 1 PROVE To(u, h, n) = EOC
  <2>1. To(u, h, (m + 1) + 1) = Succ(u)[s]
    BY <1>7, <1>0, ToIs, m + 1 \in Nat
  <2>7. Live(u, s)
    BY <1>0, <1>4
  <2>6. Succ(u)[s] = u[s]
    BY <2>7, <1>3, SuccIs
  <2>4. Succ(u)[s] = u[s] /\ (m + 1) + 1 = m + 2
    BY <2>6, <1>0
  <2>2. To(u, h, m + 2) = EOC
    BY <2>1, <2>4, <1>2
  <2>3. Live(u, h)
    BY <1>4 DEF IsHead
  <2>5. m + 2 \in Nat /\ m + 2 <= n
    BY <1>0, <1>8
  <2> QED BY <2>2, <2>3, <2>5, <1>3, EndStays
<1>9. ASSUME NEW n \in Nat, n > m PROVE To(t, h, n) = EOC
  <2>1. To(t, h, m + 1) = Succ(t)[x]
    BY <1>0, ToIs
  <2>2. To(t, h, m + 1) = EOC
    BY <2>1, <1>0, SuccIs
  <2>3. Live(t, h)
    BY DEF IsHead
  <2>5. m + 1 \in Nat /\ m + 1 <= n
    BY <1>0, <1>9
  <2>6. To(t, h, m + 1) = EOC /\ TableOK(t)
    BY <2>2
  <2> QED BY <2>6, <2>3, <2>5, EndStays
<1>10. \A g : IsHead(t, g) /\ g # h => \A n \in Nat : To(u, g, n) = To(t, g, n)
  BY <1>6
<1>11. ASSUME NEW n \in 0..m PROVE To(u, h, n) = To(t, h, n)
  <2>1. n \in Nat /\ n <= m
    BY <1>0
  <2> QED BY <2>1, <1>6
<1> QED BY <1>2, <1>3, <1>4, <1>5, <1>7, <1>8, <1>9, <1>10, <1>11

-----------------------------------------------------------------------------
(* The slots of a directory, as a function D of their numbers *)
LEMMA LastOrNot == ASSUME NEW c PROVE ~(IsLast(c) /\ NotLast(c))
BY Zenon DEF IsLast, NotLast
Free(D, W) == \A o \in Nat : o >= W =>
  D[o].k \in {"empty", "byte"} /\ (D[o].k = "byte" => D[o + 1].k = "byte")
Groups(D) == {g \in Nat : IsGroup(D, g)}

LEMMA GroupIs ==
  ASSUME NEW D, NEW g, g \in Nat, IsGroup(D, g)
  PROVE  /\ GEnd(D, g) \in Nat /\ GEnd(D, g) > g
         /\ D[g].k = "long" /\ IsLast(D[g]) /\ D[GEnd(D, g)].k = "short"
BY DEF IsGroup, GEnd
LEMMA GroupSlots ==
  ASSUME NEW D, NEW g, g \in Nat, IsGroup(D, g)
  PROVE  /\ D[g].order = GEnd(D, g) - g /\ D[g].order \in Nat
         /\ \A o \in g..(GEnd(D, g) - 1) : D[o].k = "long" /\ D[o].order = GEnd(D, g) - o
                                           /\ (o # g => NotLast(D[o]))
<1>1. D[g].order \in Nat \ {0} /\ GEnd(D, g) = g + D[g].order
  BY DEF IsGroup, GEnd
<1>2. ASSUME NEW o \in g..(GEnd(D, g) - 1)
      PROVE  D[o].k = "long" /\ D[o].order = GEnd(D, g) - o /\ (o # g => NotLast(D[o]))
  <2> DEFINE i == GEnd(D, g) - o
  <2>1. i \in 1..D[g].order /\ g + D[g].order - i = o /\ (o # g => i # D[g].order)
    BY <1>1
  <2> HIDE DEF i
  <2>2. D[o].k = "long" /\ D[o].order = i /\ (i # D[g].order => NotLast(D[o]))
    <3>1. /\ D[g + D[g].order - i].k = "long" /\ D[g + D[g].order - i].order = i
          /\ i # D[g].order => NotLast(D[g + D[g].order - i])
      BY <2>1, Zenon DEF IsGroup
    <3> QED BY <2>1, <3>1
  <2> QED BY <2>1, <2>2 DEF i
<1>3. D[g].order = GEnd(D, g) - g /\ D[g].order \in Nat
  BY <1>1
<1> QED BY <1>2, <1>3

LEMMA GroupsApart ==
  ASSUME NEW D, NEW g \in Nat, NEW h \in Nat, IsGroup(D, g), IsGroup(D, h), g < h
  PROVE  GEnd(D, g) < h
<1>0. GEnd(D, g) \in Nat /\ D[GEnd(D, g)].k = "short"
  BY GroupIs
<1>1. D[h].k = "long" /\ IsLast(D[h])
  BY DEF IsGroup
<1>2. h # GEnd(D, g)
  BY <1>1, <1>0
<1>3. ASSUME h <= GEnd(D, g) PROVE FALSE
  <2>1. h \in g..(GEnd(D, g) - 1) /\ h # g
    BY <1>0, <1>2, <1>3
  <2>2. NotLast(D[h])
    BY <2>1, GroupSlots
  <2> QED BY <1>1, <2>2, LastOrNot
<1> QED BY <1>0, <1>3

LEMMA GroupAt ==
  ASSUME NEW D, NEW g \in Nat, NEW h \in Nat, IsGroup(D, g), IsGroup(D, h),
         NEW o \in Nat, g <= o, o <= GEnd(D, g), h <= o, o <= GEnd(D, h)
  PROVE  g = h
<1>1. GEnd(D, g) \in Nat /\ GEnd(D, h) \in Nat
  BY GroupIs
<1>2. g < h => GEnd(D, g) < h
  BY GroupsApart
<1>3. h < g => GEnd(D, h) < g
  BY GroupsApart
<1> QED BY <1>1, <1>2, <1>3

\* groups depend on their slots only
LEMMA GroupSame ==
  ASSUME NEW D, NEW E, NEW g \in Nat, IsGroup(D, g), \A o \in g..GEnd(D, g) : E[o] = D[o]
  PROVE  IsGroup(E, g) /\ GEnd(E, g) = GEnd(D, g) /\ GName(E, g) = GName(D, g) /\ GInfo(E, g) = GInfo(D, g)
<1>1. D[g].order \in Nat \ {0} /\ GEnd(D, g) = g + D[g].order
  BY DEF IsGroup, GEnd
<1>2. E[g] = D[g] /\ E[g + D[g].order] = D[g + D[g].order]
  BY <1>1
<1>3. \A i \in 1..D[g].order : E[g + D[g].order - i] = D[g + D[g].order - i]
  BY <1>1
<1>4. IsGroup(E, g)
  BY <1>1, <1>2, <1>3 DEF IsGroup
<1>5. GName(E, g) = GName(D, g)
  BY <1>2, <1>3 DEF GName
<1> QED BY <1>2, <1>4, <1>5 DEF GEnd, GInfo

LEMMA RegularZero == ASSUME NEW D PROVE Regular(D, 0)
BY DEF Regular
LEMMA RegularEmpty ==
  ASSUME NEW D, NEW o \in Nat, NEW m \in Nat, o <= m, Regular(D, o), \A j \in o..(m - 1) : D[j].k = "empty"
  PROVE  Regular(D, m)
<1> SUFFICES ASSUME NEW j \in 0..(m - 1), D[j].k # "empty"
             PROVE  \E g \in 0..j : IsGroup(D, g) /\ j <= GEnd(D, g) /\ GEnd(D, g) < m
  BY DEF Regular
<1>1. j \in 0..(o - 1)
  OBVIOUS
<1>2. PICK g \in 0..j : IsGroup(D, g) /\ j <= GEnd(D, g) /\ GEnd(D, g) < o
  BY <1>1 DEF Regular
<1>4. g \in Nat /\ IsGroup(D, g)
  BY <1>2
<1>3. g \in Nat /\ GEnd(D, g) \in Nat
  BY ONLY <1>4, GroupIs
<1> QED BY <1>2, <1>3
LEMMA RegularGroup ==
  ASSUME NEW D, NEW o \in Nat, Regular(D, o), IsGroup(D, o)
  PROVE  Regular(D, GEnd(D, o) + 1)
<1> DEFINE m == GEnd(D, o) + 1
<1>0. GEnd(D, o) \in Nat /\ GEnd(D, o) > o
  BY GroupIs
<1> SUFFICES ASSUME NEW j \in 0..(m - 1), D[j].k # "empty"
             PROVE  \E g \in 0..j : IsGroup(D, g) /\ j <= GEnd(D, g) /\ GEnd(D, g) < m
  BY DEF Regular
<1>1. CASE j < o
  <2>1. j \in 0..(o - 1)
    BY <1>1
  <2>2. PICK g \in 0..j : IsGroup(D, g) /\ j <= GEnd(D, g) /\ GEnd(D, g) < o
    BY <2>1 DEF Regular
  <2>4. g \in Nat /\ IsGroup(D, g)
    BY <2>2
  <2>3. GEnd(D, g) \in Nat
    BY ONLY <2>4, GroupIs
  <2> QED BY <2>2, <2>3, <1>0
<1>2. CASE j >= o
  <2>1. o \in 0..j /\ j <= GEnd(D, o) /\ GEnd(D, o) < m
    BY <1>0, <1>2
  <2> QED BY <2>1
<1> QED BY <1>1, <1>2

\* what a scan that is between two groups can meet
LEMMA Between ==
  ASSUME NEW D, NEW o \in Nat, NEW N \in Nat, Regular(D, o), Regular(D, N), Free(D, N)
  PROVE  D[o].k \in {"byte", "empty"} \/ IsGroup(D, o)
<1>1. CASE o >= N
  BY <1>1 DEF Free
<1>2. CASE o < N
  <2> SUFFICES ASSUME D[o].k # "empty" PROVE IsGroup(D, o)
    OBVIOUS
  <2>1. o \in 0..(N - 1)
    BY <1>2
  <2>2. PICK h \in 0..o : IsGroup(D, h) /\ o <= GEnd(D, h) /\ GEnd(D, h) < N
    BY <2>1 DEF Regular
  <2>3. CASE h = o
    BY <2>2, <2>3
  <2>4. CASE h < o
    <3>1. D[h].k # "empty" /\ h \in 0..(o - 1)
      BY <2>2, <2>4 DEF IsGroup
    <3>2. PICK g \in 0..h : IsGroup(D, g) /\ h <= GEnd(D, g) /\ GEnd(D, g) < o
      BY <3>1 DEF Regular
    <3>5. h \in Nat /\ IsGroup(D, h)
      BY <2>2
    <3>3. GEnd(D, h) \in Nat /\ GEnd(D, h) > h
      BY ONLY <3>5, GroupIs
    <3>4. g = h
      BY <2>2, <3>2, <3>3, GroupAt
    <3> QED BY <2>2, <3>2, <3>3, <3>4, GroupIs
  <2> QED BY <2>3, <2>4
<1> QED BY <1>1, <1>2

\* a group lies wholly before the first slot from which all are free
LEMMA GroupBefore ==
  ASSUME NEW D, NEW W \in Nat, Free(D, W), NEW g \in Nat, IsGroup(D, g)
  PROVE  GEnd(D, g) < W
<1>1. GEnd(D, g) \in Nat /\ D[GEnd(D, g)].k = "short"
  BY GroupIs
<1> QED BY <1>1 DEF Free

\* a file is being written at off: its slots up to W are there
Make(nm, sh, off, o) == IF o < off + Len(nm) THEN Long(nm, off + Len(nm) - o) ELSE sh
Partly(D, off, W, nm, sh) ==
  /\ off \in Nat /\ W \in off..(off + Len(nm) + 1) /\ Regular(D, off) /\ Free(D, W)
  /\ \A o \in off..(W - 1) : D[o] = Make(nm, sh, off, o)
IsName(nm) == Len(nm) \in Nat \ {0}

LEMMA LongIs ==
  ASSUME NEW nm, NEW i
  PROVE  /\ Long(nm, i).k = "long" /\ Long(nm, i).order = i /\ Long(nm, i).piece = nm[i]
         /\ i = Len(nm) => IsLast(Long(nm, i))
         /\ i # Len(nm) => NotLast(Long(nm, i))
BY DEF Long, IsLast, NotLast
LEMMA MakeLong ==
  ASSUME NEW nm, IsName(nm), NEW sh, NEW off \in Nat, NEW o \in Nat, o >= off, o < off + Len(nm)
  PROVE  /\ Make(nm, sh, off, o).k = "long"
         /\ Make(nm, sh, off, o).order = off + Len(nm) - o
         /\ Make(nm, sh, off, o).piece = nm[off + Len(nm) - o]
         /\ o = off => IsLast(Make(nm, sh, off, o))
         /\ o # off => NotLast(Make(nm, sh, off, o))
<1>1. Make(nm, sh, off, o) = Long(nm, off + Len(nm) - o)
  BY DEF Make
<1>2. Len(nm) \in Nat
  BY DEF IsName
<1>3. (off + Len(nm) - o = Len(nm)) <=> (o = off)
  BY <1>2
<1> QED BY <1>1, <1>3, LongIs
LEMMA MakeShort ==
  ASSUME NEW nm, IsName(nm), NEW sh, NEW off \in Nat
  PROVE  Make(nm, sh, off, off + Len(nm)) = sh
BY DEF Make, IsName

LEMMA PartGroups ==
  ASSUME NEW D, NEW off, NEW W, NEW nm, IsName(nm), NEW sh, sh.k = "short",
         Partly(D, off, W, nm, sh), NEW g \in Nat, IsGroup(D, g)
  PROVE  GEnd(D, g) < off \/ (g = off /\ W = off + Len(nm) + 1)
<1>0. off \in Nat /\ W \in Nat /\ off <= W /\ W <= off + Len(nm) + 1 /\ Len(nm) \in Nat \ {0}
  BY DEF Partly, IsName
<1>9. g \in Nat /\ IsGroup(D, g)
  OBVIOUS
<1>1. GEnd(D, g) \in Nat /\ GEnd(D, g) > g /\ D[g].k = "long" /\ IsLast(D[g]) /\ D[GEnd(D, g)].k = "short"
  BY ONLY <1>9, GroupIs
<1>2. GEnd(D, g) < W
  BY <1>0, GroupBefore DEF Partly
<1>3. CASE g < off
  <2>1. g \in 0..(off - 1) /\ D[g].k # "empty"
    BY <1>0, <1>1, <1>3
  <2>2. PICK h \in 0..g : IsGroup(D, h) /\ g <= GEnd(D, h) /\ GEnd(D, h) < off
    BY <2>1 DEF Partly, Regular
  <2>3. h = g
    BY <2>2, <1>1, GroupAt
  <2> QED BY <2>2, <2>3
<1>4. CASE g >= off
  <2>1. g \in off..(W - 1) /\ g \in off..(off + Len(nm)) /\ GEnd(D, g) \in off..(W - 1)
        /\ GEnd(D, g) \in off..(off + Len(nm))
    BY <1>0, <1>1, <1>2, <1>4
  <2>2. D[g] = Make(nm, sh, off, g) /\ D[GEnd(D, g)] = Make(nm, sh, off, GEnd(D, g))
    BY <2>1 DEF Partly
  <2>3. g = off
    <3>1. g # off + Len(nm)
      BY <2>2, <1>0, <1>1, MakeShort
    <3> QED BY <3>1, <2>1, <2>2, <1>0, <1>1, MakeLong, LastOrNot
  <2>4. ~(GEnd(D, g) < off + Len(nm))
    BY <2>1, <2>2, <1>0, <1>1, MakeLong
  <2> QED BY <2>3, <2>4, <1>0, <1>1, <1>2
<1> QED BY <1>0, <1>3, <1>4

Spelled(a, nm) == a = [i \in 1..Len(nm) |-> nm[i]]
LEMMA PartDone ==
  ASSUME NEW D, NEW off, NEW W, NEW nm, IsName(nm), NEW sh, sh.k = "short",
         Partly(D, off, W, nm, sh), W = off + Len(nm) + 1
  PROVE  /\ IsGroup(D, off) /\ GEnd(D, off) = off + Len(nm) /\ GInfo(D, off) = sh
         /\ Spelled(GName(D, off), nm)
         /\ Regular(D, W)
<1>0. off \in Nat /\ Len(nm) \in Nat \ {0} /\ \A o \in off..(off + Len(nm)) : D[o] = Make(nm, sh, off, o)
  BY DEF Partly, IsName
<1>1. /\ D[off].k = "long" /\ IsLast(D[off]) /\ D[off].order = Len(nm)
      /\ D[off + Len(nm)] = sh
  <2>1. off \in off..(off + Len(nm)) /\ off + Len(nm) \in off..(off + Len(nm)) /\ off < off + Len(nm)
        /\ off + Len(nm) - off = Len(nm)
    BY <1>0
  <2>2. D[off] = Make(nm, sh, off, off) /\ D[off + Len(nm)] = Make(nm, sh, off, off + Len(nm))
    BY <2>1, <1>0
  <2>3. D[off + Len(nm)] = sh
    BY <2>2, <1>0, MakeShort
  <2> QED BY <2>1, <2>2, <2>3, <1>0, MakeLong
<1>2. ASSUME NEW i \in 1..Len(nm)
      PROVE  /\ D[off + Len(nm) - i].k = "long" /\ D[off + Len(nm) - i].order = i
             /\ D[off + Len(nm) - i].piece = nm[i]
             /\ i # Len(nm) => NotLast(D[off + Len(nm) - i])
  <2> DEFINE o == off + Len(nm) - i
  <2>1. o \in off..(off + Len(nm)) /\ o < off + Len(nm) /\ off + Len(nm) - o = i /\ (i # Len(nm) => o # off)
    BY <1>0
  <2> HIDE DEF o
  <2>2. D[o] = Make(nm, sh, off, o)
    BY <2>1, <1>0
  <2>3. /\ D[o].k = "long" /\ D[o].order = i /\ D[o].piece = nm[i] /\ (i # Len(nm) => NotLast(D[o]))
    BY <2>1, <2>2, <1>0, MakeLong
  <2> QED BY <2>3 DEF o
<1>3. IsGroup(D, off)
  <2>1. \A i \in 1..D[off].order :
          /\ D[off + D[off].order - i].k = "long" /\ D[off + D[off].order - i].order = i
          /\ i # D[off].order => NotLast(D[off + D[off].order - i])
    BY <1>1, <1>2
  <2>2. D[off].order \in Nat \ {0} /\ D[off + D[off].order].k = "short"
    BY <1>0, <1>1
  <2> QED BY <1>1, <2>1, <2>2, Zenon DEF IsGroup
<1>4. GEnd(D, off) = off + Len(nm) /\ GInfo(D, off) = sh
  BY <1>1 DEF GEnd, GInfo
<1>5. GName(D, off) = [i \in 1..Len(nm) |-> nm[i]]
  <2>1. GName(D, off) = [i \in 1..Len(nm) |-> D[off + Len(nm) - i].piece]
    BY <1>1 DEF GName
  <2> QED BY <2>1, <1>2
<1>6. Regular(D, W)
  <2>1. Regular(D, off)
    BY DEF Partly
  <2> QED BY <1>0, <1>3, <1>4, <2>1, RegularGroup
<1> QED BY <1>3, <1>4, <1>5, <1>6 DEF Spelled

LEMMA PartStart ==
  ASSUME NEW D, NEW off \in Nat, NEW nm, IsName(nm), NEW sh, Regular(D, off), Free(D, off)
  PROVE  Partly(D, off, off, nm, sh)
BY DEF Partly, IsName

LEMMA RegularSame ==
  ASSUME NEW D, NEW E, NEW N \in Nat, Regular(D, N), \A o \in 0..(N - 1) : E[o] = D[o]
  PROVE  Regular(E, N)
<1> SUFFICES ASSUME NEW o \in 0..(N - 1), E[o].k # "empty"
             PROVE  \E g \in 0..o : IsGroup(E, g) /\ o <= GEnd(E, g) /\ GEnd(E, g) < N
  BY DEF Regular
<1>1. PICK g \in 0..o : IsGroup(D, g) /\ o <= GEnd(D, g) /\ GEnd(D, g) < N
  BY DEF Regular
<1>2. g \in Nat /\ IsGroup(D, g)
  BY <1>1
<1>3. GEnd(D, g) \in Nat
  BY ONLY <1>2, GroupIs
<1>4. \A j \in g..GEnd(D, g) : E[j] = D[j]
  BY <1>1, <1>3
<1>5. IsGroup(E, g) /\ GEnd(E, g) = GEnd(D, g)
  BY <1>2, <1>4, GroupSame
<1> QED BY <1>1, <1>5

LEMMA PartStep ==
  ASSUME NEW D, NEW off, NEW W, NEW nm, IsName(nm), NEW sh, sh.k = "short",
         Partly(D, off, W, nm, sh), W <= off + Len(nm),
         NEW E, \A o \in Nat : E[o] = IF o = W THEN Make(nm, sh, off, W) ELSE D[o]
  PROVE  /\ Partly(E, off, W + 1, nm, sh)
         /\ \A g \in Groups(D) : g \in Groups(E) /\ GName(E, g) = GName(D, g) /\ GInfo(E, g) = GInfo(D, g)
                                 /\ GEnd(D, g) < off
         /\ \A g \in Groups(E) : g # off => g \in Groups(D)
<1>0. off \in Nat /\ W \in Nat /\ off <= W /\ Len(nm) \in Nat \ {0} /\ Regular(D, off) /\ Free(D, W)
      /\ \A o \in off..(W - 1) : D[o] = Make(nm, sh, off, o)
  BY DEF Partly, IsName
<1>1. Regular(E, off)
  <2>1. \A o \in 0..(off - 1) : E[o] = D[o]
    BY <1>0
  <2> QED BY <2>1, <1>0, RegularSame
<1>2. Free(E, W + 1)
  <2> SUFFICES ASSUME NEW o \in Nat, o >= W + 1 PROVE E[o].k \in {"empty", "byte"} /\ (E[o].k = "byte" => E[o+1].k = "byte")
    BY DEF Free
  <2>1. E[o] = D[o] /\ E[o+1] = D[o+1] /\ o >= W
    BY <1>0
  <2> QED BY <2>1, <1>0 DEF Free
<1>3. \A o \in off..W : E[o] = Make(nm, sh, off, o)
  BY <1>0
<1>4. Partly(E, off, W + 1, nm, sh)
  BY <1>0, <1>1, <1>2, <1>3 DEF Partly
<1>5. ASSUME NEW g \in Groups(D)
      PROVE g \in Groups(E) /\ GName(E, g) = GName(D, g) /\ GInfo(E, g) = GInfo(D, g) /\ GEnd(D, g) < off
  <2>0. g \in Nat /\ IsGroup(D, g)
    BY DEF Groups
  <2>1. GEnd(D, g) < off
    BY <2>0, <1>0, PartGroups
  <2>2. GEnd(D, g) \in Nat
    BY ONLY <2>0, GroupIs
  <2>3. \A o \in g..GEnd(D, g) : E[o] = D[o]
    BY <2>0, <2>1, <2>2, <1>0
  <2> QED BY <2>0, <2>1, <2>3, GroupSame DEF Groups
<1>6. ASSUME NEW g \in Groups(E), g # off PROVE g \in Groups(D)
  <2>0. g \in Nat /\ IsGroup(E, g)
    BY DEF Groups
  <2>1. GEnd(E, g) < off
    BY <2>0, <1>0, <1>4, <1>6, PartGroups
  <2>2. GEnd(E, g) \in Nat
    BY ONLY <2>0, GroupIs
  <2>3. \A o \in g..GEnd(E, g) : D[o] = E[o]
    BY <2>0, <2>1, <2>2, <1>0
  <2> QED BY <2>0, <2>3, GroupSame DEF Groups
<1> QED BY <1>4, <1>5, <1>6

\* all slots of a file are marked as free
LEMMA DirRemove ==
  ASSUME NEW D, NEW g \in Groups(D), NEW N \in Nat, Regular(D, N), Free(D, N), NEW empty, empty.k = "empty",
         NEW E, \A o \in Nat : E[o] = IF o \in g..GEnd(D, g) THEN empty ELSE D[o]
  PROVE  /\ Regular(E, N) /\ Free(E, N)
         /\ \A h \in Groups(D) : h # g =>
              h \in Groups(E) /\ GEnd(E, h) = GEnd(D, h) /\ GName(E, h) = GName(D, h) /\ GInfo(E, h) = GInfo(D, h)
         /\ \A h \in Groups(E) : h \in Groups(D) /\ h # g
<1>0. g \in Nat /\ IsGroup(D, g)
  BY DEF Groups
<1>1. GEnd(D, g) \in Nat /\ GEnd(D, g) > g
  BY ONLY <1>0, GroupIs
<1>2. GEnd(D, g) < N
  BY <1>0, GroupBefore
<1>3. ASSUME NEW h \in Groups(D), h # g
      PROVE  /\ h \in Nat /\ IsGroup(D, h) /\ GEnd(D, h) \in Nat
             /\ \A o \in h..GEnd(D, h) : E[o] = D[o]
             /\ h \in Groups(E) /\ GEnd(E, h) = GEnd(D, h) /\ GName(E, h) = GName(D, h) /\ GInfo(E, h) = GInfo(D, h)
  <2>0. h \in Nat /\ IsGroup(D, h)
    BY DEF Groups
  <2>1. GEnd(D, h) \in Nat
    BY ONLY <2>0, GroupIs
  <2>2. ASSUME NEW o \in h..GEnd(D, h) PROVE E[o] = D[o]
    <3>1. o \in Nat /\ h <= o /\ o <= GEnd(D, h)
      BY <2>0, <2>1
    <3>2. ~(g <= o /\ o <= GEnd(D, g))
      BY <3>1, <1>0, <2>0, <1>3, GroupAt
    <3> QED BY <3>1, <3>2
  <2> QED BY <2>0, <2>1, <2>2, GroupSame DEF Groups
<1>4. ASSUME NEW h \in Groups(E) PROVE h \in Groups(D) /\ h # g
  <2>0. h \in Nat /\ IsGroup(E, h)
    BY DEF Groups
  <2>1. GEnd(E, h) \in Nat /\ GEnd(E, h) > h /\ E[h].k = "long" /\ E[GEnd(E, h)].k = "short"
    BY ONLY <2>0, GroupIs
  <2>2. ASSUME NEW o \in h..GEnd(E, h) PROVE D[o] = E[o]
    <3>1. E[o].k # "empty" /\ o \in Nat
      <4>1. o \in h..(GEnd(E, h) - 1) \/ o = GEnd(E, h)
        BY <2>0, <2>1
      <4> QED BY <4>1, <2>0, <2>1, GroupSlots
    <3> QED BY <3>1
  <2>3. h # g
    <3>1. g \in g..GEnd(D, g)
      BY <1>0, <1>1
    <3> QED BY <3>1, <1>0, <2>1
  <2> QED BY <2>0, <2>2, <2>3, GroupSame DEF Groups
<1>5. Regular(E, N)
  <2> SUFFICES ASSUME NEW o \in 0..(N - 1), E[o].k # "empty"
               PROVE  \E h \in 0..o : IsGroup(E, h) /\ o <= GEnd(E, h) /\ GEnd(E, h) < N
    BY DEF Regular
  <2>1. E[o] = D[o] /\ o \notin g..GEnd(D, g)
    OBVIOUS
  <2>2. PICK h \in 0..o : IsGroup(D, h) /\ o <= GEnd(D, h) /\ GEnd(D, h) < N
    BY <2>1 DEF Regular
  <2>3. h \in Groups(D) /\ h # g
    BY <2>1, <2>2 DEF Groups
  <2>4. h \in Groups(E) /\ GEnd(E, h) = GEnd(D, h)
    BY <2>3, <1>3
  <2> QED BY <2>2, <2>4 DEF Groups
<1>6. Free(E, N)
  <2> SUFFICES ASSUME NEW o \in Nat, o >= N PROVE E[o].k \in {"empty", "byte"} /\ (E[o].k = "byte" => E[o+1].k = "byte")
    BY DEF Free
  <2>1. E[o] = D[o] /\ E[o+1] = D[o+1]
    BY <1>0, <1>1, <1>2
  <2> QED BY <2>1 DEF Free
<1> QED BY <1>3, <1>4, <1>5, <1>6

\* the short entry of a file is written again
LEMMA Update1 ==
  ASSUME NEW D, NEW g \in Groups(D), NEW v, v.k = "short",
         NEW E, \A o \in Nat : E[o] = IF o = GEnd(D, g) THEN v ELSE D[o]
  PROVE  \A h \in Groups(D) : /\ h \in Groups(E) /\ GEnd(E, h) = GEnd(D, h) /\ GName(E, h) = GName(D, h)
                              /\ GInfo(E, h) = IF h = g THEN v ELSE GInfo(D, h)
<1>0. g \in Nat /\ IsGroup(D, g)
  BY DEF Groups
<1>1. GEnd(D, g) \in Nat /\ GEnd(D, g) > g /\ GEnd(D, g) = g + D[g].order /\ D[g].order \in Nat \ {0}
  BY <1>0 DEF IsGroup, GEnd
<1>2. ASSUME NEW h \in Groups(D), h # g
      PROVE  h \in Groups(E) /\ GEnd(E, h) = GEnd(D, h) /\ GName(E, h) = GName(D, h) /\ GInfo(E, h) = GInfo(D, h)
  <2>0. h \in Nat /\ IsGroup(D, h)
    BY DEF Groups
  <2>1. GEnd(D, h) \in Nat
    BY ONLY <2>0, GroupIs
  <2>2. ASSUME NEW o \in h..GEnd(D, h) PROVE E[o] = D[o]
    <3>1. o \in Nat /\ h <= o /\ o <= GEnd(D, h)
      BY <2>0, <2>1
    <3>2. ~(g <= o /\ o <= GEnd(D, g))
      BY <3>1, <1>0, <2>0, <1>2, GroupAt
    <3>3. o # GEnd(D, g)
      BY <3>2, <1>0, <1>1
    <3> QED BY <3>1, <3>3
  <2> QED BY <2>0, <2>2, GroupSame DEF Groups
<1>3. E[g] = D[g] /\ E[g + D[g].order] = v
  BY <1>0, <1>1
<1>4. \A i \in 1..D[g].order : E[g + D[g].order - i] = D[g + D[g].order - i]
  BY <1>0, <1>1
<1>5. IsGroup(E, g)
  <2>1. D[g].k = "long" /\ IsLast(D[g]) /\ D[g].order \in Nat \ {0}
    BY <1>0 DEF IsGroup
  <2>2. \A i \in 1..D[g].order :
          /\ E[g + D[g].order - i].k = "long" /\ E[g + D[g].order - i].order = i
          /\ i # D[g].order => NotLast(E[g + D[g].order - i])
    BY <1>0, <1>4 DEF IsGroup
  <2> QED BY <1>3, <2>1, <2>2 DEF IsGroup
<1>6. GEnd(E, g) = GEnd(D, g) /\ GInfo(E, g) = v
  BY <1>3 DEF GEnd, GInfo
<1>7. GName(E, g) = GName(D, g)
  BY <1>3, <1>4 DEF GName
<1> QED BY <1>0, <1>2, <1>5, <1>6, <1>7 DEF Groups

LEMMA DirUpdate ==
  ASSUME NEW D, NEW g \in Groups(D), NEW N \in Nat, Regular(D, N), Free(D, N), NEW v, v.k = "short",
         NEW E, \A o \in Nat : E[o] = IF o = GEnd(D, g) THEN v ELSE D[o]
  PROVE  /\ Regular(E, N) /\ Free(E, N) /\ Groups(E) = Groups(D)
         /\ \A h \in Groups(D) : /\ GName(E, h) = GName(D, h)
                                 /\ GInfo(E, h) = IF h = g THEN v ELSE GInfo(D, h)
<1>0. g \in Nat /\ IsGroup(D, g)
  BY DEF Groups
<1>1. GEnd(D, g) \in Nat /\ GEnd(D, g) > g /\ D[GEnd(D, g)].k = "short"
  BY ONLY <1>0, GroupIs
<1>2. GEnd(D, g) < N
  BY <1>0, GroupBefore
<1>3. \A h \in Groups(D) : /\ h \in Groups(E) /\ GEnd(E, h) = GEnd(D, h) /\ GName(E, h) = GName(D, h)
                           /\ GInfo(E, h) = IF h = g THEN v ELSE GInfo(D, h)
  BY Update1
<1>4. \A o \in Nat : D[o] = IF o = GEnd(E, g) THEN D[GEnd(D, g)] ELSE E[o]
  BY <1>1, <1>3
<1>5. \A h \in Groups(E) : h \in Groups(D)
  BY <1>1, <1>3, <1>4, Update1
<1>6. Regular(E, N)
  <2> SUFFICES ASSUME NEW o \in 0..(N - 1), E[o].k # "empty"
               PROVE  \E h \in 0..o : IsGroup(E, h) /\ o <= GEnd(E, h) /\ GEnd(E, h) < N
    BY DEF Regular
  <2>1. D[o].k # "empty"
    BY <1>1
  <2>2. PICK h \in 0..o : IsGroup(D, h) /\ o <= GEnd(D, h) /\ GEnd(D, h) < N
    BY <2>1 DEF Regular
  <2>3. h \in Groups(D)
    BY <2>2 DEF Groups
  <2> QED BY <2>2, <2>3, <1>3 DEF Groups
<1>7. Free(E, N)
  <2> SUFFICES ASSUME NEW o \in Nat, o >= N PROVE E[o].k \in {"empty", "byte"} /\ (E[o].k = "byte" => E[o+1].k = "byte")
    BY DEF Free
  <2>1. E[o] = D[o] /\ E[o+1] = D[o+1]
    BY <1>0, <1>1, <1>2
  <2> QED BY <2>1 DEF Free
<1> QED BY <1>3, <1>5, <1>6, <1>7

-----------------------------------------------------------------------------
(* The cells of a chain *)
LEMMA DivIs ==
  ASSUME NEW o \in Nat
  PROVE  o \div C \in Nat /\ o % C \in 0..(C - 1) /\ o = C * (o \div C) + (o % C)
<1>1. C \in Nat \ {0}
  BY Bounds
<1> QED BY <1>1
LEMMA Times ==
  ASSUME NEW a \in Nat, NEW b \in Nat, a <= b
  PROVE  C * a \in Nat /\ C * b \in Nat /\ C * a <= C * b /\ C * (b + 1) = C * b + C
<1>1. C \in Nat
  BY Bounds
<1>2. C * (b - a) >= 0 /\ C * (b - a) = C * b - C * a
  BY <1>1
<1> QED BY <1>1, <1>2
LEMMA DivLess ==
  ASSUME NEW o \in Nat, NEW l \in Nat
  PROVE  o < C * l <=> o \div C < l
<1> DEFINE q == o \div C r == o % C
<1>1. q \in Nat /\ r \in 0..(C - 1) /\ o = C * q + r
  BY DivIs
<1> HIDE DEF q, r
<1>0. C \in Nat \ {0}
  BY Bounds
<1>2. CASE q < l
  <2>1. q + 1 <= l /\ q + 1 \in Nat
    BY <1>1, <1>2
  <2>2. C * (q + 1) <= C * l /\ C * (q + 1) \in Nat /\ C * l \in Nat
    BY <2>1, Times
  <2>3. C * (q + 1) = C * q + C /\ C * q \in Nat
    BY <1>1, Times
  <2>4. o < C * l
    BY <2>2, <2>3, <1>1, <1>0
  <2> QED BY <2>4, <1>2 DEF q
<1>3. CASE l <= q
  <2>1. C * l <= C * q /\ C * l \in Nat /\ C * q \in Nat
    BY <1>1, <1>3, Times
  <2>2. ~(o < C * l)
    BY <2>1, <1>1, <1>0
  <2> QED BY <2>2, <1>1, <1>3 DEF q
<1> QED BY <1>1, <1>2, <1>3
LEMMA DivSame ==
  ASSUME NEW o \in Nat, NEW p \in Nat, o \div C = p \div C, o % C = p % C
  PROVE  o = p
<1>1. o = C * (o \div C) + (o % C) /\ p = C * (p \div C) + (p % C)
  BY DivIs
<1> QED BY <1>1

LEMMA TheIs == ASSUME NEW x PROVE The({x}) = x
BY DEF The
LEMMA CellIs == ASSUME NEW first, NEW off PROVE Cell(first, off) = CellOf(fat, data, first, off)
<1> DEFINE f(c) == IF IsCluster(c) THEN data[c][off % C] ELSE Byte(0)
<1>1. {f(c) : c \in {Nth(first, off \div C)}} = {f(Nth(first, off \div C))}
  OBVIOUS
<1>2. Cell(first, off) = f(Nth(first, off \div C))
  BY <1>1, TheIs DEF Cell
<1> QED BY <1>2, NthIs DEF CellOf

LEMMA ClusterLive ==
  ASSUME NEW t, TableOK(t), NEW h, IsHead(t, h), NEW n \in Nat
  PROVE  IsCluster(To(t, h, n)) <=> Live(t, To(t, h, n))
<1>1. To(t, h, n) = EOC \/ Live(t, To(t, h, n))
  BY Onward DEF IsHead
<1>2. Live(t, To(t, h, n)) => IsCluster(To(t, h, n))
  BY LiveNotEOC DEF IsCluster
<1>3. To(t, h, n) = EOC => ~IsCluster(To(t, h, n)) /\ ~Live(t, To(t, h, n))
  BY LiveNotEOC, Bounds DEF IsCluster
<1> QED BY <1>1, <1>2, <1>3

LEMMA DirIs ==
  ASSUME NEW t, NEW d, NEW o \in Nat
  PROVE  DirOf(t, d)[o] = CellOf(t, d, 2, o)
BY DEF DirOf

LEMMA DirEnd ==
  ASSUME NEW t, NEW d, TableOK(t), IsHead(t, 2), NEW l, IsLength(t, 2, l), NEW o \in Nat
  PROVE  /\ o >= C * l => DirOf(t, d)[o] = Byte(0)
         /\ o < C * l => Live(t, To(t, 2, o \div C))
<1>4. l \in Nat /\ l <= l
  BY Bounds DEF IsLength
<1>1. o \div C \in Nat /\ l \in Nat /\ C * l \in Nat
  BY <1>4, DivIs, Times
<1>2. ASSUME o >= C * l PROVE DirOf(t, d)[o] = Byte(0)
  <2>1. o \div C >= l
    BY <1>1, <1>2, DivLess
  <2>2. To(t, 2, o \div C) = EOC
    BY <1>1, <2>1 DEF IsLength
  <2>3. ~IsCluster(EOC)
    BY Bounds DEF IsCluster
  <2> QED BY ONLY <2>2, <2>3, DirIs, o \in Nat DEF CellOf
<1>3. ASSUME o < C * l PROVE Live(t, To(t, 2, o \div C))
  <2>1. o \div C < l
    BY <1>1, <1>3, DivLess
  <2> QED BY <1>1, <2>1 DEF IsLength
<1> QED BY <1>2, <1>3

\* what is not a byte lies in the chain
LEMMA DirInside ==
  ASSUME NEW t, NEW d, TableOK(t), IsHead(t, 2), NEW o \in Nat, DirOf(t, d)[o].k # "byte"
  PROVE  Live(t, To(t, 2, o \div C))
<1>1. IsCluster(To(t, 2, o \div C))
  BY DirIs DEF CellOf, Byte
<1> QED BY <1>1, ClusterLive, DivIs

LEMMA DirFrame ==
  ASSUME NEW t, NEW d, NEW u, NEW e, TableOK(t), IsHead(t, 2),
         \A n \in Nat : To(u, 2, n) = To(t, 2, n),
         \A n \in Nat : Live(t, To(t, 2, n)) => e[To(t, 2, n)] = d[To(t, 2, n)]
  PROVE  DirOf(u, e) = DirOf(t, d)
<1> SUFFICES ASSUME NEW o \in Nat PROVE CellOf(u, e, 2, o) = CellOf(t, d, 2, o)
  BY DEF DirOf
<1>1. o \div C \in Nat
  BY DivIs
<1>2. To(u, 2, o \div C) = To(t, 2, o \div C)
  BY <1>1
<1>3. IsCluster(To(t, 2, o \div C)) => e[To(t, 2, o \div C)] = d[To(t, 2, o \div C)]
  BY <1>1, ClusterLive
<1> QED BY <1>2, <1>3 DEF CellOf

\* cells of the directory at some offsets are changed
CellsSet(t, d, e, offs, v) ==
  /\ \A o \in offs : o \in Nat /\ Live(t, To(t, 2, o \div C))
  /\ \A n \in Nat, k \in 0..(C - 1) : Live(t, To(t, 2, n)) =>
        e[To(t, 2, n)][k] = IF \E o \in offs : To(t, 2, n) = To(t, 2, o \div C) /\ k = o % C
                            THEN v ELSE d[To(t, 2, n)][k]
SlotsSet(D, D2, offs, v) == \A o \in Nat : D2[o] = IF o \in offs THEN v ELSE D[o]
LEMMA DirSet ==
  ASSUME NEW t, NEW d, NEW e, TableOK(t), IsHead(t, 2), NEW offs, NEW v,
         CellsSet(t, d, e, offs, v)
  PROVE  SlotsSet(DirOf(t, d), DirOf(t, e), offs, v)
<1> SUFFICES ASSUME NEW o \in Nat
             PROVE  DirOf(t, e)[o] = IF o \in offs THEN v ELSE DirOf(t, d)[o]
  BY DEF SlotsSet
<1>1. o \div C \in Nat /\ o % C \in 0..(C - 1)
  BY DivIs
<1>2. CASE ~Live(t, To(t, 2, o \div C))
  <2>1. ~IsCluster(To(t, 2, o \div C)) /\ o \notin offs
    BY <1>1, <1>2, ClusterLive DEF CellsSet
  <2> QED BY <2>1, DirIs DEF CellOf
<1>3. CASE Live(t, To(t, 2, o \div C))
  <2>1. IsCluster(To(t, 2, o \div C))
    BY <1>1, <1>3, ClusterLive
  <2>2. DirOf(t, e)[o] = e[To(t, 2, o \div C)][o % C] /\ DirOf(t, d)[o] = d[To(t, 2, o \div C)][o % C]
    BY <2>1, DirIs DEF CellOf
  <2>3. ASSUME NEW p \in offs, To(t, 2, o \div C) = To(t, 2, p \div C), o % C = p % C PROVE p = o
    <3>1. p \div C \in Nat /\ To(t, 2, o \div C) # EOC
      BY DivIs, <1>3, LiveNotEOC DEF CellsSet
    <3>2. o \div C = p \div C
      BY <3>1, <1>1, <2>3, Apart
    <3>3. p \in Nat
      BY DEF CellsSet
    <3> QED BY <3>2, <3>3, <2>3, DivSame
  <2>4. (\E p \in offs : To(t, 2, o \div C) = To(t, 2, p \div C) /\ o % C = p % C) <=> o \in offs
    BY <2>3
  <2>5. e[To(t, 2, o \div C)][o % C] =
          IF \E p \in offs : To(t, 2, o \div C) = To(t, 2, p \div C) /\ o % C = p % C
          THEN v ELSE d[To(t, 2, o \div C)][o % C]
    BY <1>1, <1>3 DEF CellsSet
  <2> QED BY <2>2, <2>4, <2>5
<1> QED BY <1>2, <1>3

\* a cluster of zeros is appended to the directory
LEMMA DirLink ==
  ASSUME NEW t, NEW d, NEW u, NEW s, NEW m \in Nat, IsCluster(s), d[s] = Zeros,
         \A n \in 0..m : To(u, 2, n) = To(t, 2, n), To(u, 2, m + 1) = s,
         \A n \in Nat : n > m + 1 => To(u, 2, n) = EOC,
         \A n \in Nat : n > m => To(t, 2, n) = EOC
  PROVE  DirOf(u, d) = DirOf(t, d)
<1> SUFFICES ASSUME NEW o \in Nat PROVE CellOf(u, d, 2, o) = CellOf(t, d, 2, o)
  BY DEF DirOf
<1>5. ~IsCluster(EOC)
  BY Bounds DEF IsCluster
<1>1. o \div C \in Nat /\ o % C \in 0..(C - 1) /\ ~IsCluster(EOC)
  BY <1>5, DivIs
<1>2. CASE o \div C <= m
  <2>1. o \div C \in 0..m
    BY <1>1, <1>2
  <2> QED BY <2>1 DEF CellOf
<1>3. CASE o \div C = m + 1
  <2>1. To(u, 2, o \div C) = s /\ To(t, 2, o \div C) = EOC
    BY <1>1, <1>3
  <2>2. d[s][o % C] = Byte(0)
    BY <1>1 DEF Zeros
  <2> QED BY <2>1, <2>2, <1>1 DEF CellOf
<1>4. CASE o \div C > m + 1
  <2>1. To(u, 2, o \div C) = EOC /\ To(t, 2, o \div C) = EOC
    BY <1>1, <1>4
  <2> QED BY <2>1, <1>1 DEF CellOf
<1> QED BY <1>1, <1>2, <1>3, <1>4

-----------------------------------------------------------------------------
(* Recursive functions that go forward in a range *)
Goes(M, Stop, base, nxt, f) == f = [o \in 0..M |-> IF o \in Stop THEN base[o] ELSE f[nxt[o]]]
Grows(M, Stop, nxt) == \A o \in 0..M : o \notin Stop => nxt[o] \in (o + 1)..M
Gathers(M, Stop, add, nxt, f) == f = [o \in 0..M |-> IF o \in Stop THEN {} ELSE add[o] \cup f[nxt[o]]]
LEMMA ForwardExists ==
  ASSUME NEW M \in Nat, NEW Stop, NEW base, NEW nxt,
         Grows(M, Stop, nxt)
  PROVE  \E f : Goes(M, Stop, base, nxt, f)
<1>g. \A o \in 0..M : o \notin Stop => nxt[o] \in (o + 1)..M
  BY DEF Grows
<1> DEFINE Part(k, f) == f = [o \in (M - k)..M |-> IF o \in Stop THEN base[o] ELSE f[nxt[o]]]
           T == {k \in Nat : k <= M => \E f : Part(k, f)}
<1>1. 0 \in T
  <2> DEFINE f == [o \in (M - 0)..M |-> base[o]]
  <2>1. M \in Stop /\ (M - 0)..M = {M}
    BY <1>g
  <2>2. f = [o \in (M - 0)..M |-> IF o \in Stop THEN base[o] ELSE f[nxt[o]]]
    BY <2>1
  <2> QED BY <2>2
<1>2. ASSUME NEW k \in T PROVE k + 1 \in T
  <2> SUFFICES ASSUME k + 1 <= M PROVE \E f : Part(k + 1, f)
    OBVIOUS
  <2>0. k \in Nat /\ k <= M
    OBVIOUS
  <2>1. PICK h : Part(k, h)
    BY <2>0
  <2> DEFINE a == M - (k + 1)
             f == [o \in a..M |-> IF o = a THEN (IF o \in Stop THEN base[o] ELSE h[nxt[o]]) ELSE h[o]]
  <2>2. ASSUME NEW o \in a..M PROVE f[o] = IF o \in Stop THEN base[o] ELSE f[nxt[o]]
    <3>0. o \in 0..M /\ a \in Nat /\ a + 1 = M - k
      BY <2>0
    <3>1. o \notin Stop => nxt[o] \in (a + 1)..M /\ nxt[o] # a /\ nxt[o] \in a..M
      BY <3>0, <1>g
    <3>2. o \notin Stop => f[nxt[o]] = h[nxt[o]]
      BY <3>1
    <3>3. CASE o = a
      BY <3>2, <3>3
    <3>4. CASE o # a
      <4>1. o \in (M - k)..M
        BY <3>0, <3>4
      <4>2. h[o] = IF o \in Stop THEN base[o] ELSE h[nxt[o]]
        BY <4>1, <2>1
      <4> QED BY <4>2, <3>2, <3>4
    <3> QED BY <3>3, <3>4
  <2>3. f = [o \in a..M |-> IF o \in Stop THEN base[o] ELSE f[nxt[o]]]
    BY <2>2
  <2>4. Part(k + 1, f)
    BY <2>3
  <2> QED BY <2>4
<1>3. T = Nat
  <2> HIDE DEF T
  <2>1. T \in SUBSET Nat BY DEF T
  <2> QED BY <1>1, <1>2, <2>1, Induct
<1>6. M \in T
  BY <1>3
<1>4. PICK f : Part(M, f)
  BY <1>6
<1>5. M - M = 0
  OBVIOUS
<1> QED BY <1>4, <1>5 DEF Goes

LEMMA UnionExists ==
  ASSUME NEW M \in Nat, NEW Stop, NEW add, NEW nxt,
         Grows(M, Stop, nxt)
  PROVE  \E f : Gathers(M, Stop, add, nxt, f)
<1>g. \A o \in 0..M : o \notin Stop => nxt[o] \in (o + 1)..M
  BY DEF Grows
<1> DEFINE Part(k, f) == f = [o \in (M - k)..M |-> IF o \in Stop THEN {} ELSE add[o] \cup f[nxt[o]]]
           T == {k \in Nat : k <= M => \E f : Part(k, f)}
<1>1. 0 \in T
  <2> DEFINE f == [o \in (M - 0)..M |-> {}]
  <2>1. M \in Stop /\ (M - 0)..M = {M}
    BY <1>g
  <2>2. f = [o \in (M - 0)..M |-> IF o \in Stop THEN {} ELSE add[o] \cup f[nxt[o]]]
    BY <2>1
  <2> QED BY <2>2
<1>2. ASSUME NEW k \in T PROVE k + 1 \in T
  <2> SUFFICES ASSUME k + 1 <= M PROVE \E f : Part(k + 1, f)
    OBVIOUS
  <2>0. k \in Nat /\ k <= M
    OBVIOUS
  <2>1. PICK h : Part(k, h)
    BY <2>0
  <2> DEFINE a == M - (k + 1)
             f == [o \in a..M |-> IF o = a THEN (IF o \in Stop THEN {} ELSE add[o] \cup h[nxt[o]]) ELSE h[o]]
  <2>2. ASSUME NEW o \in a..M PROVE f[o] = IF o \in Stop THEN {} ELSE add[o] \cup f[nxt[o]]
    <3>0. o \in 0..M /\ a \in Nat /\ a + 1 = M - k
      BY <2>0
    <3>1. o \notin Stop => nxt[o] \in (a + 1)..M /\ nxt[o] # a /\ nxt[o] \in a..M
      BY <3>0, <1>g
    <3>2. o \notin Stop => f[nxt[o]] = h[nxt[o]]
      BY <3>1
    <3>3. CASE o = a
      BY <3>2, <3>3
    <3>4. CASE o # a
      <4>1. o \in (M - k)..M
        BY <3>0, <3>4
      <4>2. h[o] = IF o \in Stop THEN {} ELSE add[o] \cup h[nxt[o]]
        BY <4>1, <2>1
      <4> QED BY <4>2, <3>2, <3>4
    <3> QED BY <3>3, <3>4
  <2>3. f = [o \in a..M |-> IF o \in Stop THEN {} ELSE add[o] \cup f[nxt[o]]]
    BY <2>2
  <2>4. Part(k + 1, f)
    BY <2>3
  <2> QED BY <2>4
<1>3. T = Nat
  <2> HIDE DEF T
  <2>1. T \in SUBSET Nat BY DEF T
  <2> QED BY <1>1, <1>2, <2>1, Induct
<1>6. M \in T
  BY <1>3
<1>4. PICK f : Part(M, f)
  BY <1>6
<1>5. M - M = 0
  OBVIOUS
<1> QED BY <1>4, <1>5 DEF Gathers

-----------------------------------------------------------------------------
(* enext() *)
Dir == DirOf(fat, data)
LEMMA CellDir == ASSUME NEW o \in Nat PROVE Cell(2, o) = Dir[o]
BY CellIs, DirIs DEF Dir

EnextBody(off, c) ==
  CASE c.k = "byte" -> [ret |-> -1]
    [] c.k = "empty" ->
         IF Kind(2, Behind(2, off)) = "byte" THEN [ret |-> -1]
         ELSE [ret |-> 0, count |-> Behind(2, off) - off, name |-> <<>>]
    [] c.k = "long" ->
         IF Complete(2, off, c.order) THEN Entry1(2, off, c.order) ELSE [ret |-> -1]
    [] c.k = "short" -> [ret |-> 1, count |-> 1, info |-> c, name |-> c.name]
LEMMA EnextIs == ASSUME NEW off \in Nat PROVE enext(2, off) = EnextBody(off, Dir[off])
<1>1. enext(2, off) = The({EnextBody(off, c) : c \in {Cell(2, off)}})
  BY DEF enext, EnextBody
<1>2. {EnextBody(off, c) : c \in {Cell(2, off)}} = {EnextBody(off, Cell(2, off))}
  OBVIOUS
<1> QED BY <1>1, <1>2, TheIs, CellDir

LEMMA EnextByte == ASSUME NEW off \in Nat, Dir[off].k = "byte" PROVE enext(2, off) = [ret |-> -1]
BY EnextIs DEF EnextBody
LEMMA EnextShort ==
  ASSUME NEW off \in Nat, Dir[off].k = "short"
  PROVE  enext(2, off) = [ret |-> 1, count |-> 1, info |-> Dir[off], name |-> Dir[off].name]
BY EnextIs DEF EnextBody
LEMMA EnextEmpty ==
  ASSUME NEW off \in Nat, NEW m \in Slot, m > off, Dir[m].k # "empty", \A j \in off..(m - 1) : Dir[j].k = "empty"
  PROVE  enext(2, off) = IF Dir[m].k = "byte" THEN [ret |-> -1] ELSE [ret |-> 0, count |-> m - off, name |-> <<>>]
<1>0. \A j \in Slot : j \in Nat
  BY Times, Bounds DEF Slot
<1>1. \A j \in Nat : Kind(2, j) = Dir[j].k
  BY CellDir DEF Kind
<1>2. Behind(2, off) = m
  <2> DEFINE P(j) == j \in Slot /\ j >= off /\ Kind(2, j) # "empty" /\ \A i \in off..(j - 1) : Kind(2, i) = "empty"
  <2>1. P(m)
    BY <1>0, <1>1
  <2>2. ASSUME NEW j \in Slot, P(j) PROVE j = m
    <3>1. j \in Nat /\ m \in Nat
      BY <1>0
    <3>2. ~(j < m)
      BY <3>1, <2>2, <1>1
    <3>3. ~(m < j)
      BY <3>1, <2>1, <2>2
    <3> QED BY <3>1, <3>2, <3>3
  <2> QED BY <2>1, <2>2 DEF Behind
<1>3. Dir[off].k = "empty" /\ m \in Nat
  BY <1>0
<1> QED BY <1>1, <1>2, <1>3, EnextIs DEF EnextBody
LEMMA EnextMid ==
  ASSUME NEW off \in Nat, Dir[off].k = "long", Dir[off].order \in Nat \ {0}, NotLast(Dir[off])
  PROVE  enext(2, off) = [ret |-> -1]
<1> DEFINE n == Dir[off].order
<1>1. ~Complete(2, off, n)
  <2> SUFFICES ASSUME Complete(2, off, n) PROVE FALSE
    OBVIOUS
  <2>1. n \in 1..n /\ off + n - n = off
    OBVIOUS
  <2>2. PICK c \in {Cell(2, off + n - n)} : c.last = (n = n)
    BY <2>1 DEF Complete
  <2>3. Dir[off].last = TRUE
    BY <2>1, <2>2, CellDir
  <2> QED BY <2>3, LastOrNot DEF IsLast
<1> QED BY <1>1, EnextIs DEF EnextBody
LEMMA EnextGroup ==
  ASSUME NEW off \in Nat, IsGroup(Dir, off)
  PROVE  enext(2, off) = [ret |-> 1, count |-> GEnd(Dir, off) - off + 1, info |-> GInfo(Dir, off),
                          name |-> GName(Dir, off)]
<1> DEFINE n == Dir[off].order
<1>0. n \in Nat \ {0} /\ Dir[off].k = "long" /\ IsLast(Dir[off]) /\ Dir[off + n].k = "short"
  BY DEF IsGroup
<1>1. \A i \in 1..n : off + n - i \in Nat /\ Cell(2, off + n - i) = Dir[off + n - i]
  BY <1>0, CellDir
<1>2. ASSUME NEW i \in 1..n PROVE Dir[off + n - i].last = (i = n)
  <2>1. CASE i = n
    <3>1. off + n - i = off
      BY <1>0, <2>1
    <3>2. Dir[off + n - i].last = TRUE
      BY <3>1, <1>0 DEF IsLast
    <3> QED BY <3>2, <2>1
  <2>2. CASE i # n
    <3>1. Dir[off + n - i].last = FALSE
      BY <2>2 DEF IsGroup, NotLast
    <3> QED BY <3>1, <2>2
  <2> QED BY <2>1, <2>2
<1>3. Complete(2, off, n)
  <2>1. ASSUME NEW i \in 1..n
        PROVE  \E c \in {Cell(2, off + n - i)} : c.k = "long" /\ c.order = i /\ c.last = (i = n)
    <3>1. Dir[off + n - i].k = "long" /\ Dir[off + n - i].order = i
      BY DEF IsGroup
    <3> QED BY <3>1, <1>1, <1>2
  <2>2. Kind(2, off + n) = "short"
    BY <1>0, CellDir DEF Kind
  <2> QED BY <2>1, <2>2 DEF Complete
<1>4. enext(2, off) = Entry1(2, off, n)
  BY <1>0, <1>3, EnextIs DEF EnextBody
<1>5. /\ Cell(2, off + n) = GInfo(Dir, off)
      /\ [i \in 1..n |-> Cell(2, off + n - i).piece] = GName(Dir, off)
      /\ n + 1 = GEnd(Dir, off) - off + 1
  BY <1>0, <1>1, CellDir DEF GInfo, GName, GEnd
<1> QED BY <1>4, <1>5 DEF Entry1

DirSound == TableOK(fat) /\ IsHead(fat, 2) /\ \E N \in Nat : Regular(Dir, N) /\ Free(Dir, N)

LEMMA SlotIs ==
  ASSUME TableOK(fat), IsHead(fat, 2)
  PROVE  /\ C * LAST \in Nat /\ Slot = 0..(C * LAST)
         /\ \A o \in Nat : o + 1 >= C * LAST => Dir[o].k = "byte"
<1>1. PICK l : IsLength(fat, 2, l)
  BY HasLength
<1>2. l \in Nat /\ LAST - 1 \in Nat /\ l <= LAST - 1
  BY <1>1, Bounds DEF IsLength
<1>3. C * l \in Nat /\ C * (LAST - 1) \in Nat /\ C * l <= C * (LAST - 1) /\ C * ((LAST - 1) + 1) = C * (LAST - 1) + C
  BY <1>2, Times
<1>4. (LAST - 1) + 1 = LAST /\ C \in Nat \ {0}
  BY <1>2, Bounds
<1>5. C * LAST \in Nat /\ C * l < C * LAST
  BY <1>3, <1>4
<1>6. ASSUME NEW o \in Nat, o + 1 >= C * LAST PROVE Dir[o].k = "byte"
  <2>1. o >= C * l
    BY <1>3, <1>5, <1>6
  <2>2. Dir[o] = Byte(0)
    BY <1>1, <2>1, DirEnd DEF Dir
  <2> QED BY <2>2 DEF Byte
<1> QED BY <1>5, <1>6 DEF Slot

LEMMA GroupInside ==
  ASSUME TableOK(fat), IsHead(fat, 2), NEW g \in Nat, IsGroup(Dir, g)
  PROVE  g \in Slot /\ GEnd(Dir, g) + 1 \in Slot /\ GEnd(Dir, g) \in Nat /\ GEnd(Dir, g) > g
<1>1. GEnd(Dir, g) \in Nat /\ GEnd(Dir, g) > g /\ Dir[GEnd(Dir, g)].k = "short"
  <2>1. g \in Nat /\ IsGroup(Dir, g)
    OBVIOUS
  <2> QED BY ONLY <2>1, GroupIs
<1>2. GEnd(Dir, g) + 1 < C * LAST
  BY <1>1, SlotIs
<1> QED BY <1>1, <1>2, SlotIs

\* after a free slot: the next one that is not, or the end
LEMMA NextUsed ==
  ASSUME TableOK(fat), IsHead(fat, 2), NEW off \in Slot, Dir[off].k = "empty"
  PROVE  \E m \in Slot : m > off /\ Dir[m].k # "empty" /\ \A j \in off..(m - 1) : Dir[j].k = "empty"
<1>0. off \in Nat /\ C * LAST \in Nat /\ Slot = 0..(C * LAST) /\ Dir[C * LAST].k = "byte" /\ off <= C * LAST
  BY SlotIs
<1> DEFINE T == {m \in Nat : m > off /\ Dir[m].k # "empty"}
<1>1. C * LAST \in T /\ T \in SUBSET Nat
  BY <1>0
<1>2. PICK m \in T : \A j \in T : m <= j
  <2> HIDE DEF T
  <2> QED BY <1>1, Least
<1>3. m \in Slot /\ m > off /\ Dir[m].k # "empty"
  BY <1>0, <1>1, <1>2
<1>4. ASSUME NEW j \in off..(m - 1) PROVE Dir[j].k = "empty"
  <2>1. j \in Nat /\ (j = off \/ j > off) /\ j < m
    BY <1>0, <1>3
  <2> QED BY <2>1, <1>2
<1> QED BY <1>3, <1>4

LEMMA EnextGoesOn ==
  ASSUME DirSound, NEW off \in Slot, enext(2, off).ret # -1
  PROVE  off + enext(2, off).count \in (off + 1)..(C * LAST)
<1>0. off \in Nat /\ C * LAST \in Nat /\ Slot = 0..(C * LAST) /\ TableOK(fat) /\ IsHead(fat, 2)
      /\ \A o \in Nat : o + 1 >= C * LAST => Dir[o].k = "byte"
  BY SlotIs DEF DirSound
<1>1. PICK N \in Nat : Regular(Dir, N) /\ Free(Dir, N)
  BY DEF DirSound
<1>2. Dir[off].k # "byte"
  BY <1>0, EnextByte
<1>3. CASE Dir[off].k = "empty"
  <2>1. PICK m \in Slot : m > off /\ Dir[m].k # "empty" /\ \A j \in off..(m - 1) : Dir[j].k = "empty"
    BY <1>0, <1>3, NextUsed
  <2>2. enext(2, off) = IF Dir[m].k = "byte" THEN [ret |-> -1] ELSE [ret |-> 0, count |-> m - off, name |-> <<>>]
    BY <1>0, <2>1, EnextEmpty
  <2>3. enext(2, off).count = m - off
    BY <2>2
  <2> QED BY <2>1, <2>3, <1>0
<1>4. CASE Dir[off].k # "empty"
  <2>1. off < N
    BY <1>0, <1>1, <1>2, <1>4 DEF Free
  <2>2. PICK h \in 0..off : IsGroup(Dir, h) /\ off <= GEnd(Dir, h) /\ GEnd(Dir, h) < N
    BY <2>1, <1>0, <1>1, <1>4 DEF Regular
  <2>3. h \in Nat /\ IsGroup(Dir, h) /\ h <= off
    BY <2>2
  <2>4. GEnd(Dir, h) \in Nat /\ GEnd(Dir, h) > h /\ GEnd(Dir, h) + 1 \in Slot
    BY <1>0, <2>3, GroupInside
  <2>5. CASE off = GEnd(Dir, h)
    <3>1. Dir[off].k = "short"
      BY <2>3, <2>5, GroupIs
    <3>2. enext(2, off).count = 1
      BY <3>1, <1>0, EnextShort
    <3> QED BY <3>2, <2>4, <2>5, <1>0
  <2>6. CASE off # GEnd(Dir, h) /\ off # h
    <3>1. off \in h..(GEnd(Dir, h) - 1)
      BY <2>2, <2>3, <2>4, <2>6, <1>0
    <3>2. Dir[off].k = "long" /\ Dir[off].order = GEnd(Dir, h) - off /\ NotLast(Dir[off])
      BY <2>3, <2>6, <3>1, GroupSlots
    <3>3. Dir[off].order \in Nat \ {0}
      BY <3>1, <3>2, <2>4, <1>0
    <3>4. enext(2, off) = [ret |-> -1]
      BY <3>2, <3>3, <1>0, EnextMid
    <3> QED BY <3>4
  <2>7. CASE off = h
    <3>1. enext(2, off).count = GEnd(Dir, h) - off + 1
      BY <2>3, <2>7, EnextGroup
    <3> QED BY <3>1, <2>3, <2>4, <2>7, <1>0
  <2> QED BY <2>5, <2>6, <2>7
<1> QED BY <1>3, <1>4

\* a scan that begins between two files: the end, a free slot, or a file
LEMMA Scan ==
  ASSUME DirSound, NEW off \in Slot, Regular(Dir, off)
  PROVE  \/ enext(2, off) = [ret |-> -1] /\ Free(Dir, off)
         \/ \E m \in Slot : /\ enext(2, off) = [ret |-> 0, count |-> m - off, name |-> <<>>]
                            /\ m > off /\ Regular(Dir, m) /\ \A g \in Groups(Dir) : g >= off => g >= m
         \/ /\ off \in Groups(Dir) /\ GEnd(Dir, off) + 1 \in Slot /\ GEnd(Dir, off) >= off
            /\ Regular(Dir, GEnd(Dir, off) + 1)
            /\ enext(2, off) = [ret |-> 1, count |-> GEnd(Dir, off) - off + 1, info |-> GInfo(Dir, off),
                                name |-> GName(Dir, off)]
            /\ \A g \in Groups(Dir) : g >= off => g = off \/ g >= GEnd(Dir, off) + 1
<1>0. off \in Nat /\ C * LAST \in Nat /\ Slot = 0..(C * LAST) /\ TableOK(fat) /\ IsHead(fat, 2)
  BY SlotIs DEF DirSound
<1>1. PICK N \in Nat : Regular(Dir, N) /\ Free(Dir, N)
  BY DEF DirSound
<1>2. Dir[off].k \in {"byte", "empty"} \/ IsGroup(Dir, off)
  BY <1>0, <1>1, Between
<1>3. CASE Dir[off].k = "byte"
  <2>1. off >= N \/ off \in 0..(N - 1)
    BY <1>0
  <2>2. CASE off \in 0..(N - 1)
    <3>1. PICK h \in 0..off : IsGroup(Dir, h) /\ off <= GEnd(Dir, h)
      BY <2>2, <1>1, <1>3 DEF Regular
    <3>2. h \in Nat /\ IsGroup(Dir, h) /\ GEnd(Dir, h) \in Nat /\ Dir[GEnd(Dir, h)].k = "short"
      BY <3>1, GroupIs
    <3>3. off \in h..(GEnd(Dir, h) - 1) \/ off = GEnd(Dir, h)
      BY <3>1, <3>2, <1>0
    <3> QED BY <3>2, <3>3, <1>3, GroupSlots
  <2>3. CASE off >= N
    <3>1. Free(Dir, off)
      BY <1>0, <1>1, <2>3 DEF Free
    <3> QED BY <3>1, <1>0, <1>3, EnextByte
  <2> QED BY <2>1, <2>2, <2>3
<1>4. CASE Dir[off].k = "empty"
  <2>1. PICK m \in Slot : m > off /\ Dir[m].k # "empty" /\ \A j \in off..(m - 1) : Dir[j].k = "empty"
    BY <1>0, <1>4, NextUsed
  <2>2. enext(2, off) = IF Dir[m].k = "byte" THEN [ret |-> -1] ELSE [ret |-> 0, count |-> m - off, name |-> <<>>]
    BY <1>0, <2>1, EnextEmpty
  <2>3. m \in Nat /\ Regular(Dir, m)
    BY <1>0, <2>1, RegularEmpty
  <2>4. ASSUME NEW g \in Groups(Dir), g >= off PROVE g >= m
    <3>1. g \in Nat /\ Dir[g].k = "long"
      BY DEF Groups, IsGroup
    <3>2. g \notin off..(m - 1)
      BY <2>1, <3>1
    <3> QED BY <3>1, <3>2, <2>3, <2>4, <1>0
  <2>5. CASE Dir[m].k # "byte"
    BY <2>1, <2>2, <2>3, <2>4, <2>5
  <2>6. CASE Dir[m].k = "byte"
    <3>1. m >= N
      <4> SUFFICES ASSUME m < N PROVE FALSE
        BY <2>3
      <4>1. m \in 0..(N - 1)
        BY <2>3
      <4>2. PICK h \in 0..m : IsGroup(Dir, h) /\ m <= GEnd(Dir, h)
        BY <4>1, <2>1, <1>1 DEF Regular
      <4>3. h \in Nat /\ IsGroup(Dir, h) /\ GEnd(Dir, h) \in Nat /\ Dir[GEnd(Dir, h)].k = "short"
        BY <4>2, GroupIs
      <4>4. m \in h..(GEnd(Dir, h) - 1) \/ m = GEnd(Dir, h)
        BY <4>2, <4>3, <2>3
      <4> QED BY <4>3, <4>4, <2>6, GroupSlots
    <3>2. Free(Dir, off)
      <4> SUFFICES ASSUME NEW o \in Nat, o >= off
                   PROVE  Dir[o].k \in {"empty", "byte"} /\ (Dir[o].k = "byte" => Dir[o+1].k = "byte")
        BY DEF Free
      <4>1. CASE o < m
        <5>1. o \in off..(m - 1)
          BY <4>1, <1>0
        <5> QED BY <5>1, <2>1
      <4>2. CASE o >= m
        BY <4>2, <3>1, <2>3, <1>1 DEF Free
      <4> QED BY <4>1, <4>2, <2>3
    <3> QED BY <2>2, <2>6, <3>2
  <2> QED BY <2>5, <2>6
<1>5. CASE IsGroup(Dir, off)
  <2>1. off \in Groups(Dir) /\ GEnd(Dir, off) + 1 \in Slot /\ GEnd(Dir, off) \in Nat /\ GEnd(Dir, off) >= off
    BY <1>0, <1>5, GroupInside DEF Groups
  <2>2. Regular(Dir, GEnd(Dir, off) + 1)
    BY <1>0, <1>5, RegularGroup
  <2>3. ASSUME NEW g \in Groups(Dir), g >= off PROVE g = off \/ g >= GEnd(Dir, off) + 1
    <3>1. g \in Nat /\ IsGroup(Dir, g)
      BY DEF Groups
    <3>2. off < g => GEnd(Dir, off) < g
      BY <3>1, <1>0, <1>5, GroupsApart
    <3> QED BY <3>1, <3>2, <2>1, <2>3, <1>0
  <2> QED BY <2>1, <2>2, <2>3, <1>0, <1>5, EnextGroup
<1> QED BY <1>2, <1>3, <1>4, <1>5

(* dirlookup() *)
LookBody(n, off, f) == The({
        IF r.ret = -1 THEN [found |-> FALSE, off |-> off]
        ELSE IF r.name = n THEN [found |-> TRUE, off |-> off, info |-> r.info]
        ELSE f[off + r.count] : r \in {enext(2, off)}})
LookStep(n, off, f) ==
  LET r == enext(2, off) IN
  IF r.ret = -1 THEN [found |-> FALSE, off |-> off]
  ELSE IF r.name = n THEN [found |-> TRUE, off |-> off, info |-> r.info]
  ELSE f[off + r.count]
LEMMA LookBodyIs == ASSUME NEW n, NEW off, NEW f PROVE LookBody(n, off, f) = LookStep(n, off, f)
<1> DEFINE e(r) == IF r.ret = -1 THEN [found |-> FALSE, off |-> off]
        ELSE IF r.name = n THEN [found |-> TRUE, off |-> off, info |-> r.info]
        ELSE f[off + r.count]
<1>1. {e(r) : r \in {enext(2, off)}} = {e(enext(2, off))}
  OBVIOUS
<1>2. LookBody(n, off, f) = The({e(r) : r \in {enext(2, off)}})
  BY DEF LookBody
<1>3. LookStep(n, off, f) = e(enext(2, off))
  BY DEF LookStep
<1> QED BY <1>1, <1>2, <1>3, TheIs
IsLook(n, f) == f = [off \in Slot |-> LookStep(n, off, f)]

LEMMA LookFrom ==
  ASSUME DirSound, NEW n
  PROVE  \E f : IsLook(n, f) /\ dirlookup(2, n) = f[0]
<1>0. C * LAST \in Nat /\ Slot = 0..(C * LAST)
  BY SlotIs DEF DirSound
<1> DEFINE Stop == {o \in Slot : enext(2, o).ret = -1 \/ enext(2, o).name = n}
           base == [o \in Slot |-> IF enext(2, o).ret = -1 THEN [found |-> FALSE, off |-> o]
                                   ELSE [found |-> TRUE, off |-> o, info |-> enext(2, o).info]]
           nxt == [o \in Slot |-> o + enext(2, o).count]
           M == C * LAST
<1>1. \A o \in 0..M : o \notin Stop => nxt[o] \in (o + 1)..M
  BY <1>0, EnextGoesOn
<1>2. PICK f : Goes(M, Stop, base, nxt, f)
  <2>1. M \in Nat /\ Grows(M, Stop, nxt)
    BY <1>0, <1>1 DEF Grows
  <2> HIDE DEF Stop, base, nxt, M
  <2> QED BY <2>1, ForwardExists
<1>3. ASSUME NEW o \in Slot PROVE (IF o \in Stop THEN base[o] ELSE f[nxt[o]]) = LookStep(n, o, f)
  BY DEF LookStep
<1>4. f = [o \in Slot |-> LookStep(n, o, f)]
  <2> HIDE DEF Stop, base, nxt
  <2> QED BY <1>0, <1>2, <1>3 DEF Goes
<1>5. \A g : g = [off \in Slot |-> LookBody(n, off, g)] <=> IsLook(n, g)
  BY LookBodyIs DEF IsLook
<1> DEFINE from == CHOOSE g : g = [off \in Slot |-> LookBody(n, off, g)]
<1>6. from = [off \in Slot |-> LookBody(n, off, from)]
  BY <1>4, <1>5, Zenon DEF IsLook
<1>7. dirlookup(2, n) = from[0]
  BY DEF dirlookup, LookBody
<1> HIDE DEF from
<1> QED BY <1>5, <1>6, <1>7

Found(n, off, r) == \E g \in Groups(Dir) : /\ g >= off /\ GName(Dir, g) = n
                                           /\ r = [found |-> TRUE, off |-> g, info |-> GInfo(Dir, g)]
NotFound(n, off, r) ==
  /\ r = [found |-> FALSE, off |-> r.off] /\ r.off \in Nat /\ Regular(Dir, r.off) /\ Free(Dir, r.off)
  /\ \A g \in Groups(Dir) : g >= off => GName(Dir, g) # n

LEMMA LookScan ==
  ASSUME DirSound, NEW n, n # <<>>, NEW f, IsLook(n, f)
  PROVE  \A off \in Slot : Regular(Dir, off) => Found(n, off, f[off]) \/ NotFound(n, off, f[off])
<1>0. C * LAST \in Nat /\ Slot = 0..(C * LAST)
  BY SlotIs DEF DirSound
<1> DEFINE M == C * LAST
           T == {k \in Nat : \A off \in Slot : off + k >= M /\ Regular(Dir, off)
                                => Found(n, off, f[off]) \/ NotFound(n, off, f[off])}
<1>1. ASSUME NEW k \in Nat, NEW off \in Slot, off + k >= M, Regular(Dir, off),
             \A o \in Slot : o > off /\ Regular(Dir, o) => Found(n, o, f[o]) \/ NotFound(n, o, f[o])
      PROVE  Found(n, off, f[off]) \/ NotFound(n, off, f[off])
  <2>0. f[off] = LookStep(n, off, f) /\ off \in Nat
    BY <1>0 DEF IsLook
  <2>1. CASE enext(2, off) = [ret |-> -1] /\ Free(Dir, off)
    <3>1. f[off] = [found |-> FALSE, off |-> off]
      BY <2>0, <2>1 DEF LookStep
    <3>2. \A g \in Groups(Dir) : ~(g >= off)
      <4> SUFFICES ASSUME NEW g \in Groups(Dir), g >= off PROVE FALSE
        OBVIOUS
      <4>1. g \in Nat /\ Dir[g].k = "long"
        BY DEF Groups, IsGroup
      <4> QED BY <4>1, <2>1 DEF Free
    <3>3. NotFound(n, off, f[off])
      BY <3>1, <3>2, <2>0, <2>1, <1>1 DEF NotFound
    <3> QED BY <3>3
  <2>2. CASE \E m \in Slot : /\ enext(2, off) = [ret |-> 0, count |-> m - off, name |-> <<>>]
                            /\ m > off /\ Regular(Dir, m) /\ \A g \in Groups(Dir) : g >= off => g >= m
    <3>1. PICK m \in Slot : /\ enext(2, off) = [ret |-> 0, count |-> m - off, name |-> <<>>]
                            /\ m > off /\ Regular(Dir, m) /\ \A g \in Groups(Dir) : g >= off => g >= m
      BY <2>2
    <3>2. m \in Nat /\ off + (m - off) = m
      BY <1>0, <2>0
    <3>3. f[off] = f[m]
      <4>1. enext(2, off).ret = 0 /\ enext(2, off).name = <<>> /\ enext(2, off).count = m - off
        BY <3>1
      <4>2. LookStep(n, off, f) = f[off + (m - off)]
        BY <4>1 DEF LookStep
      <4> QED BY <4>2, <3>2, <2>0
    <3>4. Found(n, m, f[m]) \/ NotFound(n, m, f[m])
      BY <3>1, <1>1
    <3>5. \A g \in Groups(Dir) : g >= m => g >= off
      BY <3>1, <3>2, <2>0 DEF Groups
    <3>6. Found(n, m, f[m]) => Found(n, off, f[m])
      BY <3>5 DEF Found
    <3>7. NotFound(n, m, f[m]) => NotFound(n, off, f[m])
      BY <3>1 DEF NotFound
    <3> QED BY <3>3, <3>4, <3>6, <3>7
  <2>3. CASE /\ off \in Groups(Dir) /\ GEnd(Dir, off) + 1 \in Slot /\ GEnd(Dir, off) >= off
            /\ Regular(Dir, GEnd(Dir, off) + 1)
            /\ enext(2, off) = [ret |-> 1, count |-> GEnd(Dir, off) - off + 1, info |-> GInfo(Dir, off),
                                name |-> GName(Dir, off)]
            /\ \A g \in Groups(Dir) : g >= off => g = off \/ g >= GEnd(Dir, off) + 1
    <3> DEFINE m == GEnd(Dir, off) + 1
    <3>1. m \in Slot /\ m \in Nat /\ m > off /\ off + (GEnd(Dir, off) - off + 1) = m
      <4>1. off \in Nat /\ IsGroup(Dir, off)
        BY <2>0, <2>3 DEF Groups
      <4>2. GEnd(Dir, off) \in Nat
        BY ONLY <4>1, GroupIs
      <4> QED BY <4>1, <4>2, <2>3
    <3>2. enext(2, off).ret = 1 /\ enext(2, off).name = GName(Dir, off) /\ enext(2, off).info = GInfo(Dir, off)
          /\ enext(2, off).count = GEnd(Dir, off) - off + 1
      BY <2>3
    <3>3. CASE GName(Dir, off) = n
      <4>0. enext(2, off).ret # -1 /\ enext(2, off).name = n
        BY <3>2, <3>3
      <4>1. LookStep(n, off, f) = [found |-> TRUE, off |-> off, info |-> enext(2, off).info]
        BY <4>0, Zenon DEF LookStep
      <4>3. f[off] = [found |-> TRUE, off |-> off, info |-> GInfo(Dir, off)]
        BY <3>2, <4>1, <2>0
      <4>2. off \in Groups(Dir) /\ off >= off
        BY <2>0, <2>3
      <4> QED BY <4>3, <4>2, <3>3, Zenon DEF Found
    <3>4. CASE GName(Dir, off) # n
      <4>1. f[off] = f[off + (GEnd(Dir, off) - off + 1)]
        BY <3>2, <3>4, <2>0 DEF LookStep
      <4>2. f[off] = f[m]
        BY <4>1, <3>1
      <4>3. Found(n, m, f[m]) \/ NotFound(n, m, f[m])
        BY <3>1, <2>3, <1>1
      <4>4. \A g \in Groups(Dir) : g >= m => g >= off
        BY <3>1, <2>0 DEF Groups
      <4>5. Found(n, m, f[m]) => Found(n, off, f[m])
        BY <4>4 DEF Found
      <4>6. NotFound(n, m, f[m]) => NotFound(n, off, f[m])
        BY <2>3, <3>4 DEF NotFound
      <4> QED BY <4>2, <4>3, <4>5, <4>6
    <3> QED BY <3>3, <3>4
  <2> QED BY <1>1, <2>1, <2>2, <2>3, Scan
<1>2. 0 \in T
  <2> SUFFICES ASSUME NEW off \in Slot, off + 0 >= M, Regular(Dir, off)
               PROVE  Found(n, off, f[off]) \/ NotFound(n, off, f[off])
    OBVIOUS
  <2>1. \A o \in Slot : ~(o > off)
    BY <1>0
  <2> QED BY <2>1, <1>1
<1>3. ASSUME NEW k \in T PROVE k + 1 \in T
  <2> SUFFICES ASSUME NEW off \in Slot, off + (k + 1) >= M, Regular(Dir, off)
               PROVE  Found(n, off, f[off]) \/ NotFound(n, off, f[off])
    OBVIOUS
  <2>1. ASSUME NEW o \in Slot, o > off, Regular(Dir, o) PROVE Found(n, o, f[o]) \/ NotFound(n, o, f[o])
    <3>1. o + k >= M
      BY <2>1, <1>0
    <3> QED BY <3>1, <2>1
  <2> QED BY <2>1, <1>1, k + 1 \in Nat
<1>4. T = Nat
  <2> HIDE DEF T
  <2>1. T \in SUBSET Nat BY DEF T
  <2> QED BY <1>2, <1>3, <2>1, Induct
<1>5. M \in T
  BY <1>0, <1>4
<1> QED BY <1>0, <1>5

LEMMA DirlookupIs ==
  ASSUME DirSound, NEW n, n # <<>>
  PROVE  LET r == dirlookup(2, n) IN
         \/ /\ r = [found |-> TRUE, off |-> r.off, info |-> GInfo(Dir, r.off)]
            /\ r.off \in Groups(Dir) /\ GName(Dir, r.off) = n
         \/ /\ r = [found |-> FALSE, off |-> r.off]
            /\ r.off \in Nat /\ Regular(Dir, r.off) /\ Free(Dir, r.off)
            /\ \A g \in Groups(Dir) : GName(Dir, g) # n
<1>1. PICK f : IsLook(n, f) /\ dirlookup(2, n) = f[0]
  BY LookFrom
<1>2. 0 \in Slot /\ Regular(Dir, 0)
  BY SlotIs, RegularZero DEF DirSound
<1>3. Found(n, 0, f[0]) \/ NotFound(n, 0, f[0])
  BY <1>1, <1>2, LookScan
<1>4. CASE Found(n, 0, f[0])
  <2>1. PICK g \in Groups(Dir) : GName(Dir, g) = n /\ f[0] = [found |-> TRUE, off |-> g, info |-> GInfo(Dir, g)]
    BY <1>4 DEF Found
  <2>2. f[0].off = g
    BY <2>1
  <2> QED BY <2>1, <2>2, <1>1
<1>5. CASE NotFound(n, 0, f[0])
  <2>1. \A g \in Groups(Dir) : g >= 0
    BY DEF Groups
  <2> QED BY <2>1, <1>1, <1>5 DEF NotFound
<1> QED BY <1>3, <1>4, <1>5

(* Listing *)
ListStep(off, f) ==
  LET r == enext(2, off)
  IN IF r.ret = -1 THEN {}
     ELSE (IF r.ret = 1 THEN {[off |-> off, name |-> r.name, info |-> r.info]} ELSE {})
          \cup f[off + r.count]
IsList(f) == f = [off \in Slot |-> ListStep(off, f)]
LEMMA ListFrom ==
  ASSUME DirSound, ent[Root].first = 2
  PROVE  \E f : IsList(f) /\ Listing = f[0]
<1>0. C * LAST \in Nat /\ Slot = 0..(C * LAST)
  BY SlotIs DEF DirSound
<1> DEFINE Stop == {o \in Slot : enext(2, o).ret = -1}
           add == [o \in Slot |-> IF enext(2, o).ret = 1
                                  THEN {[off |-> o, name |-> enext(2, o).name, info |-> enext(2, o).info]} ELSE {}]
           nxt == [o \in Slot |-> o + enext(2, o).count]
           M == C * LAST
<1>1. \A o \in 0..M : o \notin Stop => nxt[o] \in (o + 1)..M
  BY <1>0, EnextGoesOn
<1>2. PICK f : Gathers(M, Stop, add, nxt, f)
  <2>1. M \in Nat /\ Grows(M, Stop, nxt)
    BY <1>0, <1>1 DEF Grows
  <2> HIDE DEF Stop, add, nxt, M
  <2> QED BY <2>1, UnionExists
<1>3. ASSUME NEW o \in Slot PROVE (IF o \in Stop THEN {} ELSE add[o] \cup f[nxt[o]]) = ListStep(o, f)
  <2>1. CASE enext(2, o).ret = -1
    BY <2>1 DEF ListStep
  <2>2. CASE enext(2, o).ret # -1
    <3>1. o \notin Stop /\ nxt[o] = o + enext(2, o).count
      BY <2>2
    <3>2. add[o] = IF enext(2, o).ret = 1
                   THEN {[off |-> o, name |-> enext(2, o).name, info |-> enext(2, o).info]} ELSE {}
      OBVIOUS
    <3> HIDE DEF Stop, add, nxt
    <3> QED BY <2>2, <3>1, <3>2 DEF ListStep
  <2> QED BY <2>1, <2>2
<1>4. f = [o \in Slot |-> ListStep(o, f)]
  <2> HIDE DEF Stop, add, nxt
  <2> QED BY <1>0, <1>2, <1>3 DEF Gathers
<1> DEFINE from == CHOOSE g : g = [off \in Slot |-> ListStep(off, g)]
<1>6. from = [off \in Slot |-> ListStep(off, from)]
  BY <1>4, Zenon
<1>7. Listing = from[0]
  BY DEF Listing, ListStep
<1> HIDE DEF from
<1> QED BY <1>6, <1>7 DEF IsList

Row(D, g) == [off |-> g, name |-> GName(D, g), info |-> GInfo(D, g)]
Rows(off) == {Row(Dir, g) : g \in {h \in Groups(Dir) : h >= off}}

LEMMA ListScan ==
  ASSUME DirSound, NEW f, IsList(f)
  PROVE  \A off \in Slot : Regular(Dir, off) => f[off] = Rows(off)
<1>0. C * LAST \in Nat /\ Slot = 0..(C * LAST)
  BY SlotIs DEF DirSound
<1> DEFINE M == C * LAST
           T == {k \in Nat : \A off \in Slot : off + k >= M /\ Regular(Dir, off) => f[off] = Rows(off)}
<1>1. ASSUME NEW k \in Nat, NEW off \in Slot, off + k >= M, Regular(Dir, off),
             \A o \in Slot : o > off /\ Regular(Dir, o) => f[o] = Rows(o)
      PROVE  f[off] = Rows(off)
  <2>0. f[off] = ListStep(off, f) /\ off \in Nat
    BY <1>0 DEF IsList
  <2>1. CASE enext(2, off) = [ret |-> -1] /\ Free(Dir, off)
    <3>1. f[off] = {}
      BY <2>0, <2>1 DEF ListStep
    <3>2. \A g \in Groups(Dir) : ~(g >= off)
      <4> SUFFICES ASSUME NEW g \in Groups(Dir), g >= off PROVE FALSE
        OBVIOUS
      <4>1. g \in Nat /\ Dir[g].k = "long"
        BY DEF Groups, IsGroup
      <4> QED BY <4>1, <2>1 DEF Free
    <3>3. Rows(off) = {}
      BY <3>2 DEF Rows
    <3> QED BY <3>1, <3>3
  <2>2. CASE \E m \in Slot : /\ enext(2, off) = [ret |-> 0, count |-> m - off, name |-> <<>>]
                            /\ m > off /\ Regular(Dir, m) /\ \A g \in Groups(Dir) : g >= off => g >= m
    <3>1. PICK m \in Slot : /\ enext(2, off) = [ret |-> 0, count |-> m - off, name |-> <<>>]
                            /\ m > off /\ Regular(Dir, m) /\ \A g \in Groups(Dir) : g >= off => g >= m
      BY <2>2
    <3>2. m \in Nat /\ off + (m - off) = m
      BY <1>0, <2>0
    <3>3. f[off] = f[m]
      <4>1. enext(2, off).ret = 0 /\ enext(2, off).count = m - off
        BY <3>1
      <4>2. ListStep(off, f) = {} \cup f[off + enext(2, off).count]
        BY <4>1 DEF ListStep
      <4>3. off + enext(2, off).count = m
        BY <4>1, <3>2
      <4>4. {} \cup f[m] = f[m]
        BY Zenon
      <4> HIDE DEF ListStep
      <4> QED BY <4>2, <4>3, <4>4, <2>0
    <3>4. f[m] = Rows(m)
      BY <3>1, <1>1
    <3>5. \A g \in Groups(Dir) : g >= m <=> g >= off
      BY <3>1, <3>2, <2>0 DEF Groups
    <3>6. {h \in Groups(Dir) : h >= off} = {h \in Groups(Dir) : h >= m}
      BY <3>5
    <3> QED BY <3>3, <3>4, <3>6 DEF Rows
  <2>3. CASE /\ off \in Groups(Dir) /\ GEnd(Dir, off) + 1 \in Slot /\ GEnd(Dir, off) >= off
            /\ Regular(Dir, GEnd(Dir, off) + 1)
            /\ enext(2, off) = [ret |-> 1, count |-> GEnd(Dir, off) - off + 1, info |-> GInfo(Dir, off),
                                name |-> GName(Dir, off)]
            /\ \A g \in Groups(Dir) : g >= off => g = off \/ g >= GEnd(Dir, off) + 1
    <3> DEFINE m == GEnd(Dir, off) + 1
    <3>1. m \in Slot /\ m \in Nat /\ m > off /\ off + (GEnd(Dir, off) - off + 1) = m
      <4>1. off \in Nat /\ IsGroup(Dir, off)
        BY <2>0, <2>3 DEF Groups
      <4>2. GEnd(Dir, off) \in Nat
        BY ONLY <4>1, GroupIs
      <4> QED BY <4>1, <4>2, <2>3
    <3>2. enext(2, off).ret = 1 /\ enext(2, off).name = GName(Dir, off) /\ enext(2, off).info = GInfo(Dir, off)
          /\ enext(2, off).count = GEnd(Dir, off) - off + 1
      BY <2>3
    <3>3. ListStep(off, f) = {Row(Dir, off)} \cup f[off + (GEnd(Dir, off) - off + 1)]
      BY <3>2 DEF ListStep, Row
    <3>4. f[m] = Rows(m)
      BY <3>1, <2>3, <1>1
    <3>5. {h \in Groups(Dir) : h >= off} = {off} \cup {h \in Groups(Dir) : h >= m}
      BY <3>1, <2>0, <2>3 DEF Groups
    <3>6. Rows(off) = {Row(Dir, off)} \cup Rows(m)
      <4> HIDE DEF m
      <4> QED BY <3>5 DEF Rows
    <3>7. f[off] = {Row(Dir, off)} \cup f[m]
      BY <3>1, <3>3, <2>0
    <3> HIDE DEF m
    <3> QED BY <3>4, <3>6, <3>7
  <2> QED BY <1>1, <2>1, <2>2, <2>3, Scan
<1>2. 0 \in T
  <2> SUFFICES ASSUME NEW off \in Slot, off + 0 >= M, Regular(Dir, off)
               PROVE  f[off] = Rows(off)
    OBVIOUS
  <2>1. \A o \in Slot : ~(o > off)
    BY <1>0
  <2> QED BY <2>1, <1>1
<1>3. ASSUME NEW k \in T PROVE k + 1 \in T
  <2> SUFFICES ASSUME NEW off \in Slot, off + (k + 1) >= M, Regular(Dir, off)
               PROVE  f[off] = Rows(off)
    OBVIOUS
  <2>1. ASSUME NEW o \in Slot, o > off, Regular(Dir, o) PROVE f[o] = Rows(o)
    <3>1. o + k >= M
      BY <2>1, <1>0
    <3> QED BY <3>1, <2>1
  <2> QED BY <2>1, <1>1, k + 1 \in Nat
<1>4. T = Nat
  <2> HIDE DEF T
  <2>1. T \in SUBSET Nat BY DEF T
  <2> QED BY <1>2, <1>3, <2>1, Induct
<1>5. M \in T
  BY <1>0, <1>4
<1> QED BY <1>0, <1>5

\* the listing has the files of the directory, and no others
LEMMA ListingIs ==
  ASSUME DirSound, ent[Root].first = 2
  PROVE  Listing = {Row(Dir, g) : g \in Groups(Dir)}
<1>1. PICK f : IsList(f) /\ Listing = f[0]
  BY ListFrom
<1>2. 0 \in Slot /\ Regular(Dir, 0)
  BY SlotIs, RegularZero DEF DirSound
<1>3. f[0] = Rows(0)
  BY <1>1, <1>2, ListScan
<1>4. {h \in Groups(Dir) : h >= 0} = Groups(Dir)
  BY DEF Groups
<1> QED BY <1>1, <1>3, <1>4 DEF Rows

-----------------------------------------------------------------------------
(* Sequences *)

LEMMA SeqEmpty == ASSUME NEW s, IsSeq(s) PROVE (s = <<>> <=> Len(s) = 0) /\ (s # <<>> <=> Len(s) >= 1)
<1>1. Len(s) = 0 => s = <<>>
  BY DEF IsSeq
<1>2. s = <<>> => Len(s) = 0
  OBVIOUS
<1> QED BY <1>1, <1>2 DEF IsSeq
LEMMA IsIn == ASSUME NEW s, IsSeq(s), NEW S, \A k \in 1..Len(s) : s[k] \in S PROVE s \in Seq(S)
<1>1. s = [k \in 1..Len(s) |-> s[k]] /\ Len(s) \in Nat
  BY DEF IsSeq
<1>2. [k \in 1..Len(s) |-> s[k]] \in [1..Len(s) -> S]
  OBVIOUS
<1>3. s \in [1..Len(s) -> S]
  BY ONLY <1>1, <1>2, Zenon
<1> QED BY <1>1, <1>3
LEMMA InIs == ASSUME NEW S, NEW s \in Seq(S) PROVE IsSeq(s)
BY DEF IsSeq

LEMMA CatIs ==
  ASSUME NEW a, NEW b, IsSeq(a), IsSeq(b)
  PROVE  /\ IsSeq(a \o b) /\ Len(a \o b) = Len(a) + Len(b)
         /\ \A k \in 1..Len(a) : (a \o b)[k] = a[k]
         /\ \A k \in 1..Len(b) : (a \o b)[Len(a) + k] = b[k]
<1> DEFINE S == {a[k] : k \in 1..Len(a)} \cup {b[k] : k \in 1..Len(b)}
<1>1. a \in Seq(S) /\ b \in Seq(S)
  <2>1. \A k \in 1..Len(a) : a[k] \in S
    OBVIOUS
  <2>2. \A k \in 1..Len(b) : b[k] \in S
    OBVIOUS
  <2> HIDE DEF S
  <2> QED BY <2>1, <2>2, IsIn
<1> HIDE DEF S
<1>2. a \o b \in Seq(S)
  BY <1>1, ConcatProperties
<1>3. IsSeq(a \o b)
  BY <1>2, InIs
<1>4. Len(a) \in Nat /\ Len(b) \in Nat
  BY DEF IsSeq
<1>5. Len(a \o b) = Len(a) + Len(b)
  BY <1>1, ConcatProperties
<1>6. ASSUME NEW k \in 1..Len(a) PROVE (a \o b)[k] = a[k]
  BY <1>1, <1>4, ConcatProperties
<1>7. ASSUME NEW k \in 1..Len(b) PROVE (a \o b)[Len(a) + k] = b[k]
  <2>1. Len(a) + k \in 1..(Len(a) + Len(b)) /\ Len(a) + k > Len(a) /\ Len(a) + k - Len(a) = k
    BY <1>4
  <2> QED BY <1>1, <2>1, ConcatProperties
<1> QED BY <1>3, <1>5, <1>6, <1>7

LEMMA TailIs ==
  ASSUME NEW s, IsSeq(s), Len(s) >= 1
  PROVE  /\ IsSeq(Tail(s)) /\ Len(Tail(s)) = Len(s) - 1
         /\ \A k \in 1..(Len(s) - 1) : Tail(s)[k] = s[k + 1]
<1> DEFINE S == {s[k] : k \in 1..Len(s)}
<1>1. s \in Seq(S)
  <2>1. \A k \in 1..Len(s) : s[k] \in S
    OBVIOUS
  <2> HIDE DEF S
  <2> QED BY <2>1, IsIn
<1> HIDE DEF S
<1>2. s # <<>>
  BY SeqEmpty
<1>3. Tail(s) \in Seq(S) /\ Len(Tail(s)) = Len(s) - 1 /\ \A k \in 1..Len(Tail(s)) : Tail(s)[k] = s[k + 1]
  BY <1>1, <1>2, HeadTailProperties
<1>4. IsSeq(Tail(s))
  BY <1>3, InIs
<1> QED BY <1>3, <1>4

\* what is left of s when its first step is replaced by those of a
Pushed(a, s) == a \o Tail(s)
LEMMA PushIs ==
  ASSUME NEW s, NEW a, IsSeq(s), IsSeq(a), Len(s) >= 1
  PROVE  /\ IsSeq(Pushed(a, s)) /\ Len(Pushed(a, s)) = Len(a) + Len(s) - 1
         /\ \A k \in 1..Len(a) : Pushed(a, s)[k] = a[k]
         /\ \A k \in 2..Len(s) : Pushed(a, s)[Len(a) + k - 1] = s[k]
<1>0. Len(s) \in Nat /\ Len(a) \in Nat
  BY DEF IsSeq
<1>1. IsSeq(Tail(s)) /\ Len(Tail(s)) = Len(s) - 1 /\ \A k \in 1..(Len(s) - 1) : Tail(s)[k] = s[k + 1]
  BY TailIs
<1>2. /\ IsSeq(a \o Tail(s)) /\ Len(a \o Tail(s)) = Len(a) + Len(Tail(s))
      /\ \A k \in 1..Len(a) : (a \o Tail(s))[k] = a[k]
      /\ \A k \in 1..Len(Tail(s)) : (a \o Tail(s))[Len(a) + k] = Tail(s)[k]
  BY <1>1, CatIs
<1>3. ASSUME NEW k \in 2..Len(s) PROVE (a \o Tail(s))[Len(a) + k - 1] = s[k]
  <2>1. k - 1 \in 1..(Len(s) - 1) /\ (k - 1) + 1 = k /\ Len(a) + (k - 1) = Len(a) + k - 1
    BY <1>0
  <2>2. (a \o Tail(s))[Len(a) + (k - 1)] = Tail(s)[k - 1]
    BY <1>1, <1>2, <2>1
  <2> QED BY <1>1, <2>1, <2>2
<1> QED BY <1>0, <1>1, <1>2, <1>3 DEF Pushed

LEMMA Tup0 == IsSeq(<<>>) /\ Len(<<>>) = 0
<1>1. Len(<<>>) = 0 /\ <<>> = [k \in 1..0 |-> <<>>[k]]
  OBVIOUS
<1> QED BY <1>1 DEF IsSeq
LEMMA Tup1 == ASSUME NEW x PROVE IsSeq(<<x>>) /\ Len(<<x>>) = 1 /\ <<x>>[1] = x
<1>1. <<x>> \in Seq({x})
  OBVIOUS
<1> QED BY <1>1, InIs
LEMMA Tup2 == ASSUME NEW x, NEW y PROVE IsSeq(<<x, y>>) /\ Len(<<x, y>>) = 2 /\ <<x, y>>[1] = x /\ <<x, y>>[2] = y
<1>1. <<x, y>> \in Seq({x, y})
  OBVIOUS
<1> QED BY <1>1, InIs
LEMMA Tup3 ==
  ASSUME NEW x, NEW y, NEW z
  PROVE  IsSeq(<<x, y, z>>) /\ Len(<<x, y, z>>) = 3 /\ <<x, y, z>>[1] = x /\ <<x, y, z>>[2] = y /\ <<x, y, z>>[3] = z
<1>1. <<x, y, z>> \in Seq({x, y, z})
  OBVIOUS
<1> QED BY <1>1, InIs
LEMMA Tup4 ==
  ASSUME NEW x, NEW y, NEW z, NEW u
  PROVE  /\ IsSeq(<<x, y, z, u>>) /\ Len(<<x, y, z, u>>) = 4
         /\ <<x, y, z, u>>[1] = x /\ <<x, y, z, u>>[2] = y /\ <<x, y, z, u>>[3] = z /\ <<x, y, z, u>>[4] = u
<1>1. <<x, y, z, u>> \in Seq({x, y, z, u})
  OBVIOUS
<1> QED BY <1>1, InIs
LEMMA Tup5 ==
  ASSUME NEW x, NEW y, NEW z, NEW u, NEW v
  PROVE  /\ IsSeq(<<x, y, z, u, v>>) /\ Len(<<x, y, z, u, v>>) = 5
         /\ <<x, y, z, u, v>>[1] = x /\ <<x, y, z, u, v>>[2] = y /\ <<x, y, z, u, v>>[3] = z
         /\ <<x, y, z, u, v>>[4] = u /\ <<x, y, z, u, v>>[5] = v
<1>1. <<x, y, z, u, v>> \in Seq({x, y, z, u, v})
  OBVIOUS
<1> QED BY <1>1, InIs

-----------------------------------------------------------------------------
(* What a process has still to do *)
File == Entry \ {Root}
Is(s, k, op, e) == k \in 1..Len(s) /\ s[k].op = op /\ s[k].e = e
UserStep(i) == i.op = "store" /\ i.user = TRUE
MakeStep(i) == i.op = "store" /\ i.user = FALSE
Ops == {"elock", "eunlock", "eput", "etrunc", "alloc", "link", "store", "emake", "valid", "drop",
        "opened", "remove", "setfile", "ewrite", "wrote", "eremove", "eupdate", "lookup"}
OnFile == {"eput", "etrunc", "valid", "drop", "opened", "remove", "setfile", "ewrite", "wrote",
           "eremove", "eupdate"}
LastOps == {"lookup", "eput", "drop", "opened", "remove", "ewrite"}
MakeOps == {"emake", "store", "alloc", "link"}
Whole(s, k) ==
  /\ s[k].op \in Ops
  /\ s[k].op # "lookup" => s[k].e \in Entry
  /\ s[k].op \in OnFile => s[k].e # Root
  /\ s[k].op = "store" => (UserStep(s[k]) \/ MakeStep(s[k])) /\ s[k].off \in Nat
  /\ UserStep(s[k]) => s[k].e # Root
  /\ s[k].op = "wrote" => s[k].off \in Nat
Writes(s, k, e) == Is(s, k, "wrote", e) \/ (Is(s, k, "store", e) /\ UserStep(s[k]))
\* what comes after step k
Goes1(s, k) ==
  /\ s[k].op \in LastOps => k = Len(s)
  /\ s[k].op = "elock" /\ s[k].e = Root =>
       \/ k + 1 = Len(s) /\ s[k+1].op = "lookup"
       \/ \E e \in File : Is(s, k+1, "eremove", e) \/ Is(s, k+1, "eupdate", e)
  /\ s[k].op = "elock" /\ s[k].e # Root =>
       \E o \in {"opened", "eunlock", "remove", "ewrite"} : Is(s, k+1, o, s[k].e)
  /\ s[k].op = "eunlock" /\ s[k].e = Root =>
       k = Len(s) \/ \E e \in File, o \in {"eput", "elock", "eunlock", "drop"} : Is(s, k+1, o, e)
  /\ s[k].op = "eunlock" /\ s[k].e # Root => k = Len(s) \/ Is(s, k+1, "eput", s[k].e)
  /\ s[k].op = "eremove" => Is(s, k+1, "eunlock", Root) /\ Is(s, k+2, "eunlock", s[k].e)
  /\ s[k].op = "eupdate" => Is(s, k+1, "eunlock", Root) /\ Is(s, k+2, "drop", s[k].e)
  /\ s[k].op = "etrunc" => Is(s, k+1, "setfile", s[k].e) \/ Is(s, k+1, "drop", s[k].e)
  /\ s[k].op = "setfile" => Is(s, k+1, "eunlock", s[k].e) /\ k + 1 = Len(s)
  /\ s[k].op = "wrote" => Is(s, k+1, "eunlock", s[k].e)
Goes2(s, k) ==
  /\ s[k].op = "valid" => Is(s, k+1, "eunlock", Root) /\ \E d : Is(s, k+2, "eput", d) \/ Is(s, k+2, "elock", d)
  /\ s[k].op = "emake" \/ MakeStep(s[k]) => \E v \in (k+1)..Len(s) : s[v].op = "valid"
  /\ s[k].op = "emake" => s[k+1].op = IF s[k].e = Root THEN "valid" ELSE "emake"
  /\ MakeStep(s[k]) => IF s[k].e = Root THEN s[k+1].op = "valid" \/ (MakeStep(s[k+1]) /\ s[k+1].e = Root)
                       ELSE s[k+1].op = "emake"
  /\ UserStep(s[k]) => Writes(s, k+1, s[k].e)
Begins(s, k) ==
  /\ s[k].op \in {"alloc", "link"} =>
       /\ k = 1
       /\ s[k].how \in {"more", "dir", "write"}
       /\ s[k].how = "more" => Is(s, k+1, "store", s[k].e)
       /\ s[k].how = "dir" => s[k].e # Root /\ Is(s, k+1, "emake", s[k].e)
       /\ s[k].how = "write" => s[k].e # Root /\ Writes(s, k+1, s[k].e)
  /\ s[k].op = "alloc" => s[k].sec \in 0..(FATSZ-1)
  /\ s[k].op = "link" => s[k].sec \in 2..LAST
  /\ s[k].op = "valid" => \A j \in 1..(k-1) : s[j].op \in MakeOps
SeqOK(s) == IsSeq(s) /\ \A k \in 1..Len(s) : Whole(s, k) /\ Goes1(s, k) /\ Goes2(s, k) /\ Begins(s, k)

Has(s, S, e) == \E k \in 1..Len(s) : s[k].op \in S /\ s[k].e = e
HasRest(s, S, e) == \E k \in 2..Len(s) : s[k].op \in S /\ s[k].e = e
RefOps == {"eput", "drop", "opened", "remove", "setfile"}
Gives(s, e) == Has(s, RefOps, e)
Creating(s, e) == Has(s, {"valid"}, e)
FileIs(f, e) == f # None /\ f.e = e
SameOpen(f, f2) == \A e : FileIs(f, e) <=> FileIs(f2, e)
UsesOK(s, f) == \A k \in 1..Len(s) :
  /\ s[k].op # "lookup" /\ s[k].e # Root => Gives(s, s[k].e) \/ FileIs(f, s[k].e)
  /\ s[k].op \in {"ewrite", "wrote"} \/ UserStep(s[k]) => FileIs(f, s[k].e)
\* step k, taken before step v makes the entry x of number e valid
Makes(s, k, v, e, x) ==
  \/ /\ MakeStep(s[k]) /\ s[k].e = Root /\ s[k].off = x.off + Len(x.name) - (v - 1 - k)
     /\ s[k].off >= x.off /\ s[k].cells = <<Make(x.name, Short(<<>>, x), x.off, s[k].off)>>
  \/ s[k].op \in {"alloc", "link"} /\ s[k].how = "more" /\ s[k].e \in {e, Root} /\ k + 1 < v
  \/ s[k].op = "emake" /\ s[k].e = Root /\ s[k].x = e /\ s[k].off = x.off /\ k = v - 1
  \/ s[k].op = "emake" /\ s[k].e = e /\ s[k].off = 0 /\ k = v - 3
  \/ s[k].op = "emake" /\ s[k].e = e /\ s[k].off = 1 /\ k = v - 2
  \/ MakeStep(s[k]) /\ s[k].e = e /\ k < v - 1
  \/ s[k].op \in {"alloc", "link"} /\ s[k].e = e /\ s[k].how = "dir" /\ k = v - 4
CreateOK(s, e, x) == \A v \in 1..Len(s) : s[v].op = "valid" /\ s[v].e = e =>
  \A k \in 1..(v-1) : Makes(s, k, v, e, x)
OnEntry(s, S, e) == s # <<>> /\ s[1].op \in S /\ s[1].e = e
HoldsRoot(s) ==
  \/ \E e \in File : Creating(s, e)
  \/ s # <<>> /\ s[1].op \in {"lookup", "eremove", "eupdate"}
  \/ OnEntry(s, {"eunlock"}, Root)
LockedOps == {"opened", "remove", "setfile", "ewrite", "wrote", "etrunc", "drop", "eremove",
              "eupdate", "eunlock", "store", "alloc", "link"}
HoldsEntry(s, e) ==
  \/ Creating(s, e)
  \/ OnEntry(s, LockedOps, e)
  \/ /\ OnEntry(s, {"elock", "eunlock"}, Root)
     /\ \E o \in {"eremove", "eupdate", "drop", "eunlock"} : Is(s, 2, o, e)
Holds(s, e) == IF e = Root THEN HoldsRoot(s) ELSE HoldsEntry(s, e)

-----------------------------------------------------------------------------
(* The entries, the locks and the references *)
IsEnt(x) == x = [name |-> x.name, dir |-> x.dir, first |-> x.first, size |-> x.size, cur |-> x.cur,
                 cnt |-> x.cnt, dirty |-> x.dirty, valid |-> x.valid, ref |-> x.ref, off |-> x.off,
                 lock |-> x.lock]
EntDom(E) == E = [e \in Entry |-> E[e]] /\ \A e \in Entry : IsEnt(E[e]) /\ E[e].dir \in BOOLEAN
                /\ E[e].dirty \in BOOLEAN /\ E[e].valid \in {-1, 0, 1} /\ E[e].ref \in Nat
                /\ E[e].lock \in Procs \cup {NoProc}
Locks(E, T) == \A e \in Entry, p \in Procs : E[e].lock = p <=> Holds(T[p], e)
Openers(F, e) == {p \in Procs : FileIs(F[p], e)}
Givers(T, e) == {p \in Procs : Gives(T[p], e)}
Refs(E, T, F) == \A e \in File : E[e].ref >= Cardinality(Openers(F, e)) + Cardinality(Givers(T, e))
IsFile(f) == f = None \/ (f # None /\ f = [e |-> f.e, off |-> f.off] /\ f.e \in File /\ f.off \in Nat)
Files1(F) == F = [p \in Procs |-> F[p]] /\ \A p \in Procs : IsFile(F[p])
Clean(x) == x.dirty = FALSE
States(E, T) == \A e \in File :
  /\ \A p \in Procs : Creating(T[p], e) => E[e].valid = 0 /\ E[e].ref = 1 /\ Clean(E[e])
                      /\ E[e].name \in Names
  /\ E[e].valid = 0 /\ E[e].ref > 0 => \E p \in Procs : Creating(T[p], e)
AreCalls(l, p, s) == IsSeq(s) /\ \A k \in 1..Len(s) : s[k] \in CallsOf(l, p)
Calls1(l, K) == K = [p \in Procs |-> K[p]] /\ \A p \in Procs : AreCalls(l, p, K[p])
Asked(l, p, s, E) == \A k \in 1..Len(s) :
  /\ s[k].op \in {"remove", "eremove"} => E[s[k].e].name \in Removed(l)
  /\ s[k].op = "lookup" => s[k].c \in CallsOf(l, p) /\ s[k].c.k \in {"open", "mkdir", "remove"}
  /\ s[k].op = "ewrite" => IsSeq(s[k].bytes)
CtlOK(l, K, E, T, F) ==
  /\ EntDom(E) /\ T = [p \in Procs |-> T[p]]
  /\ \A p \in Procs : SeqOK(T[p]) /\ UsesOK(T[p], F[p]) /\ Asked(l, p, T[p], E)
  /\ \A p \in Procs : \A e \in File : CreateOK(T[p], e, E[e])
  /\ Locks(E, T) /\ Refs(E, T, F) /\ Files1(F) /\ States(E, T) /\ Calls1(l, K)

\* r is s with its first step replaced by those of a
Puts(r, a, s) ==
  /\ IsSeq(r) /\ Len(r) = Len(a) + Len(s) - 1
  /\ \A k \in 1..Len(a) : r[k] = a[k]
  /\ \A k \in 2..Len(s) : r[Len(a) + k - 1] = s[k]
LEMMA PutsIs ==
  ASSUME NEW s, NEW a, IsSeq(s), IsSeq(a), s # <<>>
  PROVE  Puts(a \o Tail(s), a, s)
BY PushIs, SeqEmpty DEF Puts, Pushed

LEMMA PutsHas ==
  ASSUME NEW r, NEW a, NEW s, IsSeq(a), IsSeq(s), s # <<>>, Puts(r, a, s), NEW S, NEW e
  PROVE  /\ Has(r, S, e) <=> Has(a, S, e) \/ HasRest(s, S, e)
         /\ Has(s, S, e) <=> (s[1].op \in S /\ s[1].e = e) \/ HasRest(s, S, e)
<1>0. Len(a) \in Nat /\ Len(s) \in Nat /\ Len(s) >= 1 /\ Len(r) = Len(a) + Len(s) - 1
  BY SeqEmpty DEF IsSeq, Puts
<1>1. ASSUME Has(r, S, e) PROVE Has(a, S, e) \/ HasRest(s, S, e)
  <2>1. PICK k \in 1..Len(r) : r[k].op \in S /\ r[k].e = e
    BY <1>1 DEF Has
  <2>2. CASE k <= Len(a)
    <3>1. k \in 1..Len(a) /\ r[k] = a[k]
      BY <2>2, <1>0 DEF Puts
    <3> QED BY <3>1, <2>1 DEF Has
  <2>3. CASE k > Len(a)
    <3> DEFINE m == k - Len(a) + 1
    <3>1. m \in 2..Len(s) /\ Len(a) + m - 1 = k
      BY <2>3, <1>0
    <3>2. r[k] = s[m]
      BY <3>1 DEF Puts
    <3> QED BY <3>1, <3>2, <2>1 DEF HasRest
  <2> QED BY <2>2, <2>3, <1>0
<1>2. ASSUME Has(a, S, e) PROVE Has(r, S, e)
  <2>1. PICK k \in 1..Len(a) : a[k].op \in S /\ a[k].e = e
    BY <1>2 DEF Has
  <2>2. k \in 1..Len(r) /\ r[k] = a[k]
    BY <1>0 DEF Puts
  <2> QED BY <2>1, <2>2 DEF Has
<1>3. ASSUME HasRest(s, S, e) PROVE Has(r, S, e)
  <2>1. PICK k \in 2..Len(s) : s[k].op \in S /\ s[k].e = e
    BY <1>3 DEF HasRest
  <2>2. Len(a) + k - 1 \in 1..Len(r) /\ r[Len(a) + k - 1] = s[k]
    BY <1>0 DEF Puts
  <2> QED BY <2>1, <2>2 DEF Has
<1>4. Has(s, S, e) => (s[1].op \in S /\ s[1].e = e) \/ HasRest(s, S, e)
  BY <1>0 DEF Has, HasRest
<1>5. HasRest(s, S, e) \/ (s[1].op \in S /\ s[1].e = e) => Has(s, S, e)
  BY <1>0 DEF Has, HasRest
<1> QED BY <1>1, <1>2, <1>3, <1>4, <1>5

IsOK(s, k) == Whole(s, k) /\ Goes1(s, k) /\ Goes2(s, k) /\ Begins(s, k)
LEMMA SeqParts == ASSUME NEW s, SeqOK(s) PROVE IsSeq(s) /\ \A k \in 1..Len(s) : IsOK(s, k)
BY DEF SeqOK, IsOK
LEMMA PartsSeq == ASSUME NEW s, IsSeq(s), \A k \in 1..Len(s) : IsOK(s, k) PROVE SeqOK(s)
BY DEF SeqOK, IsOK

LEMMA PutsOK ==
  ASSUME NEW r, NEW a, NEW s, IsSeq(a), SeqOK(s), s # <<>>, Puts(r, a, s),
         \A k \in 1..Len(a) : IsOK(r, k),
         \/ \A k \in 1..Len(a) : a[k].op \in MakeOps
         \/ \A k \in 2..Len(s) : s[k].op # "valid"
  PROVE  SeqOK(r)
<1>0. Len(a) \in Nat /\ Len(s) \in Nat /\ Len(s) >= 1 /\ Len(r) = Len(a) + Len(s) - 1 /\ IsSeq(s) /\ IsSeq(r)
  BY SeqEmpty DEF IsSeq, Puts, SeqOK
<1>1. ASSUME NEW k \in 1..Len(r), k > Len(a) PROVE IsOK(r, k)
  <2> DEFINE m == k - Len(a) + 1
  <2>1. m \in 2..Len(s) /\ Len(a) + m - 1 = k
    BY <1>1, <1>0
  <2>2. r[k] = s[m]
    BY <2>1 DEF Puts
  <2>3. /\ k = Len(r) <=> m = Len(s)
        /\ k + 1 = Len(r) <=> m + 1 = Len(s)
        /\ m + 1 <= Len(s) => r[k + 1] = s[m + 1]
        /\ k + 1 \in 1..Len(r) <=> m + 1 \in 1..Len(s)
    <3>1. m + 1 <= Len(s) => m + 1 \in 2..Len(s) /\ Len(a) + (m + 1) - 1 = k + 1
      BY <2>1, <1>0
    <3>2. m + 1 <= Len(s) => r[k + 1] = s[m + 1]
      BY <3>1 DEF Puts
    <3> QED BY <3>2, <1>0, <2>1
  <2>4. \A o, e : Is(s, m + 1, o, e) => Is(r, k + 1, o, e)
    <3>1. m + 1 \in 1..Len(s) => m + 1 <= Len(s)
      BY <1>0
    <3> HIDE DEF m
    <3> QED BY ONLY <2>3, <3>1 DEF Is
  <2>5. \A o, e : Is(s, m + 2, o, e) => Is(r, k + 2, o, e)
    <3>1. m + 2 <= Len(s) => m + 2 \in 2..Len(s) /\ Len(a) + (m + 2) - 1 = k + 2
      BY <2>1, <1>0
    <3>2. m + 2 <= Len(s) => r[k + 2] = s[m + 2] /\ k + 2 \in 1..Len(r)
      BY <3>1, <1>0, <2>1 DEF Puts
    <3> QED BY <3>2, <2>1, <1>0 DEF Is
  <2>6. Whole(s, m) /\ Goes1(s, m) /\ Goes2(s, m) /\ Begins(s, m)
    BY <2>1 DEF SeqOK
  <2> HIDE DEF m
  <2>7. Whole(r, k)
    BY <2>2, <2>6 DEF Whole
  <2>8. Goes1(r, k)
    <3>1. \A o, e, x : x = s[m].e => x = r[k].e
      BY <2>2
    <3>2. s[m].op = "elock" /\ s[m].e = Root /\ m + 1 = Len(s) /\ s[m+1].op = "lookup" => k + 1 = Len(r) /\ r[k+1].op = "lookup"
      BY <2>3, <1>0, <2>1
    <3> QED BY <2>2, <2>3, <2>4, <2>5, <2>6, <3>2 DEF Goes1
  <2>9. Goes2(r, k)
    <3>1. ASSUME s[m].op = "emake" \/ MakeStep(s[m]) PROVE \E v \in (k+1)..Len(r) : r[v].op = "valid"
      <4>1. PICK v \in (m+1)..Len(s) : s[v].op = "valid"
        BY <2>6, <3>1 DEF Goes2
      <4>2. Len(a) + v - 1 \in (k+1)..Len(r) /\ v \in 2..Len(s)
        BY <2>1, <1>0
      <4>3. r[Len(a) + v - 1] = s[v]
        BY <4>2 DEF Puts
      <4> QED BY <4>1, <4>2, <4>3
    <3>2. s[m].op = "emake" \/ MakeStep(s[m]) => m + 1 <= Len(s)
      <4>1. s[m].op = "emake" \/ MakeStep(s[m]) => \E v \in (m+1)..Len(s) : s[v].op = "valid"
        BY <2>6 DEF Goes2
      <4> QED BY <4>1, <2>1, <1>0
    <3>3. ASSUME UserStep(s[m]) PROVE Writes(r, k + 1, s[m].e)
      <4>1. Writes(s, m + 1, s[m].e)
        BY <2>6, <3>3 DEF Goes2
      <4>2. m + 1 \in 1..Len(s)
        BY <4>1 DEF Writes, Is
      <4> QED BY <4>1, <4>2, <2>3, <2>4, <1>0 DEF Writes
    <3>4. s[m].op = "valid" => Is(r, k + 1, "eunlock", Root) /\ \E d : Is(r, k + 2, "eput", d) \/ Is(r, k + 2, "elock", d)
      BY <2>6, <2>4, <2>5 DEF Goes2
    <3>5. s[m].op = "emake" => r[k+1].op = IF s[m].e = Root THEN "valid" ELSE "emake"
      BY <2>6, <3>2, <2>3 DEF Goes2
    <3>6. MakeStep(s[m]) => IF s[m].e = Root THEN r[k+1].op = "valid" \/ (MakeStep(r[k+1]) /\ r[k+1].e = Root)
                       ELSE r[k+1].op = "emake"
      BY <2>6, <3>2, <2>3 DEF Goes2
    <3> QED BY <2>2, <3>1, <3>3, <3>4, <3>5, <3>6 DEF Goes2
  <2>10. Begins(r, k)
    <3>1. s[m].op \notin {"alloc", "link"}
      BY <2>6, <2>1 DEF Begins
    <3>2. ASSUME s[m].op = "valid" PROVE \A j \in 1..(k-1) : r[j].op \in MakeOps
      <4>1. \A j \in 1..Len(a) : a[j].op \in MakeOps
        BY <3>2, <2>1
      <4>2. \A j \in 1..(m-1) : s[j].op \in MakeOps
        BY <3>2, <2>6 DEF Begins
      <4> SUFFICES ASSUME NEW j \in 1..(k-1) PROVE r[j].op \in MakeOps
        OBVIOUS
      <4>3. CASE j <= Len(a)
        <5>1. j \in 1..Len(a)
          BY <4>3, <1>0
        <5> QED BY <4>1, <5>1 DEF Puts
      <4>4. CASE j > Len(a)
        <5>1. j - Len(a) + 1 \in 2..Len(s) /\ j - Len(a) + 1 \in 1..(m-1) /\ Len(a) + (j - Len(a) + 1) - 1 = j
          BY <4>4, <2>1, <1>0
        <5>2. r[Len(a) + (j - Len(a) + 1) - 1] = s[j - Len(a) + 1]
          BY <5>1 DEF Puts
        <5> QED BY <4>2, <5>1, <5>2
      <4> QED BY <4>3, <4>4, <1>0
    <3> QED BY <2>2, <3>1, <3>2 DEF Begins
  <2> QED BY <2>7, <2>8, <2>9, <2>10 DEF IsOK
<1>2. \A k \in 1..Len(r) : IsOK(r, k)
  <2> SUFFICES ASSUME NEW k \in 1..Len(r) PROVE IsOK(r, k)
    OBVIOUS
  <2>1. k \in 1..Len(a) \/ k > Len(a)
    BY <1>0
  <2> QED BY <2>1, <1>1
<1> QED BY <1>0, <1>2, PartsSeq

\* the function F has the value v for p afterwards, and what it had for the others
Becomes(F, F2, p, v) ==
  F2 = [q \in Procs |-> F2[q]] /\ F2[p] = v /\ \A q \in Procs : q # p => F2[q] = F[q]
LEMMA BecomesIs ==
  ASSUME NEW F, F = [q \in Procs |-> F[q]], NEW p \in Procs
  PROVE  Becomes(F, F, p, F[p]) /\ \A v : Becomes(F, [F EXCEPT ![p] = v], p, v)
<1>1. Becomes(F, F, p, F[p])
  BY DEF Becomes
<1>2. ASSUME NEW v PROVE Becomes(F, [F EXCEPT ![p] = v], p, v)
  BY DEF Becomes
<1> QED BY <1>1, <1>2

One(b) == IF b THEN 1 ELSE 0
\* S2 is S but for p
Differ(S, S2, p) == \A q \in Procs : q # p => (q \in S <=> q \in S2)
LEMMA CardStep ==
  ASSUME NEW S \in SUBSET Procs, NEW S2 \in SUBSET Procs, NEW p \in Procs, Differ(S, S2, p)
  PROVE  Cardinality(S) \in Nat /\ Cardinality(S2) - One(p \in S2) = Cardinality(S) - One(p \in S)
<1>1. IsFiniteSet(S) /\ IsFiniteSet(S2)
  BY ProcsAssumption, FS_Subset
<1>2. S \ {p} = S2 \ {p}
  BY DEF Differ
<1>3. ASSUME NEW R \in SUBSET Procs, IsFiniteSet(R)
      PROVE  Cardinality(R) \in Nat /\ Cardinality(R \ {p}) = Cardinality(R) - One(p \in R)
  <2>1. Cardinality(R) \in Nat
    BY <1>3, FS_CardinalityType
  <2>2. Cardinality(R \ {p}) = IF p \in R THEN Cardinality(R) - 1 ELSE Cardinality(R)
    BY <1>3, FS_RemoveElement
  <2> QED BY <2>1, <2>2 DEF One
<1>4. Cardinality(S) \in Nat /\ Cardinality(S \ {p}) = Cardinality(S) - One(p \in S)
  BY <1>1, <1>3
<1>5. Cardinality(S2) \in Nat /\ Cardinality(S2 \ {p}) = Cardinality(S2) - One(p \in S2)
  BY <1>1, <1>3
<1> QED BY <1>2, <1>4, <1>5

Cnt(s, f, e) == One(FileIs(f, e)) + One(Gives(s, e))
\* the entries that processes other than p make, and those whose names count, stay
KeptBut(E, E2, p) == \A e \in File :
  /\ \/ E[e].valid # 0 \/ E[e].ref = 0 \/ E[e].lock = p
     \/ /\ E2[e].valid = E[e].valid /\ E2[e].ref = E[e].ref /\ E2[e].dirty = E[e].dirty
        /\ E2[e].name = E[e].name /\ E2[e].off = E[e].off /\ E2[e].first = E[e].first
        /\ E2[e].size = E[e].size /\ E2[e].dir = E[e].dir
  /\ E[e].ref = 0 \/ E2[e].name = E[e].name
LockStep(E, E2, r, p) == \A e \in Entry :
  /\ E2[e].lock = p <=> Holds(r, e)
  /\ \A q \in Procs : q # p => (E2[e].lock = q <=> E[e].lock = q)
RefStep(E, E2, s, f, r, f2) == \A e \in File : E2[e].ref - Cnt(r, f2, e) >= E[e].ref - Cnt(s, f, e)
Fresh(x) == x.valid = 0 /\ x.ref = 1 /\ Clean(x) /\ x.name \in Names
CreateStep(E, E2, s, r) == \A e \in File :
  /\ CreateOK(r, e, E2[e])
  /\ Creating(r, e) => Fresh(E2[e])
  /\ E2[e].valid = 0 /\ E2[e].ref > 0 => Creating(r, e) \/ (E[e].valid = 0 /\ E[e].ref > 0 /\ ~Creating(s, e))
OneStep(l, E2, p, r, f2) == SeqOK(r) /\ UsesOK(r, f2) /\ Asked(l, p, r, E2) /\ IsFile(f2)

LEMMA FileEntry == File \subseteq Entry /\ (\A e \in Entry : e \in File \/ e = Root) /\ Root \notin File /\ Root \in Entry
BY SizesAssumption DEF File, Entry, Root

\* one that something will be done with has a reference
LEMMA InUse ==
  ASSUME NEW l, NEW K, NEW E, NEW T, NEW F, CtlOK(l, K, E, T, F), NEW e \in File, NEW p \in Procs,
         Gives(T[p], e) \/ FileIs(F[p], e)
  PROVE  E[e].ref > 0
<1>1. E[e].ref >= Cardinality(Openers(F, e)) + Cardinality(Givers(T, e))
  BY DEF CtlOK, Refs
<1>2. E[e].ref \in Nat
  BY FileEntry DEF CtlOK, EntDom
<1>3. IsFiniteSet(Openers(F, e)) /\ IsFiniteSet(Givers(T, e))
  BY ProcsAssumption, FS_Subset DEF Openers, Givers
<1>4. Cardinality(Openers(F, e)) \in Nat /\ Cardinality(Givers(T, e)) \in Nat
  BY <1>3, FS_CardinalityType
<1>5. Openers(F, e) # {} \/ Givers(T, e) # {}
  BY DEF Openers, Givers
<1>6. Cardinality(Openers(F, e)) # 0 \/ Cardinality(Givers(T, e)) # 0
  BY <1>3, <1>5, FS_EmptySet
<1> QED BY <1>1, <1>2, <1>4, <1>6

LEMMA CtlStep ==
  ASSUME NEW l, NEW K, NEW E, NEW T, NEW F, CtlOK(l, K, E, T, F), NEW p \in Procs,
         NEW K2, NEW E2, NEW T2, NEW F2, NEW r, NEW f2,
         Becomes(T, T2, p, r), Becomes(F, F2, p, f2), EntDom(E2), Calls1(l, K2),
         OneStep(l, E2, p, r, f2), KeptBut(E, E2, p), LockStep(E, E2, r, p),
         RefStep(E, E2, T[p], F[p], r, f2), CreateStep(E, E2, T[p], r)
  PROVE  CtlOK(l, K2, E2, T2, F2)
<1>1. ASSUME NEW q \in Procs
      PROVE  SeqOK(T2[q]) /\ UsesOK(T2[q], F2[q]) /\ Asked(l, q, T2[q], E2)
  <2>1. CASE q = p
    BY <2>1 DEF Becomes, OneStep
  <2>2. CASE q # p
    <3>1. T2[q] = T[q] /\ F2[q] = F[q]
      BY <2>2 DEF Becomes
    <3>2. SeqOK(T[q]) /\ UsesOK(T[q], F[q]) /\ Asked(l, q, T[q], E)
      BY DEF CtlOK
    <3>3. ASSUME NEW k \in 1..Len(T[q]), T[q][k].op \in {"remove", "eremove"}
          PROVE  E2[T[q][k].e].name = E[T[q][k].e].name
      <4>0. Whole(T[q], k)
        BY <3>2 DEF SeqOK
      <4>1. T[q][k].op # "lookup" /\ T[q][k].op \in OnFile
        BY <3>3 DEF OnFile
      <4>2. T[q][k].e \in File /\ T[q][k].e # Root
        BY <4>0, <4>1 DEF Whole, File
      <4>3. Gives(T[q], T[q][k].e) \/ FileIs(F[q], T[q][k].e)
        BY <3>2, <4>1, <4>2 DEF UsesOK
      <4>4. E[T[q][k].e].ref > 0
        BY <4>2, <4>3, InUse
      <4> QED BY <4>2, <4>4 DEF KeptBut
    <3>4. Asked(l, q, T[q], E2)
      BY <3>2, <3>3 DEF Asked
    <3> QED BY <3>1, <3>2, <3>4
  <2> QED BY <2>1, <2>2
<1>2. ASSUME NEW q \in Procs, q # p, NEW e \in File, Creating(T[q], e)
      PROVE  /\ E2[e].valid = E[e].valid /\ E2[e].ref = E[e].ref /\ E2[e].dirty = E[e].dirty
             /\ E2[e].name = E[e].name /\ E2[e].off = E[e].off /\ E2[e].first = E[e].first
             /\ E2[e].size = E[e].size /\ E2[e].dir = E[e].dir
             /\ Fresh(E[e])
  <2>1. Fresh(E[e])
    BY <1>2 DEF CtlOK, States, Fresh
  <2>2. Holds(T[q], e)
    BY <1>2, FileEntry DEF Holds, HoldsEntry
  <2>3. E[e].lock = q
    BY <2>2, FileEntry DEF CtlOK, Locks
  <2> QED BY <2>1, <2>3, <1>2 DEF KeptBut, Fresh
<1>3. ASSUME NEW q \in Procs, NEW e \in File PROVE CreateOK(T2[q], e, E2[e])
  <2>1. CASE q = p
    BY <2>1 DEF Becomes, CreateStep
  <2>2. CASE q # p
    <3>1. T2[q] = T[q]
      BY <2>2 DEF Becomes
    <3>2. CASE ~Creating(T[q], e)
      BY <3>1, <3>2 DEF Creating, Has, CreateOK
    <3>3. CASE Creating(T[q], e)
      <4>1. CreateOK(T[q], e, E[e])
        BY DEF CtlOK
      <4>2. Short(<<>>, E2[e]) = Short(<<>>, E[e]) /\ E2[e].off = E[e].off /\ E2[e].name = E[e].name
        BY <1>2, <2>2, <3>3 DEF Short
      <4>3. ASSUME NEW k, NEW v, Makes(T[q], k, v, e, E[e]) PROVE Makes(T[q], k, v, e, E2[e])
        BY <4>2, <4>3 DEF Makes
      <4> QED BY <3>1, <4>1, <4>3 DEF CreateOK
    <3> QED BY <3>2, <3>3
  <2> QED BY <2>1, <2>2
<1>4. Locks(E2, T2)
  <2> SUFFICES ASSUME NEW e \in Entry, NEW q \in Procs PROVE E2[e].lock = q <=> Holds(T2[q], e)
    BY DEF Locks
  <2>1. CASE q = p
    BY <2>1 DEF Becomes, LockStep
  <2>2. CASE q # p
    <3>1. T2[q] = T[q]
      BY <2>2 DEF Becomes
    <3>2. E2[e].lock = q <=> E[e].lock = q
      BY <2>2 DEF LockStep
    <3>3. E[e].lock = q <=> Holds(T[q], e)
      BY DEF CtlOK, Locks
    <3> QED BY <3>1, <3>2, <3>3
  <2> QED BY <2>1, <2>2
<1>5. Refs(E2, T2, F2)
  <2> SUFFICES ASSUME NEW e \in File
               PROVE  E2[e].ref >= Cardinality(Openers(F2, e)) + Cardinality(Givers(T2, e))
    BY DEF Refs
  <2>1. Openers(F, e) \in SUBSET Procs /\ Openers(F2, e) \in SUBSET Procs
        /\ Givers(T, e) \in SUBSET Procs /\ Givers(T2, e) \in SUBSET Procs
    BY DEF Openers, Givers
  <2>2. Differ(Openers(F, e), Openers(F2, e), p) /\ Differ(Givers(T, e), Givers(T2, e), p)
    BY DEF Differ, Openers, Givers, Becomes
  <2>3. /\ Cardinality(Openers(F, e)) \in Nat
        /\ Cardinality(Openers(F2, e)) - One(p \in Openers(F2, e)) = Cardinality(Openers(F, e)) - One(p \in Openers(F, e))
    BY <2>1, <2>2, CardStep
  <2>4. /\ Cardinality(Givers(T, e)) \in Nat
        /\ Cardinality(Givers(T2, e)) - One(p \in Givers(T2, e)) = Cardinality(Givers(T, e)) - One(p \in Givers(T, e))
    BY <2>1, <2>2, CardStep
  <2>5. Differ(Openers(F2, e), Openers(F, e), p) /\ Differ(Givers(T2, e), Givers(T, e), p)
    BY <2>2 DEF Differ
  <2>6. Cardinality(Openers(F2, e)) \in Nat /\ Cardinality(Givers(T2, e)) \in Nat
    BY <2>1, <2>5, CardStep
  <2>7. One(p \in Openers(F, e)) = One(FileIs(F[p], e)) /\ One(p \in Openers(F2, e)) = One(FileIs(f2, e))
        /\ One(p \in Givers(T, e)) = One(Gives(T[p], e)) /\ One(p \in Givers(T2, e)) = One(Gives(r, e))
    BY DEF Openers, Givers, Becomes, One
  <2>8. E2[e].ref - Cnt(r, f2, e) >= E[e].ref - Cnt(T[p], F[p], e)
    BY DEF RefStep
  <2>9. E[e].ref >= Cardinality(Openers(F, e)) + Cardinality(Givers(T, e))
    BY DEF CtlOK, Refs
  <2>10. E[e].ref \in Nat /\ E2[e].ref \in Nat
    BY FileEntry DEF CtlOK, EntDom
  <2>11. One(FileIs(F[p], e)) \in Nat /\ One(FileIs(f2, e)) \in Nat /\ One(Gives(T[p], e)) \in Nat /\ One(Gives(r, e)) \in Nat
    BY DEF One
  <2> HIDE DEF One
  <2> QED BY <2>3, <2>4, <2>6, <2>7, <2>8, <2>9, <2>10, <2>11 DEF Cnt
<1>6. Files1(F2)
  <2>1. \A q \in Procs : IsFile(F[q])
    BY DEF CtlOK, Files1
  <2> QED BY <2>1 DEF Becomes, OneStep, Files1
<1>7. States(E2, T2)
  <2> SUFFICES ASSUME NEW e \in File
               PROVE  /\ \A q \in Procs : Creating(T2[q], e) => Fresh(E2[e])
                      /\ E2[e].valid = 0 /\ E2[e].ref > 0 => \E q \in Procs : Creating(T2[q], e)
    BY DEF States, Fresh
  <2>1. ASSUME NEW q \in Procs, Creating(T2[q], e) PROVE Fresh(E2[e])
    <3>1. CASE q = p
      BY <2>1, <3>1 DEF Becomes, CreateStep
    <3>2. CASE q # p
      <4>1. Creating(T[q], e)
        BY <2>1, <3>2 DEF Becomes
      <4> QED BY <4>1, <3>2, <1>2 DEF Fresh, Clean
    <3> QED BY <3>1, <3>2
  <2>2. ASSUME E2[e].valid = 0, E2[e].ref > 0 PROVE \E q \in Procs : Creating(T2[q], e)
    <3>1. CASE Creating(r, e)
      BY <3>1 DEF Becomes
    <3>2. CASE E[e].valid = 0 /\ E[e].ref > 0 /\ ~Creating(T[p], e)
      <4>1. PICK q \in Procs : Creating(T[q], e)
        BY <3>2 DEF CtlOK, States
      <4> QED BY <3>2, <4>1 DEF Becomes
    <3> QED BY <2>2, <3>1, <3>2 DEF CreateStep
  <2> QED BY <2>1, <2>2
<1>8. T2 = [q \in Procs |-> T2[q]]
  BY DEF Becomes
<1> QED BY <1>1, <1>3, <1>4, <1>5, <1>6, <1>7, <1>8 DEF CtlOK

\* what the lock of an entry and the place in its chain do not belong to
Alike(x, y) == /\ y.valid = x.valid /\ y.ref = x.ref /\ y.dirty = x.dirty /\ y.name = x.name
               /\ y.off = x.off /\ y.first = x.first /\ y.size = x.size /\ y.dir = x.dir
AllAlike(E, E2) == \A e \in Entry : Alike(E[e], E2[e])
\* no file gets or loses references or its name, and one that is being made does not change
AllKeep(E, E2) == \A e \in File :
  /\ E2[e].ref = E[e].ref /\ E2[e].name = E[e].name
  /\ E[e].valid = 0 => Alike(E[e], E2[e])
  /\ E2[e].valid = 0 => E[e].valid = 0
LEMMA AlikeKeep == ASSUME NEW E, NEW E2, AllAlike(E, E2) PROVE AllKeep(E, E2)
BY FileEntry DEF AllAlike, AllKeep, Alike
IsEntry(x) == /\ IsEnt(x) /\ x.dir \in BOOLEAN /\ x.dirty \in BOOLEAN /\ x.valid \in {-1, 0, 1}
              /\ x.ref \in Nat /\ x.lock \in Procs \cup {NoProc}
LEMMA EntSet ==
  ASSUME NEW E, EntDom(E), NEW e \in Entry, NEW y, IsEntry(y), NEW E2, Puts1(E, e, y, E2)
  PROVE  EntDom(E2) /\ E2[e] = y /\ \A d \in Entry : d # e => E2[d] = E[d]
BY DEF EntDom, IsEntry, Puts1
LEMMA EntIs == ASSUME NEW E, EntDom(E), NEW e \in Entry PROVE IsEntry(E[e])
BY DEF EntDom, IsEntry
\* e has the lock v afterwards, and everything else is as it was
LockedBy(E, E2, e, v) ==
  EntDom(E2) /\ AllAlike(E, E2) /\ E2[e].lock = v /\ \A d \in Entry : d # e => E2[d] = E[d]
LEMMA LockSet ==
  ASSUME NEW E, EntDom(E), NEW e \in Entry, NEW v \in Procs \cup {NoProc}, NEW E2, E2 = [E EXCEPT ![e].lock = v]
  PROVE  LockedBy(E, E2, e, v)
<1> DEFINE y == [E[e] EXCEPT !.lock = v]
<1>1. IsEntry(y) /\ y.lock = v /\ Alike(E[e], y)
  <2>1. IsEntry(E[e])
    BY EntIs
  <2> DEFINE x == E[e]
  <2>2. IsEntry(x)
    BY <2>1
  <2> HIDE DEF x
  <2>3. [x EXCEPT !.lock = v] = [name |-> x.name, dir |-> x.dir, first |-> x.first, size |-> x.size,
          cur |-> x.cur, cnt |-> x.cnt, dirty |-> x.dirty, valid |-> x.valid, ref |-> x.ref,
          off |-> x.off, lock |-> v]
    BY <2>2 DEF IsEntry, IsEnt
  <2>4. IsEntry([x EXCEPT !.lock = v]) /\ [x EXCEPT !.lock = v].lock = v /\ Alike(x, [x EXCEPT !.lock = v])
    BY <2>2, <2>3 DEF IsEntry, IsEnt, Alike
  <2> QED BY <2>4 DEF x
<1>2. E2 = [E EXCEPT ![e] = y]
  BY DEF EntDom
<1> HIDE DEF y
<1>3. EntDom(E2) /\ E2[e] = y /\ \A d \in Entry : d # e => E2[d] = E[d]
  <2>1. Puts1(E, e, y, E2)
    BY <1>2 DEF Puts1
  <2>2. EntDom(E) /\ e \in Entry
    OBVIOUS
  <2> QED BY ONLY <1>1, <2>1, <2>2, EntSet
<1>4. AllAlike(E, E2)
  BY <1>1, <1>3 DEF AllAlike, Alike
<1> QED BY <1>1, <1>3, <1>4 DEF LockedBy

LEMMA NoValid ==
  ASSUME NEW s, SeqOK(s), s # <<>>, s[1].op \notin MakeOps \cup {"valid"}
  PROVE  (\A k \in 1..Len(s) : s[k].op # "valid") /\ \A e : ~Creating(s, e)
<1>1. \A k \in 1..Len(s) : s[k].op # "valid"
  <2> SUFFICES ASSUME NEW k \in 1..Len(s), s[k].op = "valid" PROVE FALSE
    OBVIOUS
  <2>1. \A j \in 1..(k-1) : s[j].op \in MakeOps
    BY DEF SeqOK, Begins
  <2>2. k = 1 \/ 1 \in 1..(k-1)
    OBVIOUS
  <2> QED BY <2>1, <2>2
<1>2. \A e : ~Creating(s, e)
  BY <1>1 DEF Creating, Has
<1> QED BY <1>1, <1>2
LEMMA FirstIs ==
  ASSUME NEW s, SeqOK(s), s # <<>>
  PROVE  /\ IsSeq(s) /\ Len(s) \in Nat /\ Len(s) >= 1 /\ 1 \in 1..Len(s) /\ Head(s) = s[1]
         /\ Whole(s, 1) /\ Goes1(s, 1) /\ Goes2(s, 1) /\ Begins(s, 1)
<1>1. IsSeq(s) /\ Len(s) \in Nat /\ Len(s) >= 1
  BY SeqEmpty DEF SeqOK, IsSeq
<1>2. Head(s) = s[1]
  OBVIOUS
<1> QED BY <1>1, <1>2 DEF SeqOK

\* r is what a process that has done the first step of s has still to do
Pops(r, s) == Puts(r, <<>>, s)
LEMMA TailPops == ASSUME NEW s, SeqOK(s), s # <<>> PROVE Pops(Tail(s), s)
<1>1. IsSeq(s) /\ Len(s) >= 1 /\ Len(s) \in Nat
  BY FirstIs
<1>2. IsSeq(Tail(s)) /\ Len(Tail(s)) = Len(s) - 1 /\ \A k \in 1..(Len(s) - 1) : Tail(s)[k] = s[k + 1]
  BY <1>1, TailIs
<1>3. IsSeq(<<>>) /\ Len(<<>>) = 0
  BY Tup0
<1>4. Puts(Tail(s), <<>>, s)
  <2>1. \A k \in 2..Len(s) : k - 1 \in 1..(Len(s) - 1) /\ (k - 1) + 1 = k /\ 0 + k - 1 = k - 1
    BY <1>1
  <2>2. \A k \in 2..Len(s) : Tail(s)[k - 1] = s[k]
    BY <1>2, <2>1
  <2> QED BY <1>1, <1>2, <1>3, <2>1, <2>2 DEF Puts
<1> QED BY <1>4 DEF Pops
LEMMA PopIs ==
  ASSUME NEW s, SeqOK(s), s # <<>>, NEW r, Pops(r, s)
  PROVE  /\ SeqOK(r) /\ IsSeq(r) /\ Len(r) \in Nat /\ Len(r) = Len(s) - 1 /\ (r # <<>> <=> Len(s) >= 2)
         /\ \A k \in 1..(Len(s) - 1) : r[k] = s[k + 1]
<1>1. IsSeq(s) /\ Len(s) >= 1 /\ Len(s) \in Nat
  BY FirstIs
<1>2. IsSeq(<<>>) /\ Len(<<>>) = 0
  BY Tup0
<1>3. Puts(r, <<>>, s)
  BY DEF Pops
<1>4. IsSeq(r) /\ Len(r) = Len(s) - 1 /\ \A k \in 2..Len(s) : r[0 + k - 1] = s[k]
  BY <1>2, <1>3 DEF Puts
<1>5. ASSUME NEW k \in 1..(Len(s) - 1) PROVE r[k] = s[k + 1]
  <2>1. k + 1 \in 2..Len(s) /\ 0 + (k + 1) - 1 = k
    BY <1>1
  <2> QED BY <1>4, <2>1
<1>6. SeqOK(r)
  BY <1>2, <1>3, PutsOK
<1> QED BY <1>1, <1>4, <1>5, <1>6, SeqEmpty DEF IsSeq
LEMMA PopHas ==
  ASSUME NEW s, SeqOK(s), s # <<>>, NEW r, Pops(r, s), NEW S, NEW e
  PROVE  Has(s, S, e) <=> (s[1].op \in S /\ s[1].e = e) \/ Has(r, S, e)
<1>1. Puts(r, <<>>, s) /\ IsSeq(<<>>) /\ IsSeq(s)
  BY Tup0, FirstIs DEF Pops
<1>2. ~Has(<<>>, S, e)
  BY Tup0 DEF Has
<1> QED BY <1>1, <1>2, PutsHas

\* the rest of a call stays as it should be when one step is done
LEMMA PopUses ==
  ASSUME NEW s, NEW f, NEW f2, SeqOK(s), s # <<>>, NEW r, Pops(r, s), UsesOK(s, f), SameOpen(f, f2) \/ Len(s) = 1,
         s[1].op \notin RefOps \/ Len(s) = 1
  PROVE  UsesOK(r, f2)
<1>1. Len(r) = Len(s) - 1 /\ (\A k \in 1..(Len(s) - 1) : r[k] = s[k + 1]) /\ Len(s) \in Nat
  BY PopIs, FirstIs
<1>2. CASE Len(s) = 1
  BY <1>1, <1>2 DEF UsesOK
<1>3. CASE SameOpen(f, f2) /\ s[1].op \notin RefOps
  <2>1. \A e : Gives(s, e) => Gives(r, e)
    BY <1>3, PopHas DEF Gives
  <2>2. \A k \in 1..(Len(s) - 1) : k + 1 \in 1..Len(s)
    BY <1>1
  <2> QED BY <1>1, <1>3, <2>1, <2>2 DEF UsesOK, SameOpen
<1> QED BY <1>2, <1>3
LEMMA PopAsked ==
  ASSUME NEW l, NEW p, NEW s, NEW E, NEW E2, SeqOK(s), s # <<>>, NEW r, Pops(r, s), Asked(l, p, s, E), AllKeep(E, E2)
  PROVE  Asked(l, p, r, E2)
<1>1. Len(r) = Len(s) - 1 /\ (\A k \in 1..(Len(s) - 1) : r[k] = s[k + 1]) /\ Len(s) \in Nat
  BY PopIs, FirstIs
<1>2. \A k \in 1..(Len(s) - 1) : k + 1 \in 1..Len(s)
  BY <1>1
<1>3. \A k \in 1..Len(s) : s[k].op \in {"remove", "eremove"} => s[k].e \in File
  <2>1. \A k \in 1..Len(s) : Whole(s, k)
    BY DEF SeqOK
  <2> QED BY <2>1 DEF Whole, File, OnFile
<1> QED BY <1>1, <1>2, <1>3 DEF Asked, AllKeep

\* a step of a process that makes no entry, and changes none but its lock
LEMMA Calm ==
  ASSUME NEW E, NEW E2, NEW s, NEW r, NEW p, AllKeep(E, E2), \A e \in File : ~Creating(s, e) /\ ~Creating(r, e)
  PROVE  KeptBut(E, E2, p) /\ CreateStep(E, E2, s, r)
<1>1. KeptBut(E, E2, p)
  BY DEF KeptBut, AllKeep, Alike
<1>2. \A e \in File : CreateOK(r, e, E2[e])
  BY DEF Creating, Has, CreateOK
<1>3. CreateStep(E, E2, s, r)
  BY <1>2 DEF CreateStep, AllKeep
<1> QED BY <1>1, <1>3
LEMMA CalmRefs ==
  ASSUME NEW E, NEW E2, NEW s, NEW r, NEW f, NEW f2, AllKeep(E, E2), EntDom(E),
         \A e \in File : Cnt(r, f2, e) <= Cnt(s, f, e)
  PROVE  RefStep(E, E2, s, f, r, f2)
<1>1. \A e \in File : E2[e].ref = E[e].ref /\ E[e].ref \in Nat
  BY FileEntry DEF AllKeep, EntDom
<1>2. \A e \in File : Cnt(r, f2, e) \in Nat /\ Cnt(s, f, e) \in Nat
  BY DEF Cnt, One
<1> QED BY <1>1, <1>2 DEF RefStep
LEMMA PopCnt ==
  ASSUME NEW s, SeqOK(s), s # <<>>, NEW r, Pops(r, s), NEW f, NEW f2, SameOpen(f, f2), NEW e
  PROVE  Cnt(r, f2, e) <= Cnt(s, f, e)
<1>1. Gives(r, e) => Gives(s, e)
  BY PopHas DEF Gives
<1> QED BY <1>1 DEF Cnt, One, SameOpen

\* the locks that are not concerned
LEMMA LockOne ==
  ASSUME NEW l, NEW K, NEW E, NEW T, NEW F, CtlOK(l, K, E, T, F), NEW p \in Procs, NEW r, NEW E2, NEW e \in Entry,
         E[e].lock \in {p, NoProc}, E2[e].lock \in {p, NoProc}, E2[e].lock = p <=> Holds(r, e),
         \A d \in Entry : d # e => E2[d].lock = E[d].lock /\ (Holds(r, d) <=> Holds(T[p], d))
  PROVE  LockStep(E, E2, r, p)
BY ProcsAssumption DEF LockStep, CtlOK, Locks

-----------------------------------------------------------------------------
(* The steps, as far as locks, references and what is still to do go *)
LEMMA Ready ==
  ASSUME NEW l, NEW K, NEW E, NEW T, NEW F, CtlOK(l, K, E, T, F), NEW p \in Procs
  PROVE  /\ SeqOK(T[p]) /\ UsesOK(T[p], F[p]) /\ Asked(l, p, T[p], E) /\ IsFile(F[p])
         /\ EntDom(E) /\ Becomes(F, F, p, F[p]) /\ Becomes(T, T, p, T[p]) /\ Calls1(l, K)
         /\ \A e \in Entry : E[e].lock = p <=> Holds(T[p], e)
<1>1. F = [q \in Procs |-> F[q]] /\ IsFile(F[p])
  BY DEF CtlOK, Files1
<1>2. T = [q \in Procs |-> T[q]]
  BY DEF CtlOK
<1>3. Becomes(F, F, p, F[p])
  BY <1>1, BecomesIs
<1>4. Becomes(T, T, p, T[p])
  BY <1>2, BecomesIs
<1>5. /\ SeqOK(T[p]) /\ UsesOK(T[p], F[p]) /\ Asked(l, p, T[p], E) /\ EntDom(E) /\ Calls1(l, K)
      /\ \A e \in Entry : E[e].lock = p <=> Holds(T[p], e)
  BY DEF CtlOK, Locks
<1> QED BY <1>1, <1>3, <1>4, <1>5

\* the entries that s holds the locks of, when it makes none
LEMMA HoldsIs ==
  ASSUME NEW s, s # <<>>, \A e \in File : ~Creating(s, e), NEW d \in Entry
  PROVE  Holds(s, d) <=>
           IF d = Root THEN s[1].op \in {"lookup", "eremove", "eupdate"} \/ (s[1].op = "eunlock" /\ s[1].e = Root)
           ELSE \/ s[1].op \in LockedOps /\ s[1].e = d
                \/ /\ s[1].op \in {"elock", "eunlock"} /\ s[1].e = Root
                   /\ \E o \in {"eremove", "eupdate", "drop", "eunlock"} : Is(s, 2, o, d)
<1>1. CASE d = Root
  BY <1>1 DEF Holds, HoldsRoot, OnEntry
<1>2. CASE d # Root
  <2>1. d \in File
    BY <1>2 DEF File
  <2> QED BY <1>2, <2>1 DEF Holds, HoldsEntry, OnEntry
<1> QED BY <1>1, <1>2
LEMMA HoldsNone == \A e \in Entry : ~Holds(<<>>, e)
BY Tup0 DEF Holds, HoldsRoot, HoldsEntry, Creating, Has, OnEntry, Is

\* a process does a step of its own, which neither makes an entry nor gives one up
LEMMA CtlPop ==
  ASSUME NEW l, NEW K, NEW E, NEW T, NEW F, CtlOK(l, K, E, T, F), NEW p \in Procs, NEW E2, NEW T2, NEW F2, NEW r, NEW f2,
         T[p] # <<>>, T[p][1].op \notin MakeOps \cup {"valid"} \cup RefOps, Pops(r, T[p]),
         Becomes(T, T2, p, r), EntDom(E2), AllKeep(E, E2), LockStep(E, E2, r, p),
         Becomes(F, F2, p, f2), IsFile(f2), SameOpen(F[p], f2)
  PROVE  CtlOK(l, K, E2, T2, F2)
<1> DEFINE s == T[p]
<1>1. /\ SeqOK(s) /\ UsesOK(s, F[p]) /\ Asked(l, p, s, E) /\ IsFile(F[p])
      /\ EntDom(E) /\ Becomes(F, F, p, F[p]) /\ Calls1(l, K)
  BY Ready
<1>2. SeqOK(r)
  BY <1>1, PopIs
<1>3. \A d \in File : ~Creating(s, d) /\ ~Creating(r, d)
  <2>1. \A d : ~Creating(s, d)
    BY <1>1, NoValid
  <2>2. \A d : Creating(r, d) => Creating(s, d)
    BY <1>1, PopHas DEF Creating
  <2> QED BY <2>1, <2>2
<1>4. UsesOK(r, f2) /\ Asked(l, p, r, E2)
  <2>1. UsesOK(r, f2)
    BY <1>1, PopUses
  <2>2. Asked(l, p, r, E2)
    BY <1>1, PopAsked
  <2> QED BY <2>1, <2>2
<1>5. RefStep(E, E2, s, F[p], r, f2)
  BY <1>1, PopCnt, CalmRefs
<1>6. KeptBut(E, E2, p) /\ CreateStep(E, E2, s, r)
  BY <1>3, Calm
<1> HIDE DEF s
<1>7. OneStep(l, E2, p, r, f2)
  BY <1>1, <1>2, <1>4 DEF OneStep
<1> QED BY <1>1, <1>5, <1>6, <1>7, CtlStep DEF s

\* the facts on s that the steps above and below start from
LEMMA PopMore ==
  ASSUME NEW s, SeqOK(s), s # <<>>, s[1].op \notin MakeOps \cup {"valid"}, NEW r, Pops(r, s)
  PROVE  /\ Whole(s, 1) /\ Goes1(s, 1) /\ Len(s) \in Nat /\ 1 \in 1..Len(s)
         /\ Len(r) = Len(s) - 1 /\ (\A k \in 1..(Len(s) - 1) : r[k] = s[k + 1])
         /\ (Len(s) >= 2 => r # <<>> /\ r[1] = s[2]) /\ (r # <<>> <=> Len(s) >= 2)
         /\ (\A d \in File : ~Creating(s, d) /\ ~Creating(r, d))
         /\ (s[1].op # "lookup" => s[1].e \in Entry)
<1>1. \A d \in File : ~Creating(s, d) /\ ~Creating(r, d)
  <2>1. \A d : ~Creating(s, d)
    BY NoValid
  <2>2. \A d : Creating(r, d) => Creating(s, d)
    BY PopHas DEF Creating
  <2> QED BY <2>1, <2>2
<1>2. Whole(s, 1) /\ Goes1(s, 1) /\ Len(s) \in Nat /\ 1 \in 1..Len(s)
  BY FirstIs
<1>3. Len(r) = Len(s) - 1 /\ (\A k \in 1..(Len(s) - 1) : r[k] = s[k + 1]) /\ (r # <<>> <=> Len(s) >= 2)
  BY PopIs
<1>4. Len(s) >= 2 => r[1] = s[2]
  BY <1>2, <1>3
<1>5. s[1].op # "lookup" => s[1].e \in Entry
  BY <1>2 DEF Whole
<1> QED BY <1>1, <1>2, <1>3, <1>4, <1>5

LEMMA CtlElock ==
  ASSUME NEW l, NEW K, NEW E, NEW T, NEW F, CtlOK(l, K, E, T, F), NEW p \in Procs, NEW E2, NEW T2, NEW r,
         T[p] # <<>>, T[p][1].op = "elock", E[T[p][1].e].lock = NoProc, Pops(r, T[p]),
         LockedBy(E, E2, T[p][1].e, p), Becomes(T, T2, p, r)
  PROVE  CtlOK(l, K, E2, T2, F)
<1> DEFINE s == T[p]
           e == s[1].e
<1>1. SeqOK(s)
  BY Ready
<1>2. /\ Whole(s, 1) /\ Goes1(s, 1) /\ Len(s) \in Nat /\ 1 \in 1..Len(s)
      /\ (Len(s) >= 2 => r # <<>> /\ r[1] = s[2])
      /\ (\A d \in File : ~Creating(s, d) /\ ~Creating(r, d)) /\ e \in Entry
  BY <1>1, PopMore DEF MakeOps
<1>3. r # <<>> /\ Len(s) >= 2 /\ r[1] = s[2]
  <2>1. Len(s) >= 2
    BY <1>2, FileEntry DEF Goes1, Is
  <2> QED BY <2>1, <1>2
<1>4. LockStep(E, E2, r, p)
  <2>1. E[e].lock \in {p, NoProc} /\ E2[e].lock = p
    BY DEF LockedBy
  <2>2. CASE e = Root
    <3>1. s[2].op = "lookup" \/ \E d \in File : s[2].op \in {"eremove", "eupdate"} /\ Is(s, 2, s[2].op, d)
      BY <1>2, <2>2 DEF Goes1, Is
    <3>2. Holds(r, e)
      BY <3>1, <1>3, <2>2, FileEntry DEF Holds, HoldsRoot, Is
    <3>3. ASSUME NEW d \in Entry, d # e PROVE Holds(r, d) <=> Holds(s, d)
      <4>1. Holds(s, d) <=> \E o \in {"eremove", "eupdate", "drop", "eunlock"} : Is(s, 2, o, d)
        BY <1>2, <2>2, <3>3, HoldsIs DEF LockedOps
      <4>2. Holds(r, d) <=> (s[2].op \in LockedOps /\ s[2].e = d)
        BY <1>2, <1>3, <2>2, <3>3, <3>1, HoldsIs
      <4> QED BY <4>1, <4>2, <3>1, <1>3, <1>2 DEF Is, LockedOps
    <3> QED BY <2>1, <3>2, <3>3, <1>2, LockOne DEF LockedBy
  <2>3. CASE e # Root
    <3>1. s[2].op \in {"opened", "eunlock", "remove", "ewrite"} /\ s[2].e = e
      BY <1>2, <2>3 DEF Goes1, Is
    <3>2. Holds(r, e)
      BY <3>1, <1>2, <1>3, <2>3, HoldsIs DEF LockedOps
    <3>3. ASSUME NEW d \in Entry, d # e PROVE Holds(r, d) <=> Holds(s, d)
      <4>1. ~Holds(s, d)
        BY <1>2, <2>3, <3>3, HoldsIs DEF LockedOps
      <4>2. ~Holds(r, d)
        BY <1>2, <1>3, <2>3, <3>3, <3>1, HoldsIs
      <4> QED BY <4>1, <4>2
    <3> QED BY <2>1, <3>2, <3>3, <1>2, LockOne DEF LockedBy
  <2> QED BY <2>2, <2>3
<1>5. AllKeep(E, E2) /\ EntDom(E2)
  BY AlikeKeep DEF LockedBy
<1> HIDE DEF e, s
<1>6. s[1].op \notin MakeOps \cup {"valid"} \cup RefOps
  BY DEF s, MakeOps, RefOps
<1>7. Becomes(F, F, p, F[p]) /\ IsFile(F[p]) /\ SameOpen(F[p], F[p])
  BY Ready DEF SameOpen
<1> QED BY <1>4, <1>5, <1>6, <1>7, CtlPop DEF s

LEMMA CtlEunlock ==
  ASSUME NEW l, NEW K, NEW E, NEW T, NEW F, CtlOK(l, K, E, T, F), NEW p \in Procs, NEW E2, NEW T2, NEW r,
         T[p] # <<>>, T[p][1].op = "eunlock", Pops(r, T[p]),
         LockedBy(E, E2, T[p][1].e, NoProc), Becomes(T, T2, p, r)
  PROVE  CtlOK(l, K, E2, T2, F)
<1> DEFINE s == T[p]
           e == s[1].e
<1>1. SeqOK(s) /\ \A d \in Entry : E[d].lock = p <=> Holds(s, d)
  BY Ready
<1>2. /\ Whole(s, 1) /\ Goes1(s, 1) /\ Len(s) \in Nat /\ 1 \in 1..Len(s)
      /\ (Len(s) >= 2 => r # <<>> /\ r[1] = s[2]) /\ (r # <<>> <=> Len(s) >= 2)
      /\ (\A d \in File : ~Creating(s, d) /\ ~Creating(r, d)) /\ e \in Entry
  BY <1>1, PopMore DEF MakeOps
<1>3. Holds(s, e) /\ E[e].lock = p
  <2>1. Holds(s, e)
    BY <1>2, HoldsIs DEF LockedOps
  <2> QED BY <2>1, <1>1, <1>2
<1>4. LockStep(E, E2, r, p)
  <2>1. E[e].lock \in {p, NoProc} /\ E2[e].lock = NoProc /\ NoProc # p
    BY <1>3, ProcsAssumption DEF LockedBy
  <2>2. CASE e = Root
    <3>1. Len(s) = 1 \/ \E d \in File, o \in {"eput", "elock", "eunlock", "drop"} : Is(s, 2, o, d)
      BY <1>2, <2>2 DEF Goes1
    <3>2. CASE Len(s) = 1
      <4>1. r = <<>>
        BY <1>2, <3>2
      <4>2. \A d \in Entry : ~Holds(r, d)
        BY <4>1, HoldsNone
      <4>3. \A d \in Entry : d # e => ~Holds(s, d)
        BY <1>2, <2>2, <3>2, HoldsIs DEF LockedOps, Is
      <4> QED BY <2>1, <4>2, <4>3, <1>2, LockOne DEF LockedBy
    <3>3. CASE Len(s) # 1
      <4>1. PICK d \in File, o \in {"eput", "elock", "eunlock", "drop"} : Is(s, 2, o, d)
        BY <3>1, <3>3
      <4>2. r # <<>> /\ r[1].op = o /\ r[1].e = d /\ s[2].op = o /\ s[2].e = d /\ d # Root /\ d \in Entry
        BY <4>1, <1>2, FileEntry DEF Is
      <4>3. ~Holds(r, e)
        BY <4>2, <1>2, <2>2, HoldsIs
      <4>4. ASSUME NEW x \in Entry, x # e PROVE Holds(r, x) <=> Holds(s, x)
        <5>1. Holds(s, x) <=> \E w \in {"eremove", "eupdate", "drop", "eunlock"} : Is(s, 2, w, x)
          BY <1>2, <2>2, <4>4, HoldsIs DEF LockedOps
        <5>2. Holds(r, x) <=> (o \in LockedOps /\ d = x)
          BY <1>2, <2>2, <4>4, <4>2, HoldsIs
        <5> QED BY <5>1, <5>2, <4>1, <4>2, <1>2 DEF Is, LockedOps
      <4> QED BY <2>1, <4>3, <4>4, <1>2, LockOne DEF LockedBy
    <3> QED BY <3>2, <3>3
  <2>3. CASE e # Root
    <3>0. \A d \in Entry : d # e => ~Holds(s, d)
      BY <1>2, <2>3, HoldsIs DEF LockedOps
    <3>1. \A d \in Entry : ~Holds(r, d)
      <4>1. CASE Len(s) = 1
        <5>1. r = <<>>
          BY <1>2, <4>1
        <5> QED BY <5>1, HoldsNone
      <4>2. CASE Len(s) # 1
        <5>1. s[2].op = "eput" /\ s[2].e = e /\ Len(s) >= 2
          BY <1>2, <2>3, <4>2 DEF Goes1, Is
        <5> QED BY <5>1, <1>2, HoldsIs DEF LockedOps
      <4> QED BY <4>1, <4>2
    <3> QED BY <2>1, <3>0, <3>1, <1>2, LockOne DEF LockedBy
  <2> QED BY <2>2, <2>3
<1>5. AllKeep(E, E2) /\ EntDom(E2)
  BY AlikeKeep DEF LockedBy
<1> HIDE DEF e, s
<1>6. s[1].op \notin MakeOps \cup {"valid"} \cup RefOps
  BY DEF s, MakeOps, RefOps
<1>7. Becomes(F, F, p, F[p]) /\ IsFile(F[p]) /\ SameOpen(F[p], F[p])
  BY Ready DEF SameOpen
<1> QED BY <1>4, <1>5, <1>6, <1>7, CtlPop DEF s

LEMMA LockSame ==
  ASSUME NEW l, NEW K, NEW E, NEW T, NEW F, CtlOK(l, K, E, T, F), NEW p \in Procs, NEW r, NEW E2,
         \A d \in Entry : E2[d].lock = E[d].lock /\ (Holds(r, d) <=> Holds(T[p], d))
  PROVE  LockStep(E, E2, r, p)
BY DEF LockStep, CtlOK, Locks

\* an entry in use that a step is about
LEMMA HeadUsed ==
  ASSUME NEW l, NEW K, NEW E, NEW T, NEW F, CtlOK(l, K, E, T, F), NEW p \in Procs,
         T[p] # <<>>, T[p][1].op # "lookup", T[p][1].e # Root
  PROVE  T[p][1].e \in File /\ T[p][1].e \in Entry /\ E[T[p][1].e].ref > 0
<1>1. SeqOK(T[p]) /\ UsesOK(T[p], F[p])
  BY Ready
<1>2. Whole(T[p], 1) /\ 1 \in 1..Len(T[p])
  BY <1>1, FirstIs
<1>3. T[p][1].e \in File /\ T[p][1].e \in Entry
  BY <1>2 DEF Whole, File
<1>4. Gives(T[p], T[p][1].e) \/ FileIs(F[p], T[p][1].e)
  BY <1>1, <1>2 DEF UsesOK
<1> QED BY <1>3, <1>4, InUse
LEMMA NotFresh ==
  ASSUME NEW l, NEW K, NEW E, NEW T, NEW F, CtlOK(l, K, E, T, F), NEW p \in Procs, NEW e \in File,
         E[e].ref > 0, E[e].lock = p, ~Creating(T[p], e)
  PROVE  E[e].valid # 0
<1> SUFFICES ASSUME E[e].valid = 0 PROVE FALSE
  OBVIOUS
<1>1. PICK q \in Procs : Creating(T[q], e)
  BY DEF CtlOK, States
<1>2. Holds(T[q], e)
  BY <1>1, FileEntry DEF Holds, HoldsEntry
<1>3. E[e].lock = q
  BY <1>2, FileEntry DEF CtlOK, Locks
<1> QED BY <1>1, <1>3

WorkOps == {"etrunc", "eupdate", "eremove", "wrote"}
\* only what the entry e says of its file changes
Works(E, E2, e) ==
  /\ EntDom(E2)
  /\ \A d \in Entry : E2[d].lock = E[d].lock /\ (d # e => Alike(E[d], E2[d]))
  /\ E2[e].ref = E[e].ref /\ E2[e].name = E[e].name /\ (E2[e].valid = 0 => E[e].valid = 0)
LEMMA CtlWork ==
  ASSUME NEW l, NEW K, NEW E, NEW T, NEW F, CtlOK(l, K, E, T, F), NEW p \in Procs,
         NEW E2, NEW T2, NEW F2, NEW r, NEW f2,
         T[p] # <<>>, T[p][1].op \in WorkOps, Pops(r, T[p]), Works(E, E2, T[p][1].e),
         Becomes(T, T2, p, r), Becomes(F, F2, p, f2), IsFile(f2), SameOpen(F[p], f2)
  PROVE  CtlOK(l, K, E2, T2, F2)
<1> DEFINE s == T[p]
           e == s[1].e
<1>1. SeqOK(s) /\ \A d \in Entry : E[d].lock = p <=> Holds(s, d)
  BY Ready
<1>0. s[1].op \notin MakeOps \cup {"valid"} \cup RefOps /\ s[1].op # "lookup"
  BY DEF MakeOps, RefOps, WorkOps
<1>2. /\ Whole(s, 1) /\ Goes1(s, 1) /\ Len(s) \in Nat /\ 1 \in 1..Len(s)
      /\ Len(r) = Len(s) - 1 /\ (\A k \in 1..(Len(s) - 1) : r[k] = s[k + 1])
      /\ (Len(s) >= 2 => r # <<>> /\ r[1] = s[2])
      /\ (\A d \in File : ~Creating(s, d) /\ ~Creating(r, d)) /\ e \in Entry
  BY <1>0, <1>1, PopMore
<1>3. e # Root /\ e \in File /\ E[e].ref > 0
  <2>1. e # Root
    BY <1>2 DEF Whole, OnFile, WorkOps
  <2> QED BY <1>0, <2>1, HeadUsed
<1>4. Holds(s, e)
  BY <1>2, <1>3, HoldsIs DEF LockedOps, WorkOps
<1>5. E[e].valid # 0
  BY <1>1, <1>2, <1>3, <1>4, NotFresh
<1>6. AllKeep(E, E2) /\ EntDom(E2)
  BY <1>5, FileEntry DEF Works, AllKeep, Alike
<1>7. LockStep(E, E2, r, p)
  <2>1. ASSUME NEW d \in Entry PROVE Holds(r, d) <=> Holds(s, d)
    <3>1. CASE s[1].op \in {"etrunc", "wrote"}
      <4>1. /\ Len(s) >= 2 /\ s[2].e = e
            /\ s[2].op \in {"setfile", "drop", "eunlock"}
        BY <1>2, <3>1 DEF Goes1, Is
      <4>2. Holds(s, d) <=> d = e
        BY <1>2, <1>3, <3>1, HoldsIs DEF LockedOps
      <4>3. Holds(r, d) <=> d = e
        BY <1>2, <1>3, <4>1, HoldsIs DEF LockedOps
      <4> QED BY <4>2, <4>3
    <3>2. CASE s[1].op \in {"eupdate", "eremove"}
      <4>1. /\ Len(s) >= 3 /\ s[2].op = "eunlock" /\ s[2].e = Root
            /\ s[3].e = e /\ s[3].op \in {"drop", "eunlock"}
        BY <1>2, <3>2 DEF Goes1, Is
      <4>2. Holds(s, d) <=> d = e \/ d = Root
        BY <1>2, <1>3, <3>2, HoldsIs DEF LockedOps
      <4>3. r # <<>> /\ r[1] = s[2] /\ r[2] = s[3] /\ Len(r) >= 2
        BY <4>1, <1>2
      <4>4. Holds(r, d) <=> d = e \/ d = Root
        BY <1>2, <1>3, <4>1, <4>3, HoldsIs DEF LockedOps, Is
      <4> QED BY <4>2, <4>4
    <3> QED BY <3>1, <3>2 DEF WorkOps
  <2> QED BY <2>1, LockSame DEF Works
<1> HIDE DEF e, s
<1> QED BY <1>0, <1>6, <1>7, CtlPop DEF s

\* the open file of p is e now
LEMMA CtlSetFile ==
  ASSUME NEW l, NEW K, NEW E, NEW T, NEW F, CtlOK(l, K, E, T, F), NEW p \in Procs,
         NEW T2, NEW F2, NEW r, NEW f2,
         T[p] # <<>>, T[p][1].op = "setfile", Pops(r, T[p]), Becomes(T, T2, p, r),
         Becomes(F, F2, p, f2), IsFile(f2), FileIs(f2, T[p][1].e)
  PROVE  CtlOK(l, K, E, T2, F2)
<1> DEFINE s == T[p]
           e == s[1].e
<1>1. /\ SeqOK(s) /\ UsesOK(s, F[p]) /\ Asked(l, p, s, E) /\ EntDom(E) /\ Calls1(l, K)
      /\ \A d \in Entry : E[d].lock = p <=> Holds(s, d)
  BY Ready
<1>0. s[1].op \notin MakeOps \cup {"valid"} /\ s[1].op # "lookup"
  BY DEF MakeOps
<1>2. /\ Whole(s, 1) /\ Goes1(s, 1) /\ Len(s) \in Nat /\ 1 \in 1..Len(s)
      /\ Len(r) = Len(s) - 1 /\ (\A k \in 1..(Len(s) - 1) : r[k] = s[k + 1])
      /\ (Len(s) >= 2 => r # <<>> /\ r[1] = s[2])
      /\ (\A d \in File : ~Creating(s, d) /\ ~Creating(r, d)) /\ e \in Entry
  BY <1>0, <1>1, PopMore
<1>3. e # Root /\ e \in File /\ Len(s) = 2 /\ s[2].op = "eunlock" /\ s[2].e = e
  BY <1>2 DEF Whole, OnFile, Goes1, Is, File
<1>4. Len(r) = 1 /\ r # <<>> /\ r[1].op = "eunlock" /\ r[1].e = e
  BY <1>2, <1>3
<1>5. SeqOK(r)
  BY <1>1, PopIs
<1>6. UsesOK(r, f2)
  BY <1>4 DEF UsesOK, UserStep
<1>7. AllKeep(E, E)
  BY DEF AllKeep, Alike
<1>8. Asked(l, p, r, E)
  BY <1>1, <1>7, PopAsked
<1>9. LockStep(E, E, r, p)
  <2>1. ASSUME NEW d \in Entry PROVE Holds(r, d) <=> Holds(s, d)
    <3>1. Holds(s, d) <=> d = e
      BY <1>2, <1>3, HoldsIs DEF LockedOps
    <3>2. Holds(r, d) <=> d = e
      BY <1>2, <1>3, <1>4, HoldsIs DEF LockedOps
    <3> QED BY <3>1, <3>2
  <2> QED BY <2>1, LockSame
<1>10. KeptBut(E, E, p) /\ CreateStep(E, E, s, r)
  BY <1>2, <1>7, Calm
<1>11. RefStep(E, E, s, F[p], r, f2)
  <2>1. ASSUME NEW d \in File PROVE Cnt(r, f2, d) <= Cnt(s, F[p], d)
    <3>1. ~Gives(r, d)
      BY <1>4 DEF Gives, Has, RefOps
    <3>2. Gives(s, e)
      BY <1>2 DEF Gives, Has, RefOps
    <3>3. FileIs(f2, d) => d = e
      BY DEF FileIs
    <3> QED BY <3>1, <3>2, <3>3 DEF Cnt, One
  <2> QED BY <1>1, <1>7, <2>1, CalmRefs
<1> HIDE DEF e, s
<1>12. OneStep(l, E, p, r, f2)
  BY <1>5, <1>6, <1>8 DEF OneStep
<1> QED BY <1>1, <1>9, <1>10, <1>11, <1>12, CtlStep DEF s

\* a step whose process goes on with something else of the same kind
Turns(x, y) ==
  /\ y.e = x.e
  /\ \/ x.op = "etrunc" /\ y.op = "etrunc"
     \/ x.op = "alloc" /\ y.how = x.how /\ (\/ y.op = "alloc" /\ y.sec \in 0..(FATSZ-1)
                                            \/ y.op = "link" /\ y.sec \in 2..LAST)
LEMMA CtlTurn ==
  ASSUME NEW l, NEW K, NEW E, NEW T, NEW F, CtlOK(l, K, E, T, F), NEW p \in Procs, NEW T2, NEW r, NEW y,
         T[p] # <<>>, Turns(T[p][1], y), Puts(r, <<y>>, T[p]), Becomes(T, T2, p, r)
  PROVE  CtlOK(l, K, E, T2, F)
<1> DEFINE s == T[p]
           e == s[1].e
<1>1. /\ SeqOK(s) /\ UsesOK(s, F[p]) /\ Asked(l, p, s, E) /\ EntDom(E) /\ Calls1(l, K)
      /\ (\A d \in Entry : E[d].lock = p <=> Holds(s, d)) /\ Becomes(F, F, p, F[p]) /\ IsFile(F[p])
  BY Ready
<1>2. /\ Whole(s, 1) /\ Goes1(s, 1) /\ Begins(s, 1) /\ Len(s) \in Nat /\ 1 \in 1..Len(s) /\ IsSeq(s)
  BY <1>1, FirstIs
<1>3. IsSeq(<<y>>) /\ Len(<<y>>) = 1 /\ <<y>>[1] = y
  BY Tup1
<1>4. IsSeq(r) /\ Len(r) = Len(s) /\ r[1] = y /\ (\A k \in 2..Len(s) : r[k] = s[k]) /\ r # <<>>
  <2>1. IsSeq(r) /\ Len(r) = 1 + Len(s) - 1 /\ r[1] = y /\ (\A k \in 2..Len(s) : r[1 + k - 1] = s[k])
    BY <1>3 DEF Puts
  <2>2. \A k \in 2..Len(s) : 1 + k - 1 = k
    OBVIOUS
  <2>3. Len(r) = Len(s)
    BY <2>1, <1>2
  <2>4. r # <<>>
    BY <2>1, <2>3, <1>2, SeqEmpty
  <2> QED BY <2>1, <2>2, <2>3, <2>4
<1>5. \A S, d : S \cap {"alloc", "link"} = {} => (Has(r, S, d) <=> Has(s, S, d))
  <2> SUFFICES ASSUME NEW S, NEW d, S \cap {"alloc", "link"} = {} PROVE Has(r, S, d) <=> Has(s, S, d)
    OBVIOUS
  <2>1. Has(<<y>>, S, d) <=> y.op \in S /\ y.e = d
    BY <1>3 DEF Has
  <2>2. /\ Has(r, S, d) <=> Has(<<y>>, S, d) \/ HasRest(s, S, d)
        /\ Has(s, S, d) <=> (s[1].op \in S /\ s[1].e = d) \/ HasRest(s, S, d)
    BY <1>2, <1>3, PutsHas
  <2> QED BY <2>1, <2>2 DEF Turns
<1>6. /\ \A d : Creating(r, d) <=> Creating(s, d)
      /\ \A d : Gives(r, d) <=> Gives(s, d)
  BY <1>5 DEF Creating, Gives, RefOps
<1>7. \A o, d : \A k \in 2..3 : Is(r, k, o, d) <=> Is(s, k, o, d)
  BY <1>4, <1>2 DEF Is
<1>8. SeqOK(r)
  <2>1. IsOK(r, 1)
    <3>1. Whole(r, 1)
      BY <1>2, <1>4 DEF Whole, Turns, UserStep, MakeStep, Ops, OnFile
    <3>2. Goes1(r, 1)
      <4>1. CASE y.op = "etrunc"
        <5>1. Is(s, 2, "setfile", s[1].e) \/ Is(s, 2, "drop", s[1].e)
          BY <1>2, <4>1 DEF Goes1, Turns
        <5> QED BY <5>1, <1>4, <1>7, <4>1 DEF Goes1, Turns, LastOps
      <4>2. CASE y.op # "etrunc"
        BY <1>4, <4>2 DEF Goes1, Turns, LastOps
      <4> QED BY <4>1, <4>2
    <3>3. Goes2(r, 1)
      BY <1>4 DEF Goes2, Turns, UserStep, MakeStep
    <3>4. Begins(r, 1)
      <4>1. CASE y.op = "etrunc"
        BY <4>1, <1>4 DEF Begins
      <4>2. CASE y.op # "etrunc"
        <5>1. s[1].op = "alloc" /\ y.how = s[1].how /\ y.e = s[1].e /\ y.op \in {"alloc", "link"}
          BY <4>2 DEF Turns
        <5>2. Writes(s, 2, s[1].e) => Writes(r, 2, s[1].e)
          <6>1. 2 \in 1..Len(s) => r[2] = s[2]
            BY <1>2, <1>4
          <6>2. \A o : Is(s, 2, o, s[1].e) => Is(r, 2, o, s[1].e) /\ r[2] = s[2]
            <7>1. \A o : Is(s, 2, o, s[1].e) => Is(r, 2, o, s[1].e)
              BY <1>7
            <7>2. \A o : Is(s, 2, o, s[1].e) => 2 \in 1..Len(s)
              BY DEF Is
            <7> QED BY <7>1, <7>2, <6>1
          <6> QED BY <6>2 DEF Writes
        <5>3. /\ s[1].how \in {"more", "dir", "write"}
              /\ s[1].how = "more" => Is(s, 2, "store", s[1].e)
              /\ s[1].how = "dir" => s[1].e # Root /\ Is(s, 2, "emake", s[1].e)
              /\ s[1].how = "write" => s[1].e # Root /\ Writes(s, 2, s[1].e)
          BY <1>2, <5>1 DEF Begins
        <5>4. /\ y.how \in {"more", "dir", "write"}
              /\ y.how = "more" => Is(r, 2, "store", y.e)
              /\ y.how = "dir" => y.e # Root /\ Is(r, 2, "emake", y.e)
              /\ y.how = "write" => y.e # Root /\ Writes(r, 2, y.e)
          BY <5>1, <5>2, <5>3, <1>7
        <5> QED BY <5>4, <5>1, <1>4, <4>2 DEF Begins, Turns
      <4> QED BY <4>1, <4>2
    <3> QED BY <3>1, <3>2, <3>3, <3>4 DEF IsOK
  <2>2. \A k \in 1..Len(<<y>>) : IsOK(r, k)
    BY <2>1, <1>3
  <2>3. CASE y.op = "etrunc"
    <3>1. \A k \in 1..Len(s) : s[k].op # "valid"
      BY <1>1, <2>3, NoValid DEF Turns, MakeOps
    <3>2. \A k \in 2..Len(s) : s[k].op # "valid"
      BY <3>1, <1>2
    <3> QED BY <1>1, <1>3, <2>2, <3>2, PutsOK
  <2>4. CASE y.op # "etrunc"
    <3>1. \A k \in 1..Len(<<y>>) : <<y>>[k].op \in MakeOps
      BY <1>3, <2>4 DEF Turns, MakeOps
    <3> QED BY <1>1, <1>3, <2>2, <3>1, PutsOK
  <2> QED BY <2>3, <2>4
<1>9. UsesOK(r, F[p])
  <2>1. ASSUME NEW k \in 1..Len(r)
        PROVE  /\ r[k].e = s[k].e /\ (r[k].op = s[k].op \/ (k = 1 /\ s[1].op # "lookup" /\ y.op \notin {"ewrite", "wrote", "store"}))
               /\ k \in 1..Len(s) /\ (k # 1 => r[k] = s[k])
    BY <1>4, <1>2 DEF Turns
  <2>2. ASSUME NEW k \in 1..Len(r)
        PROVE  /\ r[k].op # "lookup" /\ r[k].e # Root => Gives(r, r[k].e) \/ FileIs(F[p], r[k].e)
               /\ r[k].op \in {"ewrite", "wrote"} \/ UserStep(r[k]) => FileIs(F[p], r[k].e)
    <3>1. /\ s[k].op # "lookup" /\ s[k].e # Root => Gives(s, s[k].e) \/ FileIs(F[p], s[k].e)
          /\ s[k].op \in {"ewrite", "wrote"} \/ UserStep(s[k]) => FileIs(F[p], s[k].e)
      BY <1>1, <2>1 DEF UsesOK
    <3>2. CASE k = 1
      BY <3>1, <3>2, <2>1, <1>4, <1>6 DEF UserStep, Turns
    <3>3. CASE k # 1
      BY <3>1, <3>3, <2>1, <1>6
    <3> QED BY <3>2, <3>3
  <2> QED BY <2>2 DEF UsesOK
<1>10. Asked(l, p, r, E)
  <2>1. ASSUME NEW k \in 1..Len(r), r[k].op \in {"remove", "eremove", "lookup", "ewrite"}
        PROVE  k \in 1..Len(s) /\ r[k] = s[k]
    <3>1. k # 1
      BY <2>1, <1>4 DEF Turns
    <3> QED BY <3>1, <1>2, <1>4
  <2> QED BY <1>1, <2>1 DEF Asked
<1>11. LockStep(E, E, r, p)
  <2>1. ASSUME NEW d \in Entry PROVE Holds(r, d) <=> Holds(s, d)
    <3>1. \A S, x : OnEntry(r, S, x) <=> y.op \in S /\ y.e = x
      BY <1>4 DEF OnEntry
    <3>2. \A S, x : OnEntry(s, S, x) <=> s[1].op \in S /\ s[1].e = x
      BY DEF OnEntry
    <3> QED BY <1>6, <1>4, <3>1, <3>2 DEF Holds, HoldsRoot, HoldsEntry, Turns, LockedOps
  <2> QED BY <2>1, LockSame
<1>12. KeptBut(E, E, p)
  BY DEF KeptBut
<1>13. CreateStep(E, E, s, r)
  <2> SUFFICES ASSUME NEW d \in File
               PROVE  /\ CreateOK(r, d, E[d]) /\ (Creating(r, d) => Fresh(E[d]))
                      /\ E[d].valid = 0 /\ E[d].ref > 0 => Creating(r, d) \/ (E[d].valid = 0 /\ E[d].ref > 0 /\ ~Creating(s, d))
    BY DEF CreateStep
  <2>1. Creating(r, d) => Fresh(E[d])
    BY <1>6 DEF CtlOK, States, Fresh
  <2>2. CreateOK(r, d, E[d])
    <3> SUFFICES ASSUME NEW v \in 1..Len(r), r[v].op = "valid", r[v].e = d, NEW k \in 1..(v-1)
                 PROVE  Makes(r, k, v, d, E[d])
      BY DEF CreateOK
    <3>1. v # 1 /\ v \in 2..Len(s) /\ v \in 1..Len(s) /\ r[v] = s[v]
      BY <1>4, <1>2 DEF Turns
    <3>2. Makes(s, k, v, d, E[d])
      <4>1. CreateOK(s, d, E[d])
        BY DEF CtlOK
      <4> QED BY <3>1, <4>1 DEF CreateOK
    <3>3. CASE k = 1
      <4>1. s[1].op = "alloc" \/ s[1].op = "etrunc"
        BY DEF Turns
      <4>2. s[1].op = "alloc"
        BY <3>2, <3>3, <4>1 DEF Makes, MakeStep
      <4> QED BY <3>2, <3>3, <4>2, <1>4 DEF Makes, MakeStep, Turns
    <3>4. CASE k # 1
      <4>1. r[k] = s[k]
        BY <3>1, <3>4, <1>4
      <4> QED BY <3>2, <4>1 DEF Makes
    <3> QED BY <3>3, <3>4
  <2> QED BY <2>1, <2>2, <1>6
<1>14. RefStep(E, E, s, F[p], r, F[p])
  <2>1. \A d \in File : Cnt(r, F[p], d) <= Cnt(s, F[p], d)
    BY <1>6 DEF Cnt, One
  <2>2. AllKeep(E, E)
    BY DEF AllKeep, Alike
  <2> QED BY <1>1, <2>1, <2>2, CalmRefs
<1> HIDE DEF e, s
<1>15. OneStep(l, E, p, r, F[p])
  BY <1>1, <1>8, <1>9, <1>10 DEF OneStep
<1> QED BY <1>1, <1>11, <1>12, <1>13, <1>14, <1>15, CtlStep DEF s

\* a process goes on with r, whatever it had to do before; it makes no entry
CtlNewHyp(l, K2, E, E2, p, s, f, r, f2) ==
  /\ \A d \in File : ~Creating(s, d) /\ ~Creating(r, d) /\ Cnt(r, f2, d) <= Cnt(s, f, d)
  /\ SeqOK(r) /\ UsesOK(r, f2) /\ Asked(l, p, r, E) /\ IsFile(f2)
  /\ AllKeep(E, E2) /\ EntDom(E2) /\ LockStep(E, E2, r, p) /\ Calls1(l, K2)
LEMMA CtlNew ==
  ASSUME NEW l, NEW K, NEW E, NEW T, NEW F, CtlOK(l, K, E, T, F), NEW p \in Procs,
         NEW K2, NEW E2, NEW T2, NEW F2, NEW r, NEW f2,
         Becomes(T, T2, p, r), Becomes(F, F2, p, f2), CtlNewHyp(l, K2, E, E2, p, T[p], F[p], r, f2)
  PROVE  CtlOK(l, K2, E2, T2, F2)
<1>1. /\ \A d \in File : ~Creating(T[p], d) /\ ~Creating(r, d) /\ Cnt(r, f2, d) <= Cnt(T[p], F[p], d)
      /\ SeqOK(r) /\ UsesOK(r, f2) /\ Asked(l, p, r, E) /\ IsFile(f2)
      /\ AllKeep(E, E2) /\ EntDom(E2) /\ LockStep(E, E2, r, p) /\ Calls1(l, K2)
  BY DEF CtlNewHyp
<1>2. EntDom(E)
  BY Ready
<1>3. Asked(l, p, r, E2)
  <2>1. \A k \in 1..Len(r) : r[k].op \in {"remove", "eremove"} => r[k].e \in File
    <3>1. \A k \in 1..Len(r) : Whole(r, k)
      BY <1>1 DEF SeqOK
    <3> QED BY <3>1 DEF Whole, File, OnFile
  <2> QED BY <1>1, <2>1 DEF Asked, AllKeep
<1>4. KeptBut(E, E2, p) /\ CreateStep(E, E2, T[p], r)
  BY <1>1, Calm
<1>5. RefStep(E, E2, T[p], F[p], r, f2)
  BY <1>1, <1>2, CalmRefs
<1>6. OneStep(l, E2, p, r, f2)
  BY <1>1, <1>3 DEF OneStep
<1> QED BY <1>1, <1>4, <1>5, <1>6, CtlStep

\* the steps of sys_open() after the lookup, of sys_remove(), and of the last eput()
OpenedForm(r, e) == /\ IsSeq(r) /\ e \in File
  /\ \/ Len(r) = 2 /\ r[1].op = "eunlock" /\ r[1].e = e /\ r[2].op = "eput" /\ r[2].e = e
     \/ Len(r) = 2 /\ r[1].op = "setfile" /\ r[1].e = e /\ r[2].op = "eunlock" /\ r[2].e = e
     \/ /\ Len(r) = 3 /\ r[1].op = "etrunc" /\ r[1].e = e /\ r[2].op = "setfile" /\ r[2].e = e
        /\ r[3].op = "eunlock" /\ r[3].e = e
RemoveForm(r, e) == /\ IsSeq(r) /\ e \in File
  /\ \/ Len(r) = 2 /\ r[1].op = "eunlock" /\ r[1].e = e /\ r[2].op = "eput" /\ r[2].e = e
     \/ /\ Len(r) = 5 /\ r[1].op = "elock" /\ r[1].e = Root /\ r[2].op = "eremove" /\ r[2].e = e
        /\ r[3].op = "eunlock" /\ r[3].e = Root /\ r[4].op = "eunlock" /\ r[4].e = e
        /\ r[5].op = "eput" /\ r[5].e = e
LastPutForm(r, e) == /\ IsSeq(r) /\ e \in File
  /\ \/ Len(r) = 2 /\ r[1].op = "etrunc" /\ r[1].e = e /\ r[2].op = "drop" /\ r[2].e = e
     \/ /\ Len(r) = 4 /\ r[1].op = "elock" /\ r[1].e = Root /\ r[2].op = "eupdate" /\ r[2].e = e
        /\ r[3].op = "eunlock" /\ r[3].e = Root /\ r[4].op = "drop" /\ r[4].e = e

\* what such a sequence of steps is good for: e is locked throughout, and given up once
Fits(r, e) ==
  /\ SeqOK(r) /\ r # <<>> /\ (\A d \in File : ~Creating(r, d) /\ (Gives(r, d) <=> d = e))
  /\ \A d \in Entry : Holds(r, d) <=> d = e
  /\ \A k \in 1..Len(r) : r[k].op \in {"eunlock", "eput", "setfile", "etrunc", "elock", "eremove", "eupdate", "drop"}
LEMMA FewSteps == ASSUME NEW n, n \in {2, 3, 4, 5} PROVE n # 0 /\ n \in Nat /\ (n \in {3, 4, 5} => n >= 3)
OBVIOUS

LEMMA FormFits ==
  ASSUME NEW r, NEW e, OpenedForm(r, e) \/ RemoveForm(r, e) \/ LastPutForm(r, e)
  PROVE  Fits(r, e)
<1>1. e \in File /\ e # Root /\ e \in Entry /\ Root \in Entry /\ IsSeq(r) /\ Len(r) \in {2, 3, 4, 5} /\ r # <<>>
  <2>1. e \in File /\ IsSeq(r) /\ Len(r) \in {2, 3, 4, 5}
    BY DEF OpenedForm, RemoveForm, LastPutForm
  <2>2. e # Root /\ e \in Entry /\ Root \in Entry
    BY ONLY <2>1, FileEntry
  <2>3. IsSeq(r) /\ Len(r) # 0
    BY ONLY <2>1, FewSteps
  <2>4. r # <<>>
    BY ONLY <2>3, SeqEmpty
  <2> QED BY ONLY <2>1, <2>2, <2>4
<1>2. \A k \in 1..Len(r) : /\ r[k].op \in {"eunlock", "eput", "setfile", "etrunc", "elock", "eremove", "eupdate", "drop"}
                           /\ r[k].e \in {e, Root}
  BY DEF OpenedForm, RemoveForm, LastPutForm
<1>3. ASSUME NEW k \in 1..Len(r) PROVE Whole(r, k) /\ Goes1(r, k) /\ Goes2(r, k) /\ Begins(r, k)
  <2>1. r[k].op \in OnFile => r[k].e # Root
    BY <1>1 DEF OpenedForm, RemoveForm, LastPutForm, OnFile
  <2>2. Whole(r, k)
    BY <1>1, <1>2, <2>1 DEF Whole, Ops, UserStep
  <2>3. Goes1(r, k)
    <3>1. CASE OpenedForm(r, e)
      <4>1. CASE k = 1
        BY <1>1, <3>1, <4>1 DEF OpenedForm, Goes1, Is, LastOps
      <4>2. CASE k = 2
        BY <1>1, <3>1, <4>2 DEF OpenedForm, Goes1, Is, LastOps
      <4>3. CASE k = 3
        BY <1>1, <3>1, <4>3 DEF OpenedForm, Goes1, Is, LastOps
      <4>6. Len(r) = 2 \/ Len(r) = 3
        BY <3>1 DEF OpenedForm
      <4>7. k = 1 \/ k = 2 \/ k = 3
        <5>1. k \in 1..2 \/ k \in 1..3
          BY ONLY <4>6, k \in 1..Len(r), Zenon
        <5> QED BY ONLY <5>1
      <4> QED BY <4>1, <4>2, <4>3, <4>7
    <3>2. CASE RemoveForm(r, e)
      <4>1. CASE k = 1
        BY <1>1, <3>2, <4>1 DEF RemoveForm, Goes1, Is, LastOps
      <4>2. CASE k = 2
        BY <1>1, <3>2, <4>2 DEF RemoveForm, Goes1, Is, LastOps
      <4>3. CASE k = 3
        BY <1>1, <3>2, <4>3 DEF RemoveForm, Goes1, Is, LastOps
      <4>4. CASE k = 4
        BY <1>1, <3>2, <4>4 DEF RemoveForm, Goes1, Is, LastOps
      <4>5. CASE k = 5
        BY <1>1, <3>2, <4>5 DEF RemoveForm, Goes1, Is, LastOps
      <4>6. Len(r) = 2 \/ Len(r) = 5
        BY <3>2 DEF RemoveForm
      <4>7. k = 1 \/ k = 2 \/ k = 3 \/ k = 4 \/ k = 5
        <5>1. k \in 1..2 \/ k \in 1..5
          BY ONLY <4>6, k \in 1..Len(r), Zenon
        <5> QED BY ONLY <5>1
      <4> QED BY <4>1, <4>2, <4>3, <4>4, <4>5, <4>7
    <3>3. CASE LastPutForm(r, e)
      <4>1. CASE k = 1
        BY <1>1, <3>3, <4>1 DEF LastPutForm, Goes1, Is, LastOps
      <4>2. CASE k = 2
        BY <1>1, <3>3, <4>2 DEF LastPutForm, Goes1, Is, LastOps
      <4>3. CASE k = 3
        BY <1>1, <3>3, <4>3 DEF LastPutForm, Goes1, Is, LastOps
      <4>4. CASE k = 4
        BY <1>1, <3>3, <4>4 DEF LastPutForm, Goes1, Is, LastOps
      <4>6. Len(r) = 2 \/ Len(r) = 4
        BY <3>3 DEF LastPutForm
      <4>7. k = 1 \/ k = 2 \/ k = 3 \/ k = 4
        <5>1. k \in 1..2 \/ k \in 1..4
          BY ONLY <4>6, k \in 1..Len(r), Zenon
        <5> QED BY ONLY <5>1
      <4> QED BY <4>1, <4>2, <4>3, <4>4, <4>7
    <3> QED BY <3>1, <3>2, <3>3
  <2>4. Goes2(r, k)
    BY <1>2 DEF Goes2, UserStep, MakeStep
  <2>5. Begins(r, k)
    BY <1>2 DEF Begins
  <2> QED BY <2>2, <2>3, <2>4, <2>5
<1>4. SeqOK(r)
  BY <1>1, <1>3 DEF SeqOK
<1>5. \A d \in File : ~Creating(r, d)
  BY <1>2 DEF Creating, Has
<1>6. ASSUME NEW d \in File PROVE Gives(r, d) <=> d = e
  <2>1. Gives(r, d) => d = e
    BY <1>1 DEF OpenedForm, RemoveForm, LastPutForm, Gives, Has, RefOps
  <2>2. \E k \in 1..Len(r) : r[k].op \in RefOps /\ r[k].e = e
    <3>1. CASE OpenedForm(r, e)
      BY <3>1 DEF OpenedForm, RefOps
    <3>2. CASE RemoveForm(r, e)
      <4>1. Len(r) = 2 \/ Len(r) = 5
        BY <3>2 DEF RemoveForm
      <4>2. r[Len(r)].op = "eput" /\ r[Len(r)].e = e /\ Len(r) \in 1..Len(r)
        BY <3>2, <4>1 DEF RemoveForm
      <4> QED BY <4>2 DEF RefOps
    <3>3. CASE LastPutForm(r, e)
      <4>1. Len(r) = 2 \/ Len(r) = 4
        BY <3>3 DEF LastPutForm
      <4>2. r[Len(r)].op = "drop" /\ r[Len(r)].e = e /\ Len(r) \in 1..Len(r)
        BY <3>3, <4>1 DEF LastPutForm
      <4> QED BY <4>2 DEF RefOps
    <3> QED BY <3>1, <3>2, <3>3
  <2> QED BY <2>1, <2>2 DEF Gives, Has
<1>7. ASSUME NEW d \in Entry PROVE Holds(r, d) <=> d = e
  <2>1. CASE r[1].op = "elock"
    <3>1. r[1].e = Root /\ r[2].op \in {"eremove", "eupdate"} /\ r[2].e = e /\ Len(r) >= 2
      BY <2>1 DEF OpenedForm, RemoveForm, LastPutForm
    <3> QED BY <1>1, <1>5, <2>1, <3>1, HoldsIs DEF LockedOps, Is
  <2>2. CASE r[1].op # "elock"
    <3>1. r[1].e = e /\ r[1].op \in {"eunlock", "setfile", "etrunc"}
      BY <2>2 DEF OpenedForm, RemoveForm, LastPutForm
    <3> QED BY <1>1, <1>5, <3>1, HoldsIs DEF LockedOps
  <2> QED BY <2>1, <2>2
<1> QED BY <1>1, <1>2, <1>4, <1>5, <1>6, <1>7 DEF Fits

LEMMA CtlOpenedRemove ==
  ASSUME NEW l, NEW K, NEW E, NEW T, NEW F, CtlOK(l, K, E, T, F), NEW p \in Procs, NEW T2, NEW r,
         T[p] # <<>>, \/ T[p][1].op = "opened" /\ OpenedForm(r, T[p][1].e)
                      \/ T[p][1].op = "remove" /\ RemoveForm(r, T[p][1].e),
         Becomes(T, T2, p, r)
  PROVE  CtlOK(l, K, E, T2, F)
<1> DEFINE s == T[p]
           e == s[1].e
<1>1. /\ SeqOK(s) /\ UsesOK(s, F[p]) /\ Asked(l, p, s, E) /\ EntDom(E) /\ Calls1(l, K)
      /\ (\A d \in Entry : E[d].lock = p <=> Holds(s, d)) /\ Becomes(F, F, p, F[p]) /\ IsFile(F[p])
  BY Ready
<1>2. Fits(r, e)
  BY FormFits
<1>3. /\ Whole(s, 1) /\ Len(s) \in Nat /\ 1 \in 1..Len(s)
  BY <1>1, FirstIs
<1>4. e \in File /\ e # Root
  BY FileEntry DEF OpenedForm, RemoveForm
<1>5. \A d \in File : ~Creating(s, d)
  BY <1>1, NoValid DEF MakeOps
<1>6. LockStep(E, E, r, p)
  <2>1. \A d \in Entry : Holds(s, d) <=> d = e
    BY <1>4, <1>5, HoldsIs DEF LockedOps
  <2> QED BY <1>2, <2>1, LockSame DEF Fits
<1>7. AllKeep(E, E)
  BY DEF AllKeep, Alike
<1>8. Gives(s, e)
  BY <1>3 DEF Gives, Has, RefOps
<1>9. \A d \in File : Cnt(r, F[p], d) <= Cnt(s, F[p], d)
  BY <1>2, <1>8 DEF Cnt, One, Fits
<1>10. UsesOK(r, F[p])
  <2>1. \A k \in 1..Len(r) : r[k].e # Root => r[k].e = e
    BY DEF OpenedForm, RemoveForm
  <2>2. Gives(r, e)
    BY <1>2, <1>4 DEF Fits
  <2> QED BY <1>2, <2>1, <2>2 DEF UsesOK, Fits, UserStep
<1>11. Asked(l, p, r, E)
  <2>1. ASSUME NEW k \in 1..Len(r), r[k].op \in {"remove", "eremove"} PROVE E[r[k].e].name \in Removed(l)
    <3>1. s[1].op = "remove" /\ r[k].e = e
      BY <1>2, <2>1 DEF OpenedForm, RemoveForm, Fits
    <3> QED BY <3>1, <1>1, <1>3 DEF Asked
  <2> QED BY <1>2, <2>1 DEF Asked, Fits
<1>12. CtlNewHyp(l, K, E, E, p, s, F[p], r, F[p])
  BY <1>1, <1>2, <1>5, <1>6, <1>7, <1>9, <1>10, <1>11 DEF CtlNewHyp, Fits
<1> QED BY <1>1, <1>12, CtlNew

LEMMA CtlLastPut ==
  ASSUME NEW l, NEW K, NEW E, NEW T, NEW F, CtlOK(l, K, E, T, F), NEW p \in Procs, NEW E2, NEW T2, NEW r,
         T[p] # <<>>, T[p][1].op = "eput", LastPutForm(r, T[p][1].e),
         E[T[p][1].e].lock = NoProc, LockedBy(E, E2, T[p][1].e, p), Becomes(T, T2, p, r)
  PROVE  CtlOK(l, K, E2, T2, F)
<1> DEFINE s == T[p]
           e == s[1].e
<1>1. /\ SeqOK(s) /\ UsesOK(s, F[p]) /\ EntDom(E) /\ Calls1(l, K)
      /\ (\A d \in Entry : E[d].lock = p <=> Holds(s, d)) /\ Becomes(F, F, p, F[p]) /\ IsFile(F[p])
  BY Ready
<1>2. Fits(r, e)
  BY FormFits
<1>3. /\ Whole(s, 1) /\ Len(s) \in Nat /\ 1 \in 1..Len(s)
  BY <1>1, FirstIs
<1>4. e \in File /\ e # Root /\ e \in Entry
  BY FileEntry DEF LastPutForm
<1>5. \A d \in File : ~Creating(s, d)
  BY <1>1, NoValid DEF MakeOps
<1>6. LockStep(E, E2, r, p)
  <2>1. \A d \in Entry : ~Holds(s, d)
    BY <1>5, HoldsIs DEF LockedOps
  <2>2. \A d \in Entry : Holds(r, d) <=> d = e
    BY <1>2 DEF Fits
  <2> QED BY <2>1, <2>2, <1>4, LockOne DEF LockedBy
<1>7. AllKeep(E, E2) /\ EntDom(E2)
  BY AlikeKeep DEF LockedBy
<1>8. Gives(s, e)
  BY <1>3 DEF Gives, Has, RefOps
<1>9. \A d \in File : Cnt(r, F[p], d) <= Cnt(s, F[p], d)
  BY <1>2, <1>8 DEF Cnt, One, Fits
<1>10. UsesOK(r, F[p])
  <2>1. \A k \in 1..Len(r) : r[k].e # Root => r[k].e = e
    BY DEF LastPutForm
  <2>2. Gives(r, e)
    BY <1>2, <1>4 DEF Fits
  <2> QED BY <1>2, <2>1, <2>2 DEF UsesOK, Fits, UserStep
<1>11. Asked(l, p, r, E)
  BY <1>2 DEF Asked, Fits, LastPutForm
<1>12. CtlNewHyp(l, K, E, E2, p, s, F[p], r, F[p])
  BY <1>1, <1>2, <1>5, <1>6, <1>7, <1>9, <1>10, <1>11 DEF CtlNewHyp, Fits
<1> QED BY <1>1, <1>12, CtlNew

LEMMA TwoUse ==
  ASSUME NEW l, NEW K, NEW E, NEW T, NEW F, CtlOK(l, K, E, T, F), NEW e \in File,
         NEW p \in Procs, NEW q \in Procs, p # q, Gives(T[p], e), Gives(T[q], e) \/ FileIs(F[q], e)
  PROVE  E[e].ref >= 2
<1>1. E[e].ref >= Cardinality(Openers(F, e)) + Cardinality(Givers(T, e))
  BY DEF CtlOK, Refs
<1>2. E[e].ref \in Nat
  BY FileEntry DEF CtlOK, EntDom
<1>3. IsFiniteSet(Openers(F, e)) /\ IsFiniteSet(Givers(T, e))
  BY ProcsAssumption, FS_Subset DEF Openers, Givers
<1>4. Cardinality(Openers(F, e)) \in Nat /\ Cardinality(Givers(T, e)) \in Nat
  BY <1>3, FS_CardinalityType
<1>5. CASE Gives(T[q], e)
  <2>1. {p, q} \subseteq Givers(T, e)
    BY <1>5 DEF Givers
  <2>2. IsFiniteSet({p, q}) /\ Cardinality({p, q}) = 2
    <3>1. IsFiniteSet({p}) /\ Cardinality({p}) = 1
      BY FS_Singleton
    <3>2. IsFiniteSet({p} \cup {q}) /\ Cardinality({p} \cup {q}) = 2
      <4> DEFINE S == {p}
      <4>1. q \notin S
        OBVIOUS
      <4>2. IsFiniteSet(S) /\ Cardinality(S) = 1
        BY <3>1
      <4> HIDE DEF S
      <4>3. IsFiniteSet(S \cup {q}) /\ Cardinality(S \cup {q}) = Cardinality(S) + 1
        BY ONLY <4>1, <4>2, FS_AddElement
      <4> QED BY <4>2, <4>3 DEF S
    <3>3. {p} \cup {q} = {p, q}
      OBVIOUS
    <3> QED BY <3>2, <3>3
  <2>3. Cardinality(Givers(T, e)) >= 2
    BY <1>3, <1>4, <2>1, <2>2, FS_Subset
  <2> QED BY <1>1, <1>2, <1>4, <2>3
<1>6. CASE FileIs(F[q], e)
  <2>1. Openers(F, e) # {} /\ Givers(T, e) # {}
    BY <1>6 DEF Openers, Givers
  <2>2. Cardinality(Openers(F, e)) # 0 /\ Cardinality(Givers(T, e)) # 0
    BY <1>3, <2>1, FS_EmptySet
  <2> QED BY <1>1, <1>2, <1>4, <2>2
<1> QED BY <1>5, <1>6

\* one that has more references than the one that is given up, or that was made, is made
LEMMA PutMade ==
  ASSUME NEW l, NEW K, NEW E, NEW T, NEW F, CtlOK(l, K, E, T, F), NEW p \in Procs,
         T[p] # <<>>, T[p][1].op \in {"eput", "drop"}
  PROVE  T[p][1].e \in File /\ E[T[p][1].e].valid # 0 /\ E[T[p][1].e].ref > 0 /\ Len(T[p]) = 1
<1> DEFINE s == T[p]
           e == s[1].e
<1>1. SeqOK(s)
  BY Ready
<1>2. Whole(s, 1) /\ Goes1(s, 1) /\ 1 \in 1..Len(s)
  BY <1>1, FirstIs
<1>3. e # Root /\ Len(s) = 1
  BY <1>2 DEF Whole, OnFile, Goes1, LastOps
<1>4. e \in File /\ E[e].ref > 0
  BY <1>3, HeadUsed
<1>5. E[e].valid # 0
  <2> SUFFICES ASSUME E[e].valid = 0 PROVE FALSE
    OBVIOUS
  <2>1. PICK q \in Procs : Creating(T[q], e)
    BY <1>4 DEF CtlOK, States
  <2>2. E[e].ref = 1
    BY <1>4, <2>1 DEF CtlOK, States
  <2>3. ~Creating(s, e)
    BY <1>1, NoValid DEF MakeOps
  <2>4. Gives(T[q], e) \/ FileIs(F[q], e)
    <3>1. PICK v \in 1..Len(T[q]) : T[q][v].op = "valid" /\ T[q][v].e = e
      BY <2>1 DEF Creating, Has
    <3>2. UsesOK(T[q], F[q])
      BY Ready
    <3> QED BY <1>3, <3>1, <3>2 DEF UsesOK
  <2>5. Gives(s, e)
    BY <1>2 DEF Gives, Has, RefOps
  <2> HIDE DEF e, s
  <2>6. E[e].ref >= 2
    BY <1>4, <2>1, <2>3, <2>4, <2>5, TwoUse DEF s
  <2> QED BY <2>2, <2>6
<1> QED BY <1>3, <1>4, <1>5

\* e has one reference less, and may not be locked any more
Decs(E, E2, e) ==
  /\ EntDom(E2) /\ E2[e].ref = E[e].ref - 1 /\ E2[e].valid = E[e].valid /\ E2[e].name = E[e].name
  /\ \A d \in Entry : d # e => E2[d] = E[d]
LEMMA CtlGive ==
  ASSUME NEW l, NEW K, NEW E, NEW T, NEW F, CtlOK(l, K, E, T, F), NEW p \in Procs, NEW E2, NEW T2,
         T[p] # <<>>, Decs(E, E2, T[p][1].e), Becomes(T, T2, p, <<>>),
         \/ T[p][1].op = "eput" /\ E2[T[p][1].e].lock = E[T[p][1].e].lock
         \/ T[p][1].op = "drop" /\ E2[T[p][1].e].lock = NoProc
  PROVE  CtlOK(l, K, E2, T2, F)
<1> DEFINE s == T[p]
           e == s[1].e
<1>1. /\ SeqOK(s) /\ UsesOK(s, F[p]) /\ EntDom(E) /\ Calls1(l, K)
      /\ (\A d \in Entry : E[d].lock = p <=> Holds(s, d)) /\ Becomes(F, F, p, F[p]) /\ IsFile(F[p])
  BY Ready
<1>2. e \in File /\ e \in Entry /\ e # Root /\ E[e].valid # 0 /\ E[e].ref > 0 /\ Len(s) = 1
  BY PutMade, FileEntry
<1>3. IsSeq(<<>>) /\ Len(<<>>) = 0
  BY Tup0
<1>4. SeqOK(<<>>) /\ UsesOK(<<>>, F[p]) /\ Asked(l, p, <<>>, E2)
  BY <1>3 DEF SeqOK, UsesOK, Asked
<1>5. \A d : ~Creating(<<>>, d) /\ ~Gives(<<>>, d)
  BY <1>3 DEF Creating, Gives, Has
<1>6. \A d \in File : ~Creating(s, d)
  BY <1>1, NoValid DEF MakeOps
<1>7. Gives(s, e)
  BY <1>2 DEF Gives, Has, RefOps
<1>8. LockStep(E, E2, <<>>, p)
  <2>1. \A d \in Entry : ~Holds(<<>>, d)
    BY HoldsNone
  <2>2. CASE s[1].op = "eput"
    <3>1. \A d \in Entry : ~Holds(s, d)
      BY <1>6, <2>2, HoldsIs DEF LockedOps
    <3>2. \A d \in Entry : E2[d].lock = E[d].lock
      BY <2>2 DEF Decs
    <3> QED BY <2>1, <3>1, <3>2, LockSame
  <2>3. CASE s[1].op = "drop"
    <3>1. \A d \in Entry : Holds(s, d) <=> d = e
      BY <1>2, <1>6, <2>3, HoldsIs DEF LockedOps
    <3>2. E[e].lock = p /\ E2[e].lock = NoProc /\ NoProc # p
      BY <1>1, <1>2, <3>1, <2>3, ProcsAssumption
    <3>3. E[e].lock \in {p, NoProc} /\ E2[e].lock \in {p, NoProc} /\ (E2[e].lock = p <=> Holds(<<>>, e))
      BY <1>2, <2>1, <3>2
    <3>4. \A d \in Entry : d # e => E2[d].lock = E[d].lock /\ (Holds(<<>>, d) <=> Holds(s, d))
      BY <2>1, <3>1 DEF Decs
    <3> HIDE DEF e, s
    <3> QED BY <3>3, <3>4, <1>2, LockOne DEF s
  <2> QED BY <2>2, <2>3
<1>9. KeptBut(E, E2, p)
  <2>1. \A d \in File : d # e => E2[d] = E[d]
    BY FileEntry DEF Decs
  <2> QED BY <1>2, <2>1 DEF KeptBut, Decs
<1>10. CreateStep(E, E2, s, <<>>)
  <2>1. \A d \in File : d # e => E2[d] = E[d]
    BY FileEntry DEF Decs
  <2>2. \A d \in File : CreateOK(<<>>, d, E2[d])
    BY <1>3 DEF CreateOK
  <2> QED BY <1>2, <1>5, <1>6, <2>1, <2>2 DEF CreateStep, Decs
<1>11. RefStep(E, E2, s, F[p], <<>>, F[p])
  <2> SUFFICES ASSUME NEW d \in File
               PROVE  E2[d].ref - Cnt(<<>>, F[p], d) >= E[d].ref - Cnt(s, F[p], d)
    BY DEF RefStep
  <2>1. E[d].ref \in Nat
    BY <1>1, FileEntry DEF EntDom
  <2>2. d # e => E2[d] = E[d]
    BY FileEntry DEF Decs
  <2>3. CASE d = e
    BY <2>1, <2>3, <1>5, <1>7 DEF Cnt, One, Decs
  <2>4. CASE d # e
    BY <2>1, <2>2, <2>4, <1>5 DEF Cnt, One
  <2> QED BY <2>3, <2>4
<1>12. OneStep(l, E2, p, <<>>, F[p])
  BY <1>1, <1>4 DEF OneStep
<1> HIDE DEF e, s
<1>13. EntDom(E2)
  BY DEF Decs
<1> QED BY <1>1, <1>8, <1>9, <1>10, <1>11, <1>12, <1>13, CtlStep DEF s

LEMMA CallsTail ==
  ASSUME NEW l, NEW K, Calls1(l, K), NEW p \in Procs, K[p] # <<>>, NEW K2, NEW k2, k2 = Tail(K[p]), Becomes(K, K2, p, k2)
  PROVE  Calls1(l, K2) /\ Head(K[p]) \in CallsOf(l, p)
<1>1. IsSeq(K[p]) /\ Len(K[p]) >= 1 /\ Len(K[p]) \in Nat /\ \A k \in 1..Len(K[p]) : K[p][k] \in CallsOf(l, p)
  BY SeqEmpty DEF Calls1, AreCalls, IsSeq
<1>2. IsSeq(k2) /\ Len(k2) = Len(K[p]) - 1 /\ \A k \in 1..(Len(K[p]) - 1) : k2[k] = K[p][k + 1]
  BY <1>1, TailIs
<1>3. \A k \in 1..Len(k2) : k2[k] \in CallsOf(l, p)
  <2> SUFFICES ASSUME NEW k \in 1..Len(k2) PROVE k2[k] \in CallsOf(l, p)
    OBVIOUS
  <2>1. k \in 1..(Len(K[p]) - 1) /\ k + 1 \in 1..Len(K[p])
    BY <1>1, <1>2
  <2> QED BY <2>1, <1>1, <1>2
<1>4. Head(K[p]) = K[p][1] /\ 1 \in 1..Len(K[p])
  BY <1>1
<1>5. AreCalls(l, p, k2)
  BY <1>2, <1>3 DEF AreCalls
<1>6. Calls1(l, K2)
  BY <1>5 DEF Calls1, Becomes
<1> QED BY <1>1, <1>4, <1>6

\* a process begins a call with the steps r
StartOK(l, p, E, r, f, f2) ==
  /\ SeqOK(r) /\ UsesOK(r, f2) /\ Asked(l, p, r, E) /\ IsFile(f2)
  /\ \A d \in File : ~Creating(r, d) /\ (FileIs(f2, d) => FileIs(f, d)) /\ (Gives(r, d) => FileIs(f, d) /\ ~FileIs(f2, d))
  /\ \A d \in Entry : ~Holds(r, d)
LEMMA CtlCall ==
  ASSUME NEW l, NEW K, NEW E, NEW T, NEW F, CtlOK(l, K, E, T, F), NEW p \in Procs,
         NEW K2, NEW E2, NEW T2, NEW F2, NEW r, NEW f2,
         T[p] = <<>>, Becomes(T, T2, p, r), Becomes(F, F2, p, f2), StartOK(l, p, E, r, F[p], f2),
         Calls1(l, K2), EntDom(E2), AllAlike(E, E2), \A d \in Entry : E2[d].lock = E[d].lock
  PROVE  CtlOK(l, K2, E2, T2, F2)
<1>1. ~Creating(T[p], 0) /\ \A d : ~Creating(T[p], d) /\ ~Gives(T[p], d)
  BY Tup0 DEF Creating, Gives, Has
<1>2. \A d \in Entry : ~Holds(T[p], d)
  BY HoldsNone
<1>3. LockStep(E, E2, r, p)
  BY <1>2, LockSame DEF StartOK
<1>4. AllKeep(E, E2)
  BY AlikeKeep
<1>5. \A d \in File : Cnt(r, f2, d) <= Cnt(T[p], F[p], d)
  BY <1>1 DEF StartOK, Cnt, One
<1>6. CtlNewHyp(l, K2, E, E2, p, T[p], F[p], r, f2)
  BY <1>1, <1>3, <1>4, <1>5 DEF CtlNewHyp, StartOK
<1> QED BY <1>6, CtlNew

LEMMA StartNone ==
  ASSUME NEW l, NEW p, NEW E, NEW f, NEW f2, IsFile(f2), \A d \in File : FileIs(f2, d) => FileIs(f, d)
  PROVE  StartOK(l, p, E, <<>>, f, f2)
<1>1. IsSeq(<<>>) /\ Len(<<>>) = 0
  BY Tup0
<1>2. SeqOK(<<>>) /\ UsesOK(<<>>, f2) /\ Asked(l, p, <<>>, E)
  BY <1>1 DEF SeqOK, UsesOK, Asked
<1>3. \A d : ~Creating(<<>>, d) /\ ~Gives(<<>>, d)
  BY <1>1 DEF Creating, Gives, Has
<1> QED BY <1>2, <1>3, HoldsNone DEF StartOK

LEMMA StartName ==
  ASSUME NEW l, NEW p, NEW E, NEW f, IsFile(f), NEW r, IsSeq(r), Len(r) = 2, r[1].op = "elock", r[1].e = Root,
         r[2].op = "lookup", r[2].c \in CallsOf(l, p), r[2].c.k \in {"open", "mkdir", "remove"}
  PROVE  StartOK(l, p, E, r, f, f)
<1>1. \A k \in 1..Len(r) : k = 1 \/ k = 2
  OBVIOUS
<1>2. r # <<>>
  BY SeqEmpty
<1>3. \A d : ~Creating(r, d) /\ ~Gives(r, d)
  BY <1>1 DEF Creating, Gives, Has, RefOps
<1>4. \A d \in Entry : ~Holds(r, d)
  BY <1>2, <1>3, HoldsIs DEF LockedOps, Is
<1>5. SeqOK(r)
  <2>1. IsOK(r, 1)
    <3>1. Whole(r, 1)
      BY FileEntry DEF Whole, OnFile, Ops, UserStep
    <3>2. Goes1(r, 1)
      BY DEF Goes1, LastOps
    <3>3. Goes2(r, 1) /\ Begins(r, 1)
      BY DEF Goes2, Begins, UserStep, MakeStep
    <3> QED BY <3>1, <3>2, <3>3 DEF IsOK
  <2>2. IsOK(r, 2)
    <3>1. Whole(r, 2)
      BY FileEntry DEF Whole, OnFile, Ops, UserStep
    <3>2. Goes1(r, 2)
      BY DEF Goes1, LastOps
    <3>3. Goes2(r, 2) /\ Begins(r, 2)
      BY DEF Goes2, Begins, UserStep, MakeStep
    <3> QED BY <3>1, <3>2, <3>3 DEF IsOK
  <2> QED BY <1>1, <2>1, <2>2, PartsSeq
<1>6. UsesOK(r, f)
  BY <1>1 DEF UsesOK, UserStep
<1>7. Asked(l, p, r, E)
  BY <1>1 DEF Asked
<1> QED BY <1>3, <1>4, <1>5, <1>6, <1>7 DEF StartOK

LEMMA StartWrite ==
  ASSUME NEW l, NEW p, NEW E, NEW f, IsFile(f), NEW r, IsSeq(r), Len(r) = 2, NEW e \in File, FileIs(f, e),
         r[1].op = "elock", r[1].e = e, r[2].op = "ewrite", r[2].e = e, IsSeq(r[2].bytes)
  PROVE  StartOK(l, p, E, r, f, f)
<1>0. e # Root /\ e \in Entry
  BY FileEntry
<1>1. \A k \in 1..Len(r) : k = 1 \/ k = 2
  OBVIOUS
<1>2. r # <<>>
  BY ONLY IsSeq(r), Len(r) = 2, SeqEmpty
<1>3. \A d : ~Creating(r, d) /\ ~Gives(r, d)
  BY <1>1 DEF Creating, Gives, Has, RefOps
<1>4. \A d \in Entry : ~Holds(r, d)
  BY <1>0, <1>2, <1>3, HoldsIs DEF LockedOps, Is
<1>5. SeqOK(r)
  <2>1. IsOK(r, 1)
    <3>1. Whole(r, 1)
      BY <1>0 DEF Whole, OnFile, Ops, UserStep
    <3>2. Goes1(r, 1)
      BY <1>0 DEF Goes1, LastOps, Is
    <3>3. Goes2(r, 1) /\ Begins(r, 1)
      BY DEF Goes2, Begins, UserStep, MakeStep
    <3> QED BY <3>1, <3>2, <3>3 DEF IsOK
  <2>2. IsOK(r, 2)
    <3>1. Whole(r, 2)
      BY <1>0 DEF Whole, OnFile, Ops, UserStep
    <3>2. Goes1(r, 2)
      BY DEF Goes1, LastOps
    <3>3. Goes2(r, 2) /\ Begins(r, 2)
      BY DEF Goes2, Begins, UserStep, MakeStep
    <3> QED BY <3>1, <3>2, <3>3 DEF IsOK
  <2> QED BY <1>1, <2>1, <2>2, PartsSeq
<1>6. UsesOK(r, f)
  BY <1>1 DEF UsesOK, UserStep
<1>7. Asked(l, p, r, E)
  BY <1>1 DEF Asked
<1> QED BY <1>3, <1>4, <1>5, <1>6, <1>7 DEF StartOK

LEMMA StartClose ==
  ASSUME NEW l, NEW p, NEW E, NEW f, NEW r, IsSeq(r), Len(r) = 1, NEW e \in File, FileIs(f, e),
         r[1].op = "eput", r[1].e = e
  PROVE  StartOK(l, p, E, r, f, None)
<1>0. e # Root /\ e \in Entry
  BY FileEntry
<1>1. \A k \in 1..Len(r) : k = 1
  OBVIOUS
<1>2. r # <<>>
  BY ONLY IsSeq(r), Len(r) = 1, SeqEmpty
<1>3. (\A d : ~Creating(r, d) /\ (Gives(r, d) => d = e)) /\ Gives(r, e) /\ \A d : ~FileIs(None, d)
  BY <1>1 DEF Creating, Gives, Has, RefOps, FileIs
<1>4. \A d \in Entry : ~Holds(r, d)
  BY <1>0, <1>2, <1>3, HoldsIs DEF LockedOps, Is
<1>5. SeqOK(r)
  <2>1. Whole(r, 1)
    BY <1>0 DEF Whole, OnFile, Ops, UserStep
  <2>2. Goes1(r, 1)
    BY <1>0 DEF Goes1, LastOps, Is
  <2>3. Goes2(r, 1) /\ Begins(r, 1)
    BY DEF Goes2, Begins, UserStep, MakeStep
  <2> QED BY <1>1, <2>1, <2>2, <2>3 DEF SeqOK
<1>6. UsesOK(r, None)
  BY <1>1, <1>3 DEF UsesOK, UserStep
<1>7. Asked(l, p, r, E)
  BY <1>1 DEF Asked
<1>8. IsFile(None)
  BY DEF IsFile
<1> QED BY <1>3, <1>4, <1>5, <1>6, <1>7, <1>8 DEF StartOK

\* the steps of ewrite()
EwriteForm(r, e) ==
  /\ IsSeq(r) /\ e \in File /\ Len(r) >= 1 /\ r[Len(r)].op = "eunlock" /\ r[Len(r)].e = e
  /\ Len(r) > 1 => r[Len(r) - 1].op = "wrote" /\ r[Len(r) - 1].e = e /\ r[Len(r) - 1].off \in Nat
  /\ \A k \in 1..(Len(r) - 2) : r[k].e = e /\
       \/ UserStep(r[k]) /\ r[k].off \in Nat
       \/ k = 1 /\ r[k].op = "alloc" /\ r[k].sec = 0 /\ r[k].how = "write"
FitsWrite(r, e) ==
  /\ SeqOK(r) /\ r # <<>> /\ (\A d : ~Creating(r, d) /\ ~Gives(r, d))
  /\ (\A d \in Entry : Holds(r, d) <=> d = e)
  /\ \A k \in 1..Len(r) : r[k].e = e /\ r[k].op \in {"eunlock", "wrote", "store", "alloc"}
LEMMA EwriteFits ==
  ASSUME NEW r, NEW e, EwriteForm(r, e)
  PROVE  FitsWrite(r, e)
<1>1. e \in File /\ e # Root /\ e \in Entry /\ IsSeq(r) /\ Len(r) \in Nat /\ Len(r) >= 1 /\ r # <<>>
  <2>1. e \in File /\ IsSeq(r) /\ Len(r) >= 1
    BY DEF EwriteForm
  <2> QED BY <2>1, FileEntry, SeqEmpty DEF IsSeq
<1>2. ASSUME NEW k \in 1..Len(r)
      PROVE  \/ k = Len(r) /\ r[k].op = "eunlock" /\ r[k].e = e
             \/ k + 1 = Len(r) /\ r[k].op = "wrote" /\ r[k].e = e /\ r[k].off \in Nat
             \/ k + 2 <= Len(r) /\ UserStep(r[k]) /\ r[k].off \in Nat /\ r[k].e = e
             \/ k + 2 <= Len(r) /\ k = 1 /\ r[k].op = "alloc" /\ r[k].sec = 0 /\ r[k].how = "write" /\ r[k].e = e
  <2>1. k = Len(r) \/ k = Len(r) - 1 \/ k \in 1..(Len(r) - 2)
    BY <1>1
  <2>2. Len(r) > 1 \/ k = Len(r)
    BY <1>1
  <2>3. k \in 1..(Len(r) - 2) => k + 2 <= Len(r)
    BY <1>1
  <2> QED BY <2>1, <2>2, <2>3, <1>1 DEF EwriteForm
<1>3. ASSUME NEW k \in 1..Len(r), k + 2 <= Len(r) PROVE Writes(r, k + 1, e)
  <2>1. k + 1 \in 1..Len(r) /\ k + 1 # Len(r) /\ k + 1 # 1
    BY <1>1, <1>3
  <2>2. \/ r[k + 1].op = "wrote" /\ r[k + 1].e = e
        \/ UserStep(r[k + 1]) /\ r[k + 1].e = e
    BY <2>1, <1>2
  <2> QED BY <2>1, <2>2 DEF Writes, Is, UserStep
<1>4. ASSUME NEW k \in 1..Len(r) PROVE IsOK(r, k)
  <2>1. CASE k = Len(r) /\ r[k].op = "eunlock" /\ r[k].e = e
    BY <2>1, <1>1 DEF IsOK, Whole, Goes1, Goes2, Begins, OnFile, Ops, LastOps, UserStep, MakeStep
  <2>2. CASE k + 1 = Len(r) /\ r[k].op = "wrote" /\ r[k].e = e /\ r[k].off \in Nat
    <3>1. Is(r, k + 1, "eunlock", e)
      BY <2>2, <1>1 DEF Is, EwriteForm
    <3> QED BY <2>2, <3>1, <1>1 DEF IsOK, Whole, Goes1, Goes2, Begins, OnFile, Ops, LastOps, UserStep, MakeStep
  <2>3. CASE k + 2 <= Len(r) /\ UserStep(r[k]) /\ r[k].off \in Nat /\ r[k].e = e
    BY <2>3, <1>3, <1>1 DEF IsOK, Whole, Goes1, Goes2, Begins, OnFile, Ops, LastOps, UserStep, MakeStep
  <2>4. CASE k + 2 <= Len(r) /\ k = 1 /\ r[k].op = "alloc" /\ r[k].sec = 0 /\ r[k].how = "write" /\ r[k].e = e
    <3>1. 0 \in 0..(FATSZ - 1)
      BY SizesAssumption
    <3>2. Whole(r, k) /\ Goes1(r, k) /\ Goes2(r, k)
      BY <2>4, <1>1 DEF Whole, Goes1, Goes2, OnFile, Ops, LastOps, UserStep, MakeStep
    <3>3. Begins(r, k)
      BY <2>4, <1>3, <1>1, <3>1 DEF Begins
    <3> QED BY <3>2, <3>3 DEF IsOK
  <2> QED BY <1>2, <2>1, <2>2, <2>3, <2>4
<1>5. SeqOK(r)
  BY <1>1, <1>4, PartsSeq
<1>6. \A k \in 1..Len(r) : r[k].e = e /\ r[k].op \in {"eunlock", "wrote", "store", "alloc"}
  BY <1>2 DEF UserStep
<1>7. \A d : ~Creating(r, d) /\ ~Gives(r, d)
  BY <1>6 DEF Creating, Gives, Has, RefOps
<1>8. \A d \in Entry : Holds(r, d) <=> d = e
  <2>1. 1 \in 1..Len(r)
    BY <1>1
  <2> QED BY <1>1, <1>6, <1>7, <2>1, HoldsIs DEF LockedOps
<1> QED BY <1>1, <1>5, <1>6, <1>7, <1>8 DEF FitsWrite

\* a process that writes a file, from one step on
WritesFile(s, e) == s # <<>> /\ s[1].e = e /\ e \in File /\
  (s[1].op = "ewrite" \/ UserStep(s[1]) \/ (s[1].op \in {"alloc", "link"} /\ Writes(s, 2, e)))
LEMMA WriterFile ==
  ASSUME NEW l, NEW K, NEW E, NEW T, NEW F, CtlOK(l, K, E, T, F), NEW p \in Procs, NEW e, WritesFile(T[p], e)
  PROVE  FileIs(F[p], e)
<1> DEFINE s == T[p]
<1>1. SeqOK(s) /\ UsesOK(s, F[p])
  BY Ready
<1>2. 1 \in 1..Len(s) /\ Len(s) \in Nat /\ s # <<>>
  BY <1>1, FirstIs DEF WritesFile
<1>3. e \in File /\ e \in Entry /\ e # Root
  BY FileEntry DEF WritesFile
<1>6. FileIs(F[p], e)
  <2>1. CASE s[1].op = "ewrite" \/ UserStep(s[1])
    BY <1>1, <1>2, <2>1 DEF UsesOK, WritesFile
  <2>2. CASE s[1].op \in {"alloc", "link"} /\ Writes(s, 2, e)
    <3>1. 2 \in 1..Len(s) /\ s[2].e = e /\ (s[2].op = "wrote" \/ UserStep(s[2]))
      BY <2>2 DEF Writes, Is
    <3> QED BY <1>1, <3>1 DEF UsesOK
  <2> QED BY <2>1, <2>2 DEF WritesFile
<1> QED BY <1>6
LEMMA WriterIs ==
  ASSUME NEW l, NEW K, NEW E, NEW T, NEW F, CtlOK(l, K, E, T, F), NEW p \in Procs, NEW e, WritesFile(T[p], e)
  PROVE  /\ \A d \in File : ~Creating(T[p], d)
         /\ \A d \in Entry : Holds(T[p], d) <=> d = e
         /\ FileIs(F[p], e) /\ e \in Entry /\ e # Root /\ E[e].lock = p /\ E[e].valid # 0 /\ E[e].ref > 0
<1> DEFINE s == T[p]
<1>1. /\ SeqOK(s) /\ UsesOK(s, F[p])
      /\ (\A d \in Entry : E[d].lock = p <=> Holds(s, d))
  BY Ready
<1>2. 1 \in 1..Len(s) /\ Len(s) \in Nat /\ s # <<>>
  BY <1>1, FirstIs DEF WritesFile
<1>3. e \in File /\ e \in Entry /\ e # Root
  BY FileEntry DEF WritesFile
<1>4. ASSUME NEW d \in File PROVE ~Creating(s, d)
  <2> SUFFICES ASSUME Creating(s, d) PROVE FALSE
    OBVIOUS
  <2>1. PICK v \in 1..Len(s) : s[v].op = "valid" /\ s[v].e = d
    BY DEF Creating, Has
  <2>2. CreateOK(s, d, E[d])
    BY DEF CtlOK
  <2>3. s[1].op # "valid"
    BY DEF WritesFile, UserStep
  <2>4. 1 \in 1..(v-1)
    BY <2>1, <2>3, <1>2
  <2>5. Makes(s, 1, v, d, E[d])
    BY <2>1, <2>2, <2>4 DEF CreateOK
  <2>6. CASE s[1].op = "ewrite" \/ UserStep(s[1])
    BY <2>5, <2>6 DEF Makes, MakeStep, UserStep
  <2>7. CASE s[1].op \in {"alloc", "link"} /\ Writes(s, 2, e)
    <3>1. 2 \in 1..Len(s) /\ s[2].op \in {"wrote", "store"} /\ (s[2].op = "store" => UserStep(s[2]))
      BY <2>7 DEF Writes, Is
    <3>2. 2 \in 1..(v-1) /\ v # 2
      <4>1. v # 2 /\ v # 1
        BY <3>1, <2>1, <2>3
      <4> QED BY <4>1, <2>1, <1>2
    <3>3. Makes(s, 2, v, d, E[d])
      BY <2>1, <2>2, <3>2 DEF CreateOK
    <3> QED BY <3>1, <3>3 DEF Makes, MakeStep, UserStep
  <2> QED BY <2>6, <2>7 DEF WritesFile
<1>5. ASSUME NEW d \in Entry PROVE Holds(s, d) <=> d = e
  BY <1>2, <1>3, <1>4, HoldsIs DEF WritesFile, LockedOps, UserStep
<1>6. FileIs(F[p], e)
  BY WriterFile
<1>7. E[e].lock = p
  BY <1>1, <1>3, <1>5
<1>8. E[e].ref > 0
  BY <1>3, <1>6, InUse
<1>9. E[e].valid # 0
  BY <1>3, <1>4, <1>7, <1>8, NotFresh
<1> QED BY <1>3, <1>4, <1>5, <1>6, <1>7, <1>8, <1>9

\* it goes on with other steps, and may change the entry
LEMMA CtlWriter ==
  ASSUME NEW l, NEW K, NEW E, NEW T, NEW F, CtlOK(l, K, E, T, F), NEW p \in Procs, NEW e, WritesFile(T[p], e),
         NEW E2, NEW T2, NEW r, Becomes(T, T2, p, r), Works(E, E2, e),
         SeqOK(r), UsesOK(r, F[p]), Asked(l, p, r, E),
         \A d \in File : ~Creating(r, d) /\ (Gives(r, d) => Gives(T[p], d)),
         \A d \in Entry : Holds(r, d) <=> d = e
  PROVE  CtlOK(l, K, E2, T2, F)
<1>1. /\ SeqOK(T[p]) /\ EntDom(E) /\ Calls1(l, K) /\ Becomes(F, F, p, F[p]) /\ IsFile(F[p])
  BY Ready
<1>2. /\ \A d \in File : ~Creating(T[p], d)
      /\ \A d \in Entry : Holds(T[p], d) <=> d = e
      /\ e \in Entry /\ E[e].valid # 0
  BY WriterIs
<1>3. LockStep(E, E2, r, p)
  BY <1>2, LockSame DEF Works
<1>4. AllKeep(E, E2) /\ EntDom(E2)
  BY <1>2, FileEntry DEF Works, AllKeep, Alike
<1>5. \A d \in File : Cnt(r, F[p], d) <= Cnt(T[p], F[p], d)
  BY DEF Cnt, One
<1>6. CtlNewHyp(l, K, E, E2, p, T[p], F[p], r, F[p])
  BY <1>1, <1>2, <1>3, <1>4, <1>5 DEF CtlNewHyp
<1> QED BY <1>1, <1>6, CtlNew

\* ewrite(), and what it does when the caller's memory fails
LEMMA CtlWriteForm ==
  ASSUME NEW l, NEW K, NEW E, NEW T, NEW F, CtlOK(l, K, E, T, F), NEW p \in Procs, NEW e, WritesFile(T[p], e),
         NEW E2, NEW T2, NEW r, Becomes(T, T2, p, r), Works(E, E2, e), EwriteForm(r, e)
  PROVE  CtlOK(l, K, E2, T2, F)
<1>1. FitsWrite(r, e)
  BY EwriteFits
<1>2. FileIs(F[p], e)
  BY WriterFile
<1>3. UsesOK(r, F[p]) /\ Asked(l, p, r, E)
  BY <1>1, <1>2 DEF FitsWrite, UsesOK, Asked
<1>4. /\ SeqOK(r) /\ (\A d \in File : ~Creating(r, d) /\ (Gives(r, d) => Gives(T[p], d)))
      /\ \A d \in Entry : Holds(r, d) <=> d = e
  BY <1>1 DEF FitsWrite
<1> QED BY <1>3, <1>4, CtlWriter

\* one piece is written, or the first or one more cluster linked
LEMMA CtlWritePop ==
  ASSUME NEW l, NEW K, NEW E, NEW T, NEW F, CtlOK(l, K, E, T, F), NEW p \in Procs, NEW e, WritesFile(T[p], e),
         T[p][1].op # "ewrite",
         NEW E2, NEW T2, NEW r, Pops(r, T[p]), Becomes(T, T2, p, r), Works(E, E2, e)
  PROVE  CtlOK(l, K, E2, T2, F)
<1> DEFINE s == T[p]
<1>1. /\ SeqOK(s) /\ UsesOK(s, F[p]) /\ Asked(l, p, s, E)
  BY Ready
<1>2. s # <<>> /\ s[1].op \notin RefOps
  BY DEF WritesFile, UserStep, RefOps
<1>3. /\ SeqOK(r) /\ Len(r) = Len(s) - 1 /\ (r # <<>> <=> Len(s) >= 2) /\ \A k \in 1..(Len(s) - 1) : r[k] = s[k + 1]
  BY <1>1, <1>2, PopIs
<1>4. Goes2(s, 1) /\ Len(s) \in Nat
  BY <1>1, <1>2, FirstIs
<1>5. Writes(s, 2, e)
  BY <1>4 DEF WritesFile, Goes2, UserStep
<1>6. Len(s) >= 2 /\ s[2].e = e /\ s[2].op \in {"wrote", "store"}
  BY <1>5 DEF Writes, Is
<1>7. r # <<>> /\ r[1] = s[2]
  BY <1>3, <1>4, <1>6
<1>8. UsesOK(r, F[p])
  <2>1. SameOpen(F[p], F[p])
    BY DEF SameOpen
  <2> QED BY <1>1, <1>2, <2>1, PopUses
<1>9. Asked(l, p, r, E)
  <2>1. AllKeep(E, E)
    BY DEF AllKeep, Alike
  <2> QED BY <1>1, <1>2, <2>1, PopAsked
<1>10. \A d \in File : ~Creating(s, d)
  BY WriterIs
<1>11. \A d \in File : ~Creating(r, d) /\ (Gives(r, d) => Gives(s, d))
  BY <1>1, <1>2, <1>10, PopHas DEF Creating, Gives
<1>12. \A d \in Entry : Holds(r, d) <=> d = e
  <2>1. e # Root
    BY WriterIs
  <2> QED BY <1>6, <1>7, <1>11, <2>1, HoldsIs DEF LockedOps
<1> HIDE DEF s
<1> QED BY <1>3, <1>8, <1>9, <1>11, <1>12, CtlWriter DEF s

\* reloc_clus() wants a cluster first
NeedsCluster(r, s) ==
  \E a : a.op = "alloc" /\ a.e = s[1].e /\ a.sec = 0 /\ a.how = "more" /\ Puts(r, <<a, s[1]>>, s)
LEMMA NeedIs ==
  ASSUME NEW r, NEW s, SeqOK(s), s # <<>>, s[1].op = "store", NeedsCluster(r, s)
  PROVE  /\ SeqOK(r) /\ Len(r) = Len(s) + 1 /\ r # <<>> /\ IsSeq(r) /\ Len(s) \in Nat /\ Len(s) >= 1
         /\ r[1].op = "alloc" /\ r[1].e = s[1].e /\ r[1].how = "more" /\ r[1].sec = 0
         /\ (\A k \in 1..Len(s) : r[k + 1] = s[k])
         /\ \A S, e : "alloc" \notin S => (Has(r, S, e) <=> Has(s, S, e))
<1>1. PICK a : a.op = "alloc" /\ a.e = s[1].e /\ a.sec = 0 /\ a.how = "more" /\ Puts(r, <<a, s[1]>>, s)
  BY DEF NeedsCluster
<1> DEFINE b == <<a, s[1]>>
<1>2. IsSeq(b) /\ Len(b) = 2 /\ b[1] = a /\ b[2] = s[1]
  BY Tup2
<1> HIDE DEF b
<1>3. Puts(r, b, s)
  BY <1>1 DEF b
<1>4. Whole(s, 1) /\ Goes1(s, 1) /\ Goes2(s, 1) /\ IsSeq(s) /\ Len(s) \in Nat /\ Len(s) >= 1 /\ 1 \in 1..Len(s)
  BY FirstIs
<1>5. IsSeq(r) /\ Len(r) = 2 + Len(s) - 1 /\ r[1] = a /\ r[2] = s[1] /\ \A k \in 2..Len(s) : r[2 + k - 1] = s[k]
  <2>1. 1 \in 1..2 /\ 2 \in 1..2
    OBVIOUS
  <2> QED BY <1>2, <1>3, <2>1 DEF Puts
<1>6. ASSUME NEW k \in 1..Len(s) PROVE r[k + 1] = s[k]
  <2>1. CASE k = 1
    BY <2>1, <1>5
  <2>2. CASE k # 1
    <3>1. k \in 2..Len(s) /\ 2 + k - 1 = k + 1
      BY <2>2, <1>4
    <3> QED BY <3>1, <1>5
  <2> QED BY <2>1, <2>2
<1>7. Len(r) = Len(s) + 1
  BY <1>4, <1>5
<1>8. IsOK(r, 1)
  <2>1. 0 \in 0..(FATSZ - 1)
    BY SizesAssumption
  <2>2. s[1].e \in Entry
    BY <1>4 DEF Whole
  <2>3. Is(r, 2, "store", s[1].e)
    BY <1>4, <1>5, <1>7 DEF Is
  <2>4. Whole(r, 1) /\ Goes1(r, 1) /\ Goes2(r, 1)
    BY <1>1, <1>5, <2>2 DEF Whole, Goes1, Goes2, OnFile, Ops, LastOps, UserStep, MakeStep
  <2>5. Begins(r, 1)
    BY <1>1, <1>5, <2>1, <2>3 DEF Begins
  <2> QED BY <2>4, <2>5 DEF IsOK
<1>9. IsOK(r, 2)
  <2>1. Whole(r, 2)
    BY <1>4, <1>5 DEF Whole
  <2>2. Goes1(r, 2)
    BY <1>5 DEF Goes1, LastOps
  <2>3. Begins(r, 2)
    BY <1>5 DEF Begins
  <2>4. Goes2(r, 2)
    <3>1. ASSUME UserStep(s[1]) PROVE Writes(r, 3, s[1].e)
      <4>1. Writes(s, 2, s[1].e)
        BY <1>4, <3>1 DEF Goes2
      <4>2. 2 \in 1..Len(s) /\ 3 \in 1..Len(r)
        BY <4>1, <1>4, <1>7 DEF Writes, Is
      <4>3. r[3] = s[2]
        BY <4>2, <1>6
      <4> QED BY <4>1, <4>2, <4>3 DEF Writes, Is
    <3>2. ASSUME MakeStep(s[1])
          PROVE  /\ \E v \in 3..Len(r) : r[v].op = "valid"
                 /\ r[3] = s[2]
      <4>1. PICK v \in 2..Len(s) : s[v].op = "valid"
        BY <1>4, <3>2 DEF Goes2
      <4>2. v + 1 \in 3..Len(r) /\ v \in 1..Len(s) /\ 2 \in 1..Len(s)
        BY <1>4, <1>7
      <4>3. r[v + 1] = s[v] /\ r[3] = s[2]
        BY <4>2, <1>6
      <4> QED BY <4>1, <4>2, <4>3
    <3>3. MakeStep(s[1]) => IF s[1].e = Root THEN s[2].op = "valid" \/ (MakeStep(s[2]) /\ s[2].e = Root)
                            ELSE s[2].op = "emake"
      BY <1>4 DEF Goes2
    <3> QED BY <1>5, <3>1, <3>2, <3>3 DEF Goes2
  <2> QED BY <2>1, <2>2, <2>3, <2>4 DEF IsOK
<1>10. SeqOK(r)
  <2>1. \A k \in 1..Len(b) : IsOK(r, k)
    <3>1. \A k \in 1..2 : k = 1 \/ k = 2
      OBVIOUS
    <3> QED BY <1>2, <1>8, <1>9, <3>1
  <2>2. \A k \in 1..Len(b) : b[k].op \in MakeOps
    <3>1. \A k \in 1..2 : k = 1 \/ k = 2
      OBVIOUS
    <3> QED BY <1>1, <1>2, <3>1 DEF MakeOps
  <2> QED BY <1>2, <1>3, <2>1, <2>2, PutsOK
<1>11. ASSUME NEW S, NEW e, "alloc" \notin S PROVE Has(r, S, e) <=> Has(s, S, e)
  <2>1. Has(b, S, e) <=> (s[1].op \in S /\ s[1].e = e)
    <3>1. \A k \in 1..2 : k = 1 \/ k = 2
      OBVIOUS
    <3> QED BY <1>1, <1>2, <1>11, <3>1 DEF Has
  <2> QED BY <1>2, <1>3, <1>4, <2>1, PutsHas
<1>12. r # <<>>
  BY <1>4, <1>5, <1>7, SeqEmpty
<1> QED BY <1>1, <1>4, <1>5, <1>6, <1>7, <1>10, <1>11, <1>12

LEMMA NeedUses ==
  ASSUME NEW l, NEW p, NEW E, NEW f, NEW r, NEW s, SeqOK(s), s # <<>>, s[1].op = "store", NeedsCluster(r, s),
         UsesOK(s, f), Asked(l, p, s, E)
  PROVE  UsesOK(r, f) /\ Asked(l, p, r, E)
<1>1. /\ Len(r) = Len(s) + 1 /\ Len(s) \in Nat /\ Len(s) >= 1
      /\ r[1].op = "alloc" /\ r[1].e = s[1].e
      /\ (\A k \in 1..Len(s) : r[k + 1] = s[k])
      /\ \A S, e : "alloc" \notin S => (Has(r, S, e) <=> Has(s, S, e))
  BY NeedIs
<1>2. \A e : Gives(r, e) <=> Gives(s, e)
  BY <1>1 DEF Gives, RefOps
<1>3. ASSUME NEW k \in 1..Len(r), k # 1 PROVE k - 1 \in 1..Len(s) /\ r[k] = s[k - 1]
  <2>1. k - 1 \in 1..Len(s) /\ (k - 1) + 1 = k
    BY <1>1, <1>3
  <2> QED BY <2>1, <1>1
<1>4. UsesOK(r, f)
  <2> SUFFICES ASSUME NEW k \in 1..Len(r)
               PROVE  /\ r[k].op # "lookup" /\ r[k].e # Root => Gives(r, r[k].e) \/ FileIs(f, r[k].e)
                      /\ r[k].op \in {"ewrite", "wrote"} \/ UserStep(r[k]) => FileIs(f, r[k].e)
    BY DEF UsesOK
  <2>1. CASE k = 1
    <3>1. s[1].e # Root => Gives(s, s[1].e) \/ FileIs(f, s[1].e)
      BY <1>1 DEF UsesOK
    <3> QED BY <2>1, <3>1, <1>1, <1>2 DEF UserStep
  <2>2. CASE k # 1
    BY <2>2, <1>2, <1>3 DEF UsesOK
  <2> QED BY <2>1, <2>2
<1>5. Asked(l, p, r, E)
  <2> SUFFICES ASSUME NEW k \in 1..Len(r)
               PROVE  /\ r[k].op \in {"remove", "eremove"} => E[r[k].e].name \in Removed(l)
                      /\ r[k].op = "lookup" => r[k].c \in CallsOf(l, p) /\ r[k].c.k \in {"open", "mkdir", "remove"}
                      /\ r[k].op = "ewrite" => IsSeq(r[k].bytes)
    BY DEF Asked
  <2>1. CASE k = 1
    BY <2>1, <1>1
  <2>2. CASE k # 1
    BY <2>2, <1>3 DEF Asked
  <2> QED BY <2>1, <2>2
<1> QED BY <1>4, <1>5

LEMMA CtlWriteNeed ==
  ASSUME NEW l, NEW K, NEW E, NEW T, NEW F, CtlOK(l, K, E, T, F), NEW p \in Procs, NEW e, WritesFile(T[p], e),
         T[p][1].op = "store",
         NEW E2, NEW T2, NEW r, NeedsCluster(r, T[p]), Becomes(T, T2, p, r), Works(E, E2, e)
  PROVE  CtlOK(l, K, E2, T2, F)
<1> DEFINE s == T[p]
<1>1. /\ SeqOK(s) /\ UsesOK(s, F[p]) /\ Asked(l, p, s, E)
  BY Ready
<1>2. s # <<>> /\ s[1].e = e
  BY DEF WritesFile
<1>3. /\ SeqOK(r) /\ r # <<>> /\ r[1].op = "alloc" /\ r[1].e = e
      /\ \A S, d : "alloc" \notin S => (Has(r, S, d) <=> Has(s, S, d))
  BY <1>1, <1>2, NeedIs
<1>4. UsesOK(r, F[p]) /\ Asked(l, p, r, E)
  BY <1>1, <1>2, NeedUses
<1>5. (\A d \in File : ~Creating(s, d)) /\ e # Root
  <2>1. WritesFile(T[p], e)
    OBVIOUS
  <2>2. \A d \in File : ~Creating(T[p], d)
    BY <2>1, WriterIs
  <2>3. e # Root
    BY ONLY <2>1, Zenon DEF WritesFile, File
  <2> QED BY <2>2, <2>3
<1>6. \A d \in File : ~Creating(r, d) /\ (Gives(r, d) => Gives(s, d))
  BY <1>3, <1>5 DEF Creating, Gives, RefOps
<1>7. \A d \in Entry : Holds(r, d) <=> d = e
  BY <1>3, <1>5, <1>6, HoldsIs DEF LockedOps
<1> HIDE DEF s
<1> QED BY <1>3, <1>4, <1>6, <1>7, CtlWriter DEF s

\* a process that makes the entry e
MakerOK(r, e, x) ==
  /\ SeqOK(r) /\ Creating(r, e) /\ CreateOK(r, e, x) /\ (\A d \in File : d # e => ~Creating(r, d))
  /\ r # <<>> /\ r[1].op \in MakeOps \cup {"valid"} /\ r[1].e \in {e, Root}
LEMMA OneValid ==
  ASSUME NEW s, SeqOK(s), NEW v \in 1..Len(s), NEW w \in 1..Len(s), s[v].op = "valid", s[w].op = "valid"
  PROVE  v = w
<1>1. (\A j \in 1..(v-1) : s[j].op \in MakeOps) /\ \A j \in 1..(w-1) : s[j].op \in MakeOps
  BY DEF SeqOK, Begins
<1>2. v = w \/ v \in 1..(w-1) \/ w \in 1..(v-1)
  OBVIOUS
<1> QED BY <1>1, <1>2 DEF MakeOps
LEMMA MakerHolds ==
  ASSUME NEW r, NEW e \in File, NEW x, MakerOK(r, e, x), NEW d \in Entry
  PROVE  Holds(r, d) <=> d = e \/ d = Root
<1>1. CASE d = Root
  BY <1>1 DEF Holds, HoldsRoot, MakerOK
<1>2. CASE d # Root
  BY <1>2 DEF Holds, HoldsEntry, MakerOK, OnEntry, LockedOps, MakeOps, File
<1> QED BY <1>1, <1>2
LEMMA MakerIs ==
  ASSUME NEW l, NEW K, NEW E, NEW T, NEW F, CtlOK(l, K, E, T, F), NEW p \in Procs, NEW e \in File, Creating(T[p], e)
  PROVE  /\ MakerOK(T[p], e, E[e]) /\ Fresh(E[e]) /\ E[e].lock = p /\ E[Root].lock = p
         /\ \A v \in 1..Len(T[p]) : T[p][v].op = "valid" /\ v # 1 => Makes(T[p], 1, v, e, E[e])
         /\ \A v \in 1..Len(T[p]) : T[p][v].op = "valid" => T[p][v].e = e
<1> DEFINE s == T[p]
<1>1. SeqOK(s) /\ \A d \in Entry : E[d].lock = p <=> Holds(s, d)
  BY Ready
<1>2. PICK v \in 1..Len(s) : s[v].op = "valid" /\ s[v].e = e
  BY DEF Creating, Has
<1>3. s # <<>> /\ Len(s) \in Nat /\ 1 \in 1..Len(s)
  <2>1. IsSeq(s)
    BY <1>1 DEF SeqOK
  <2> QED BY <1>2, <2>1, SeqEmpty DEF IsSeq
<1>4. CreateOK(s, e, E[e])
  BY DEF CtlOK
<1>5. \A w \in 1..Len(s) : s[w].op = "valid" => w = v
  BY <1>1, <1>2, OneValid
<1>6. v # 1 => Makes(s, 1, v, e, E[e])
  <2>1. v # 1 => 1 \in 1..(v-1)
    BY <1>2
  <2> QED BY <1>2, <1>4, <2>1 DEF CreateOK
<1>7. s[1].op \in MakeOps \cup {"valid"} /\ s[1].e \in {e, Root}
  <2>1. CASE v = 1
    BY <1>2, <2>1
  <2>2. CASE v # 1
    BY <1>6, <2>2 DEF Makes, MakeStep, MakeOps
  <2> QED BY <2>1, <2>2
<1>8. \A d \in File : d # e => ~Creating(s, d)
  BY <1>2, <1>5 DEF Creating, Has
<1>9. MakerOK(s, e, E[e])
  BY <1>1, <1>3, <1>4, <1>7, <1>8 DEF MakerOK
<1>10. Fresh(E[e])
  BY DEF CtlOK, States, Fresh
<1>11. E[e].lock = p /\ E[Root].lock = p
  <2>1. Holds(s, e) /\ Holds(s, Root)
    BY FileEntry DEF Holds, HoldsRoot, HoldsEntry
  <2> QED BY <1>1, <2>1, FileEntry
<1> QED BY <1>2, <1>5, <1>6, <1>9, <1>10, <1>11

\* only what the entry e, which is being made, says of its file changes
Making(E, E2, e) ==
  /\ EntDom(E2) /\ Fresh(E2[e]) /\ E2[e].name = E[e].name
  /\ \A d \in Entry : E2[d].lock = E[d].lock /\ (d # e => Alike(E[d], E2[d]))
LEMMA CtlMaker ==
  ASSUME NEW l, NEW K, NEW E, NEW T, NEW F, CtlOK(l, K, E, T, F), NEW p \in Procs, NEW e \in File, Creating(T[p], e),
         NEW E2, NEW T2, NEW r, Becomes(T, T2, p, r), Making(E, E2, e),
         MakerOK(r, e, E2[e]), UsesOK(r, F[p]), Asked(l, p, r, E), \A d \in File : Gives(r, d) => Gives(T[p], d)
  PROVE  CtlOK(l, K, E2, T2, F)
<1> DEFINE s == T[p]
<1>1. /\ SeqOK(s) /\ EntDom(E) /\ Calls1(l, K) /\ Becomes(F, F, p, F[p]) /\ IsFile(F[p])
  BY Ready
<1>2. MakerOK(s, e, E[e]) /\ Fresh(E[e])
  BY MakerIs
<1>3. \A d \in File : d # e => Alike(E[d], E2[d])
  BY FileEntry DEF Making
<1>4. KeptBut(E, E2, p)
  <2>1. E[e].lock = p
    BY MakerIs
  <2> QED BY <1>3, <2>1 DEF KeptBut, Making, Alike
<1>5. LockStep(E, E2, r, p)
  <2>1. \A d \in Entry : Holds(s, d) <=> d = e \/ d = Root
    BY <1>2, MakerHolds
  <2>2. \A d \in Entry : Holds(r, d) <=> d = e \/ d = Root
    BY MakerHolds
  <2> QED BY <2>1, <2>2, LockSame DEF Making
<1>6. RefStep(E, E2, s, F[p], r, F[p])
  <2>1. \A d \in File : E2[d].ref = E[d].ref /\ E[d].ref \in Nat
    BY <1>1, <1>2, <1>3, FileEntry DEF Making, Fresh, Alike, EntDom
  <2>2. \A d \in File : Cnt(r, F[p], d) <= Cnt(s, F[p], d) /\ Cnt(r, F[p], d) \in Nat /\ Cnt(s, F[p], d) \in Nat
    BY DEF Cnt, One
  <2> QED BY <2>1, <2>2 DEF RefStep
<1>7. CreateStep(E, E2, s, r)
  <2> SUFFICES ASSUME NEW d \in File
               PROVE  /\ CreateOK(r, d, E2[d]) /\ (Creating(r, d) => Fresh(E2[d]))
                      /\ E2[d].valid = 0 /\ E2[d].ref > 0 => Creating(r, d) \/ (E[d].valid = 0 /\ E[d].ref > 0 /\ ~Creating(s, d))
    BY DEF CreateStep
  <2>1. CASE d = e
    BY <2>1 DEF MakerOK, Making
  <2>2. CASE d # e
    <3>1. ~Creating(r, d) /\ ~Creating(s, d)
      BY <2>2, <1>2 DEF MakerOK
    <3>2. CreateOK(r, d, E2[d])
      BY <3>1 DEF CreateOK, Creating, Has
    <3> QED BY <2>2, <3>1, <3>2, <1>3 DEF Alike
  <2> QED BY <2>1, <2>2
<1>8. Asked(l, p, r, E2)
  <2>1. \A k \in 1..Len(r) : r[k].op \in {"remove", "eremove"} => r[k].e \in File
    <3>1. \A k \in 1..Len(r) : Whole(r, k)
      BY DEF MakerOK, SeqOK
    <3> QED BY <3>1 DEF Whole, File, OnFile
  <2>2. \A d \in File : E2[d].name = E[d].name
    BY <1>3 DEF Making, Alike
  <2> QED BY <2>1, <2>2 DEF Asked
<1>9. OneStep(l, E2, p, r, F[p])
  BY <1>1, <1>8 DEF OneStep, MakerOK
<1>10. EntDom(E2)
  BY DEF Making
<1> HIDE DEF s
<1> QED BY <1>1, <1>4, <1>5, <1>6, <1>7, <1>9, <1>10, CtlStep DEF s

\* one slot of an entry that is being made is written, or a cluster linked
LEMMA MakesPop ==
  ASSUME NEW s, SeqOK(s), s # <<>>, NEW r, Pops(r, s), NEW e, NEW x, CreateOK(s, e, x), s[1].op # "valid"
  PROVE  CreateOK(r, e, x)
<1> SUFFICES ASSUME NEW v \in 1..Len(r), r[v].op = "valid", r[v].e = e, NEW k \in 1..(v-1)
             PROVE  Makes(r, k, v, e, x)
  BY DEF CreateOK
<1>1. Len(r) = Len(s) - 1 /\ (\A j \in 1..(Len(s) - 1) : r[j] = s[j + 1]) /\ Len(s) \in Nat
  BY PopIs, FirstIs
<1>2. /\ v \in 1..(Len(s) - 1) /\ k \in 1..(Len(s) - 1) /\ v + 1 \in 1..Len(s) /\ k + 1 \in 1..((v + 1) - 1)
      /\ k + 1 \in 1..Len(s) /\ k + 1 # 1
  BY <1>1
<1>3. r[v] = s[v + 1] /\ r[k] = s[k + 1]
  BY <1>1, <1>2
<1>4. Makes(s, k + 1, v + 1, e, x)
  BY <1>2, <1>3 DEF CreateOK
<1>5. s[k + 1].op \notin {"alloc", "link"}
  BY <1>2 DEF SeqOK, Begins
<1>6. /\ (k + 1 = (v + 1) - 1 => k = v - 1) /\ (k + 1 = (v + 1) - 3 => k = v - 3) /\ (k + 1 = (v + 1) - 2 => k = v - 2)
      /\ (k + 1 < (v + 1) - 1 => k < v - 1) /\ (v + 1) - 1 - (k + 1) = v - 1 - k
  BY <1>2
<1> QED BY <1>3, <1>4, <1>5, <1>6 DEF Makes, MakeStep
LEMMA MakerPop ==
  ASSUME NEW s, NEW e \in File, NEW x, NEW y, MakerOK(s, e, x), s[1].op # "valid", NEW r, Pops(r, s),
         y.name = x.name, y.off = x.off,
         \/ y.first = x.first /\ y.size = x.size /\ y.dir = x.dir
         \/ s[1].op = "link" /\ s[1].how = "dir"
  PROVE  MakerOK(r, e, y)
<1>0. SeqOK(s) /\ s # <<>> /\ CreateOK(s, e, x) /\ Creating(s, e)
  BY DEF MakerOK
<1>1. /\ SeqOK(r) /\ IsSeq(r) /\ Len(r) = Len(s) - 1 /\ (r # <<>> <=> Len(s) >= 2)
      /\ (\A j \in 1..(Len(s) - 1) : r[j] = s[j + 1]) /\ Len(s) \in Nat /\ Len(r) \in Nat
  BY <1>0, PopIs, FirstIs
<1>2. Creating(r, e) /\ \A d \in File : d # e => ~Creating(r, d)
  BY <1>0, PopHas DEF MakerOK, Creating
<1>3. CreateOK(r, e, x)
  BY <1>0, MakesPop
<1>4. PICK v \in 1..Len(r) : r[v].op = "valid" /\ r[v].e = e
  BY <1>2 DEF Creating, Has
<1>5. r # <<>>
  BY <1>1, <1>4
<1>6. r[1].op \in MakeOps \cup {"valid"} /\ r[1].e \in {e, Root}
  <2>1. CASE v = 1
    BY <1>4, <2>1
  <2>2. CASE v # 1
    <3>1. 1 \in 1..(v-1)
      BY <2>2, <1>1
    <3>2. Makes(r, 1, v, e, x)
      BY <1>3, <1>4, <3>1 DEF CreateOK
    <3> QED BY <3>2 DEF Makes, MakeStep, MakeOps
  <2> QED BY <2>1, <2>2
<1>7. CreateOK(r, e, y)
  <2>1. CASE y.first = x.first /\ y.size = x.size /\ y.dir = x.dir
    <3>1. Short(<<>>, y) = Short(<<>>, x)
      BY <2>1 DEF Short
    <3>2. \A k, w : Makes(r, k, w, e, x) => Makes(r, k, w, e, y)
      BY <3>1 DEF Makes
    <3> QED BY <1>3, <3>2 DEF CreateOK
  <2>2. CASE s[1].op = "link" /\ s[1].how = "dir"
    <3>1. /\ Begins(s, 1) /\ \A k \in 1..Len(s) : Goes2(s, k)
      BY <1>0, FirstIs DEF SeqOK
    <3>2. Is(s, 2, "emake", s[1].e) /\ s[1].e # Root
      BY <2>2, <3>1 DEF Begins
    <3>3. v + 1 \in 1..Len(s) /\ s[v + 1].op = "valid" /\ s[v + 1].e = e /\ 1 \in 1..((v+1)-1)
      BY <1>1, <1>4
    <3>4. Makes(s, 1, v + 1, e, x)
      BY <1>0, <3>3 DEF CreateOK
    <3>5. 1 = (v + 1) - 4 /\ v = 4
      <4>1. 1 = (v + 1) - 4
        BY <3>4, <2>2 DEF Makes, MakeStep
      <4> QED BY <4>1
    <3>6. s[2].op = "emake" /\ s[2].e # Root /\ Len(s) >= 5 /\ s[5].op = "valid"
      BY <3>2, <3>3, <3>5 DEF Is
    <3>7. s[3].op = "emake"
      <4>1. 2 \in 1..Len(s)
        BY <3>6, <1>1
      <4>2. Goes2(s, 2)
        BY <3>1, <4>1
      <4> QED BY <4>2, <3>6 DEF Goes2
    <3>8. s[4].op = "emake"
      <4>1. 3 \in 1..Len(s) /\ 4 \in 1..Len(s) /\ 5 \in 1..Len(s)
        BY <3>6, <1>1
      <4>2. Goes2(s, 3) /\ Goes2(s, 2)
        BY <3>1, <4>1
      <4>3. s[4].op = "valid" => FALSE
        BY <4>1, <3>6, <1>0, OneValid
      <4> QED BY <4>2, <4>3, <3>7, <3>6 DEF Goes2
    <3>9. ASSUME NEW w \in 1..Len(r), r[w].op = "valid", r[w].e = e, NEW k \in 1..(w-1)
          PROVE  Makes(r, k, w, e, y)
      <4>1. w = 4
        BY <1>1, <1>4, <3>5, <3>9, OneValid
      <4>2. r[k].op = "emake"
        <5>1. k = 1 \/ k = 2 \/ k = 3
          BY <4>1
        <5>2. r[1] = s[2] /\ r[2] = s[3] /\ r[3] = s[4]
          <6>1. 1 \in 1..(Len(s)-1) /\ 2 \in 1..(Len(s)-1) /\ 3 \in 1..(Len(s)-1)
            BY <1>1, <3>6
          <6> QED BY <1>1, <6>1
        <5> QED BY <5>1, <5>2, <3>6, <3>7, <3>8
      <4>3. Makes(r, k, w, e, x)
        BY <1>3, <3>9 DEF CreateOK
      <4> QED BY <4>2, <4>3 DEF Makes, MakeStep
    <3> QED BY <3>9 DEF CreateOK
  <2> QED BY <2>1, <2>2
<1> QED BY <1>1, <1>2, <1>5, <1>6, <1>7 DEF MakerOK

LEMMA CtlMakerPop ==
  ASSUME NEW l, NEW K, NEW E, NEW T, NEW F, CtlOK(l, K, E, T, F), NEW p \in Procs, NEW e \in File, Creating(T[p], e),
         T[p][1].op # "valid",
         NEW E2, NEW T2, NEW r, Pops(r, T[p]), Becomes(T, T2, p, r), Making(E, E2, e), E2[e].off = E[e].off,
         \/ E2[e].first = E[e].first /\ E2[e].size = E[e].size /\ E2[e].dir = E[e].dir
         \/ T[p][1].op = "link" /\ T[p][1].how = "dir"
  PROVE  CtlOK(l, K, E2, T2, F)
<1> DEFINE s == T[p]
<1>1. /\ SeqOK(s) /\ UsesOK(s, F[p]) /\ Asked(l, p, s, E)
  BY Ready
<1>2. MakerOK(s, e, E[e])
  BY MakerIs
<1>3. MakerOK(r, e, E2[e])
  BY <1>2, MakerPop DEF Making
<1>4. s # <<>> /\ s[1].op \notin RefOps
  BY <1>2 DEF MakerOK, MakeOps, RefOps
<1>5. UsesOK(r, F[p])
  <2>1. SameOpen(F[p], F[p])
    BY DEF SameOpen
  <2> QED BY <1>1, <1>4, <2>1, PopUses
<1>6. Asked(l, p, r, E)
  <2>1. AllKeep(E, E)
    BY DEF AllKeep, Alike
  <2> QED BY <1>1, <1>4, <2>1, PopAsked
<1>7. \A d \in File : Gives(r, d) => Gives(s, d)
  BY <1>1, <1>4, PopHas DEF Gives
<1> HIDE DEF s
<1> QED BY <1>3, <1>5, <1>6, <1>7, CtlMaker DEF s

LEMMA CtlMakerNeed ==
  ASSUME NEW l, NEW K, NEW E, NEW T, NEW F, CtlOK(l, K, E, T, F), NEW p \in Procs, NEW e \in File, Creating(T[p], e),
         T[p][1].op = "store",
         NEW E2, NEW T2, NEW r, NeedsCluster(r, T[p]), Becomes(T, T2, p, r), Making(E, E2, e), Alike(E[e], E2[e])
  PROVE  CtlOK(l, K, E2, T2, F)
<1> DEFINE s == T[p]
<1>1. /\ SeqOK(s) /\ UsesOK(s, F[p]) /\ Asked(l, p, s, E)
  BY Ready
<1>2. MakerOK(s, e, E[e])
  BY MakerIs
<1>3. s # <<>>
  BY <1>2 DEF MakerOK
<1>4. /\ SeqOK(r) /\ Len(r) = Len(s) + 1 /\ r # <<>> /\ Len(s) \in Nat /\ Len(s) >= 1
      /\ r[1].op = "alloc" /\ r[1].e = s[1].e /\ r[1].how = "more"
      /\ (\A k \in 1..Len(s) : r[k + 1] = s[k])
      /\ \A S, d : "alloc" \notin S => (Has(r, S, d) <=> Has(s, S, d))
  BY <1>1, <1>3, NeedIs
<1>5. UsesOK(r, F[p]) /\ Asked(l, p, r, E)
  BY <1>1, <1>3, NeedUses
<1>6. \A d \in File : (Gives(r, d) => Gives(s, d)) /\ (Creating(r, d) <=> Creating(s, d))
  BY <1>4 DEF Creating, Gives, RefOps
<1>7. CreateOK(r, e, E[e])
  <2> SUFFICES ASSUME NEW v \in 1..Len(r), r[v].op = "valid", r[v].e = e, NEW k \in 1..(v-1)
               PROVE  Makes(r, k, v, e, E[e])
    BY DEF CreateOK
  <2>1. v # 1 /\ v - 1 \in 1..Len(s) /\ (v - 1) + 1 = v
    BY <1>4
  <2>2. r[v] = s[v - 1]
    BY <1>4, <2>1
  <2>3. v - 1 # 1
    BY <2>2
  <2>4. CASE k = 1
    <3>1. k + 1 < v
      BY <2>1, <2>3, <2>4
    <3>2. r[1].op = "alloc" /\ r[1].how = "more" /\ r[1].e \in {e, Root}
      BY <1>2, <1>4 DEF MakerOK
    <3> QED BY ONLY <2>4, <3>1, <3>2 DEF Makes
  <2>5. CASE k # 1
    <3>1. k - 1 \in 1..((v-1)-1) /\ k - 1 \in 1..Len(s) /\ (k - 1) + 1 = k
      <4>1. v \in Int /\ k \in 1..(v-1) /\ Len(s) \in Nat
        BY <1>4
      <4>2. k # 1 /\ v - 1 \in 1..Len(s)
        BY <2>1, <2>5
      <4> QED BY ONLY <4>1, <4>2
    <3>2. r[k] = s[k - 1]
      BY <1>4, <3>1
    <3>3. Makes(s, k - 1, v - 1, e, E[e])
      BY <1>2, <2>1, <2>2, <3>1 DEF MakerOK, CreateOK
    <3>4. s[k - 1].op \notin {"alloc", "link"}
      <4>1. Begins(s, k - 1)
        BY <1>1, <3>1 DEF SeqOK
      <4>2. k - 1 = 1 => s[k - 1].op = "store"
        OBVIOUS
      <4> QED BY <4>1, <4>2 DEF Begins
    <3>5. /\ (k - 1 = (v-1) - 1 => k = v - 1) /\ (k - 1 = (v-1) - 3 => k = v - 3) /\ (k - 1 = (v-1) - 2 => k = v - 2)
          /\ (k - 1 < (v-1) - 1 => k < v - 1) /\ (v-1) - 1 - (k-1) = v - 1 - k
      BY <2>1, <3>1
    <3> QED BY <3>2, <3>3, <3>4, <3>5 DEF Makes, MakeStep
  <2> QED BY <2>4, <2>5
<1>8. CreateOK(r, e, E2[e])
  <2>1. Short(<<>>, E2[e]) = Short(<<>>, E[e]) /\ E2[e].off = E[e].off /\ E2[e].name = E[e].name
    BY DEF Short, Alike
  <2>2. \A k, w : Makes(r, k, w, e, E[e]) => Makes(r, k, w, e, E2[e])
    BY <2>1 DEF Makes
  <2> QED BY <1>7, <2>2 DEF CreateOK
<1>9. MakerOK(r, e, E2[e])
  BY <1>2, <1>4, <1>6, <1>8 DEF MakerOK, MakeOps
<1> HIDE DEF s
<1> QED BY <1>5, <1>6, <1>9, CtlMaker DEF s

\* emake(): the slots that are to be written for the entry x of the directory d
DotForm(a, d) == IsSeq(a) /\ Len(a) = 1 /\ MakeStep(a[1]) /\ a[1].e = d /\ a[1].off \in Nat
RootForm(a, x) ==
  /\ IsSeq(a) /\ Len(a) = Len(x.name) + 1 /\ Len(x.name) \in Nat /\ x.off \in Nat
  /\ \A k \in 1..Len(a) : /\ MakeStep(a[k]) /\ a[k].e = Root /\ a[k].off = x.off + k - 1
                          /\ a[k].cells = <<Make(x.name, Short(<<>>, x), x.off, x.off + k - 1)>>
LEMMA PutUses ==
  ASSUME NEW l, NEW p, NEW E, NEW f, NEW s, SeqOK(s), s # <<>>, NEW a, IsSeq(a), NEW r, Puts(r, a, s),
         UsesOK(s, f), Asked(l, p, s, E), s[1].op \notin RefOps \cup {"lookup"},
         \A k \in 1..Len(a) : MakeStep(a[k]) /\ a[k].e \in {Root, s[1].e}
  PROVE  /\ UsesOK(r, f) /\ Asked(l, p, r, E)
         /\ \A d : (Gives(r, d) <=> Gives(s, d)) /\ (s[1].op # "valid" => (Creating(r, d) <=> Creating(s, d)))
<1>1. IsSeq(s) /\ Len(s) \in Nat /\ Len(s) >= 1 /\ 1 \in 1..Len(s)
  BY FirstIs
<1>2. \A k \in 1..Len(a) : a[k].op = "store" /\ ~UserStep(a[k])
  BY DEF MakeStep, UserStep
<1>3. \A S, d : "store" \notin S /\ s[1].op \notin S => (Has(r, S, d) <=> Has(s, S, d))
  <2> SUFFICES ASSUME NEW S, NEW d, "store" \notin S, s[1].op \notin S PROVE Has(r, S, d) <=> Has(s, S, d)
    OBVIOUS
  <2>1. ~Has(a, S, d)
    BY <1>2 DEF Has
  <2>2. /\ Has(r, S, d) <=> Has(a, S, d) \/ HasRest(s, S, d)
        /\ Has(s, S, d) <=> (s[1].op \in S /\ s[1].e = d) \/ HasRest(s, S, d)
    BY <1>1, PutsHas
  <2> QED BY <2>1, <2>2
<1>4. \A d : Gives(r, d) <=> Gives(s, d)
  BY <1>3 DEF Gives, RefOps
<1>5. ASSUME s[1].op # "valid", NEW d PROVE Creating(r, d) <=> Creating(s, d)
  BY <1>3, <1>5 DEF Creating
<1>6. Len(a) \in Nat /\ Len(r) = Len(a) + Len(s) - 1
  BY DEF IsSeq, Puts
<1>7. ASSUME NEW k \in 1..Len(r)
      PROVE  \/ k \in 1..Len(a) /\ r[k] = a[k]
             \/ \E m \in 1..Len(s) : r[k] = s[m]
  <2>1. CASE k <= Len(a)
    <3>1. k \in 1..Len(a)
      BY <2>1, <1>6
    <3> QED BY <3>1 DEF Puts
  <2>2. CASE k > Len(a)
    <3> DEFINE m == k - Len(a) + 1
    <3>1. m \in 2..Len(s) /\ m \in 1..Len(s) /\ Len(a) + m - 1 = k
      <4>1. ASSUME NEW x \in Nat, NEW y \in Nat, NEW z \in 1..(x + y - 1), z > x
            PROVE  z - x + 1 \in 2..y /\ z - x + 1 \in 1..y /\ x + (z - x + 1) - 1 = z
        BY <4>1
      <4>2. k \in 1..(Len(a) + Len(s) - 1)
        BY <1>6
      <4> QED BY ONLY <4>1, <4>2, <2>2, <1>6, <1>1
    <3>2. r[Len(a) + m - 1] = s[m]
      BY <3>1 DEF Puts
    <3> QED BY <3>1, <3>2
  <2> QED BY <2>1, <2>2, <1>6
<1>8. UsesOK(r, f)
  <2> SUFFICES ASSUME NEW k \in 1..Len(r)
               PROVE  /\ r[k].op # "lookup" /\ r[k].e # Root => Gives(r, r[k].e) \/ FileIs(f, r[k].e)
                      /\ r[k].op \in {"ewrite", "wrote"} \/ UserStep(r[k]) => FileIs(f, r[k].e)
    BY DEF UsesOK
  <2>1. CASE k \in 1..Len(a) /\ r[k] = a[k]
    <3>1. s[1].op # "lookup" /\ s[1].e # Root => Gives(s, s[1].e) \/ FileIs(f, s[1].e)
      BY <1>1 DEF UsesOK
    <3> QED BY <2>1, <3>1, <1>2, <1>4
  <2>2. CASE \E m \in 1..Len(s) : r[k] = s[m]
    <3>1. PICK m \in 1..Len(s) : r[k] = s[m]
      BY <2>2
    <3>2. /\ s[m].op # "lookup" /\ s[m].e # Root => Gives(s, s[m].e) \/ FileIs(f, s[m].e)
          /\ s[m].op \in {"ewrite", "wrote"} \/ UserStep(s[m]) => FileIs(f, s[m].e)
      BY DEF UsesOK
    <3> QED BY <3>1, <3>2, <1>4
  <2> QED BY <2>1, <2>2, <1>7
<1>9. Asked(l, p, r, E)
  <2> SUFFICES ASSUME NEW k \in 1..Len(r)
               PROVE  /\ r[k].op \in {"remove", "eremove"} => E[r[k].e].name \in Removed(l)
                      /\ r[k].op = "lookup" => r[k].c \in CallsOf(l, p) /\ r[k].c.k \in {"open", "mkdir", "remove"}
                      /\ r[k].op = "ewrite" => IsSeq(r[k].bytes)
    BY DEF Asked
  <2>1. CASE k \in 1..Len(a) /\ r[k] = a[k]
    BY <2>1, <1>2
  <2>2. CASE \E m \in 1..Len(s) : r[k] = s[m]
    <3>1. PICK m \in 1..Len(s) : r[k] = s[m]
      BY <2>2
    <3>2. /\ s[m].op \in {"remove", "eremove"} => E[s[m].e].name \in Removed(l)
          /\ s[m].op = "lookup" => s[m].c \in CallsOf(l, p) /\ s[m].c.k \in {"open", "mkdir", "remove"}
          /\ s[m].op = "ewrite" => IsSeq(s[m].bytes)
      BY DEF Asked
    <3> QED BY <3>1, <3>2
  <2> QED BY <2>1, <2>2, <1>7
<1> QED BY <1>4, <1>5, <1>8, <1>9

LEMMA CtlEmakeDot ==
  ASSUME NEW l, NEW K, NEW E, NEW T, NEW F, CtlOK(l, K, E, T, F), NEW p \in Procs, NEW e \in File, Creating(T[p], e),
         T[p][1].op = "emake", T[p][1].e # Root,
         NEW T2, NEW r, NEW a, DotForm(a, T[p][1].e), Puts(r, a, T[p]), Becomes(T, T2, p, r)
  PROVE  CtlOK(l, K, E, T2, F)
<1> DEFINE s == T[p]
<1>1. /\ SeqOK(s) /\ UsesOK(s, F[p]) /\ Asked(l, p, s, E) /\ EntDom(E)
  BY Ready
<1>2. MakerOK(s, e, E[e]) /\ Fresh(E[e])
  BY MakerIs
<1>3. s # <<>> /\ s[1].e = e /\ e # Root /\ e \in Entry
  BY <1>2, FileEntry DEF MakerOK
<1>4. IsSeq(s) /\ Len(s) \in Nat /\ Len(s) >= 1 /\ 1 \in 1..Len(s) /\ Goes2(s, 1)
  BY <1>1, <1>3, FirstIs
<1>5. IsSeq(a) /\ Len(a) = 1 /\ MakeStep(a[1]) /\ a[1].e = e /\ a[1].off \in Nat
  BY <1>3 DEF DotForm
<1>6. \A k \in 1..Len(a) : k = 1 /\ MakeStep(a[k]) /\ a[k].e \in {Root, s[1].e}
  BY <1>3, <1>5
<1>7. /\ UsesOK(r, F[p]) /\ Asked(l, p, r, E)
      /\ \A d : (Gives(r, d) <=> Gives(s, d)) /\ (Creating(r, d) <=> Creating(s, d))
  <2>1. s[1].op \notin RefOps \cup {"lookup"} /\ s[1].op # "valid"
    BY DEF RefOps
  <2> QED BY <1>1, <1>3, <1>5, <1>6, <2>1, PutUses
<1>8. Len(r) = Len(s) /\ r[1] = a[1] /\ (\A k \in 2..Len(s) : r[k] = s[k]) /\ IsSeq(r)
  <2>1. IsSeq(r) /\ Len(r) = 1 + Len(s) - 1 /\ \A k \in 2..Len(s) : r[1 + k - 1] = s[k]
    BY <1>5 DEF Puts
  <2>2. r[1] = a[1]
    BY <1>5 DEF Puts
  <2>3. \A k \in 2..Len(s) : 1 + k - 1 = k
    OBVIOUS
  <2> QED BY <2>1, <2>2, <2>3, <1>4
<1>9. PICK v \in 1..Len(s) : s[v].op = "valid" /\ s[v].e = e
  BY DEF Creating, Has
<1>10. v >= 3 /\ s[2].op = "emake" /\ v \in 2..Len(s)
  <2>1. v # 1
    BY <1>9
  <2>2. s[2].op = "emake"
    BY <1>3, <1>4 DEF Goes2
  <2>3. v # 2
    BY <1>9, <2>2
  <2> QED BY <2>1, <2>2, <2>3
<1>11. SeqOK(r)
  <2>1. Whole(r, 1)
    BY <1>3, <1>5, <1>8 DEF Whole, OnFile, Ops, MakeStep, UserStep
  <2>2. Goes1(r, 1)
    BY <1>5, <1>8 DEF Goes1, LastOps, MakeStep
  <2>3. Begins(r, 1)
    BY <1>5, <1>8 DEF Begins, MakeStep
  <2>4. Goes2(r, 1)
    <3>1. r[v].op = "valid" /\ v \in 2..Len(r)
      BY <1>8, <1>9, <1>10
    <3>2. r[2].op = "emake"
      BY <1>8, <1>10
    <3> QED BY <1>3, <1>5, <1>8, <3>1, <3>2 DEF Goes2, MakeStep, UserStep
  <2>5. \A k \in 1..Len(a) : IsOK(r, k)
    BY <1>6, <2>1, <2>2, <2>3, <2>4 DEF IsOK
  <2>6. \A k \in 1..Len(a) : a[k].op \in MakeOps
    BY <1>6 DEF MakeStep, MakeOps
  <2> QED BY <1>1, <1>3, <1>5, <2>5, <2>6, PutsOK
<1>12. CreateOK(r, e, E[e])
  <2> SUFFICES ASSUME NEW w \in 1..Len(r), r[w].op = "valid", r[w].e = e, NEW k \in 1..(w-1)
               PROVE  Makes(r, k, w, e, E[e])
    BY DEF CreateOK
  <2>1. w # 1
    BY <1>5, <1>8 DEF MakeStep
  <2>2. w \in 2..Len(s) /\ r[w] = s[w]
    BY <2>1, <1>8
  <2>3. w = v
    BY <1>1, <1>9, <2>2, OneValid
  <2>4. CASE k = 1
    BY <2>3, <2>4, <1>5, <1>8, <1>10 DEF Makes
  <2>5. CASE k # 1
    <3>1. k \in 2..Len(s) /\ r[k] = s[k]
      BY <2>2, <2>5, <1>8
    <3>2. Makes(s, k, w, e, E[e])
      BY <1>2, <2>2 DEF MakerOK, CreateOK
    <3> QED BY <3>1, <3>2 DEF Makes, MakeStep
  <2> QED BY <2>4, <2>5
<1>13. r # <<>>
  BY ONLY <1>4, <1>8, SeqEmpty
<1>14. MakerOK(r, e, E[e])
  BY <1>2, <1>5, <1>7, <1>8, <1>11, <1>12, <1>13 DEF MakerOK, MakeOps, MakeStep
<1>15. Making(E, E, e)
  BY <1>1, <1>2 DEF Making, Alike
<1> HIDE DEF s
<1> QED BY <1>7, <1>14, <1>15, CtlMaker DEF s

LEMMA CtlEmakeRoot ==
  ASSUME NEW l, NEW K, NEW E, NEW T, NEW F, CtlOK(l, K, E, T, F), NEW p \in Procs, NEW e \in File, Creating(T[p], e),
         T[p][1].op = "emake", T[p][1].e = Root,
         NEW T2, NEW r, NEW a, RootForm(a, E[e]), Puts(r, a, T[p]), Becomes(T, T2, p, r)
  PROVE  CtlOK(l, K, E, T2, F)
<1> DEFINE s == T[p]
           x == E[e]
           n == Len(x.name)
<1>1. /\ SeqOK(s) /\ UsesOK(s, F[p]) /\ Asked(l, p, s, E) /\ EntDom(E)
  BY Ready
<1>2. MakerOK(s, e, x) /\ Fresh(x)
  BY MakerIs
<1>3. s # <<>> /\ e # Root /\ e \in Entry
  BY <1>2, FileEntry DEF MakerOK
<1>4. IsSeq(s) /\ Len(s) \in Nat /\ Len(s) >= 1 /\ 1 \in 1..Len(s) /\ Goes2(s, 1)
  BY <1>1, <1>3, FirstIs
<1>5. /\ IsSeq(a) /\ Len(a) = n + 1 /\ n \in Nat /\ x.off \in Nat
      /\ \A k \in 1..Len(a) : /\ MakeStep(a[k]) /\ a[k].e = Root /\ a[k].off = x.off + k - 1
                              /\ a[k].cells = <<Make(x.name, Short(<<>>, x), x.off, x.off + k - 1)>>
  BY DEF RootForm
<1> HIDE DEF n, x
<1>6. \A k \in 1..Len(a) : MakeStep(a[k]) /\ a[k].e \in {Root, s[1].e}
  BY <1>5
<1>7. /\ UsesOK(r, F[p]) /\ Asked(l, p, r, E)
      /\ \A d : (Gives(r, d) <=> Gives(s, d)) /\ (Creating(r, d) <=> Creating(s, d))
  <2>1. s[1].op \notin RefOps \cup {"lookup"} /\ s[1].op # "valid"
    BY DEF RefOps
  <2> QED BY <1>1, <1>3, <1>5, <1>6, <2>1, PutUses
<1>8. /\ Len(r) = n + Len(s) /\ (\A k \in 1..(n+1) : r[k] = a[k]) /\ (\A k \in 2..Len(s) : r[n + k] = s[k]) /\ IsSeq(r)
  <2>1. IsSeq(r) /\ Len(r) = n + 1 + Len(s) - 1 /\ \A k \in 2..Len(s) : r[n + 1 + k - 1] = s[k]
    BY <1>5 DEF Puts
  <2>2. \A k \in 1..(n+1) : r[k] = a[k]
    BY <1>5 DEF Puts
  <2>3. \A k \in 2..Len(s) : n + 1 + k - 1 = n + k
    BY <1>5
  <2>4. n + 1 + Len(s) - 1 = n + Len(s)
    <3>1. n \in Nat /\ Len(s) \in Nat
      BY <1>4, <1>5
    <3>2. \A u, w \in Nat : u + 1 + w - 1 = u + w
      OBVIOUS
    <3> QED BY ONLY <3>1, <3>2, Zenon
  <2>5. \A k \in 2..Len(s) : r[n + k] = s[k]
    BY ONLY <2>1, <2>3, Zenon
  <2>6. Len(r) = n + Len(s)
    BY ONLY <2>1, <2>4
  <2> QED BY ONLY <2>1, <2>2, <2>5, <2>6
<1>9. s[2].op = "valid" /\ Len(s) >= 2
  <2>1. s[2].op = "valid"
    BY <1>4 DEF Goes2
  <2>2. PICK v \in 1..Len(s) : s[v].op = "valid" /\ s[v].e = e
    BY DEF Creating, Has
  <2> QED BY <2>1, <2>2, <1>4
<1>10. r[n + 2] = s[2] /\ n + 2 \in 1..Len(r)
  <2>1. 2 \in 2..Len(s)
    BY <1>4, <1>9
  <2> QED BY <2>1, <1>4, <1>5, <1>8, <1>9
<1>11. SeqOK(r)
  <2>1. ASSUME NEW k \in 1..(n+1) PROVE IsOK(r, k)
    <3>0. r[k] = a[k] /\ MakeStep(a[k]) /\ a[k].e = Root /\ a[k].off = x.off + k - 1 /\ x.off + k - 1 \in Nat
      BY <1>5, <1>8
    <3>1. Whole(r, k)
      BY <3>0, FileEntry DEF Whole, OnFile, Ops, MakeStep, UserStep
    <3>2. Goes1(r, k) /\ Begins(r, k)
      BY <3>0 DEF Goes1, Begins, LastOps, MakeStep
    <3>3. Goes2(r, k)
      <4>1. n + 2 \in (k+1)..Len(r) /\ r[n + 2].op = "valid"
        BY <1>5, <1>9, <1>10
      <4>2. r[k+1].op = "valid" \/ (MakeStep(r[k+1]) /\ r[k+1].e = Root)
        <5>1. k = n + 1 \/ k + 1 \in 1..(n+1)
          BY <1>5
        <5>2. CASE k = n + 1
          BY <4>1, <5>2, <1>5
        <5>3. CASE k + 1 \in 1..(n+1)
          BY <5>3, <1>5, <1>8
        <5> QED BY <5>1, <5>2, <5>3
      <4> QED BY <3>0, <4>1, <4>2 DEF Goes2, MakeStep, UserStep
    <3> QED BY <3>1, <3>2, <3>3 DEF IsOK
  <2>2. \A k \in 1..Len(a) : IsOK(r, k)
    BY <1>5, <2>1
  <2>3. \A k \in 1..Len(a) : a[k].op \in MakeOps
    BY <1>6 DEF MakeStep, MakeOps
  <2> QED BY <1>1, <1>3, <1>5, <2>2, <2>3, PutsOK
<1>12. CreateOK(r, e, x)
  <2> SUFFICES ASSUME NEW w \in 1..Len(r), r[w].op = "valid", r[w].e = e, NEW k \in 1..(w-1)
               PROVE  Makes(r, k, w, e, x)
    BY DEF CreateOK
  <2>1. w = n + 2
    BY <1>9, <1>10, <1>11, OneValid
  <2>2. k \in 1..(n+1) /\ r[k] = a[k]
    BY <2>1, <1>5, <1>8
  <2>3. x.off + k - 1 = x.off + n - (w - 1 - k) /\ x.off + k - 1 >= x.off
    BY <2>1, <2>2, <1>5
  <2>4. /\ MakeStep(r[k]) /\ r[k].e = Root /\ r[k].off = x.off + n - (w - 1 - k) /\ r[k].off >= x.off
        /\ r[k].cells = <<Make(x.name, Short(<<>>, x), x.off, r[k].off)>>
    BY <2>2, <2>3, <1>5
  <2> QED BY <2>4 DEF Makes, n
<1>13. r # <<>>
  <2>1. Len(r) >= 1
    BY <1>4, <1>5, <1>8
  <2> QED BY ONLY <2>1, <1>8, SeqEmpty
<1>14. r[1].op \in MakeOps \cup {"valid"} /\ r[1].e = Root
  <2>1. 1 \in 1..(n+1)
    BY <1>5
  <2> QED BY <2>1, <1>5, <1>8 DEF MakeStep, MakeOps
<1>15. MakerOK(r, e, x)
  BY <1>2, <1>7, <1>11, <1>12, <1>13, <1>14 DEF MakerOK
<1>16. Making(E, E, e)
  BY <1>1, <1>2 DEF Making, Alike, x
<1> HIDE DEF s
<1> QED BY <1>7, <1>15, <1>16, CtlMaker DEF s, x

\* the end of ealloc()
LEMMA CtlValid ==
  ASSUME NEW l, NEW K, NEW E, NEW T, NEW F, CtlOK(l, K, E, T, F), NEW p \in Procs, T[p] # <<>>, T[p][1].op = "valid",
         NEW E2, NEW T2, NEW r, Pops(r, T[p]), Becomes(T, T2, p, r), EntDom(E2),
         E2[T[p][1].e].valid = 1, E2[T[p][1].e].lock = NoProc, E2[T[p][1].e].ref = E[T[p][1].e].ref,
         E2[T[p][1].e].name = E[T[p][1].e].name, \A d \in Entry : d # T[p][1].e => E2[d] = E[d]
  PROVE  CtlOK(l, K, E2, T2, F)
<1> DEFINE s == T[p]
           e == s[1].e
<1>1. /\ SeqOK(s) /\ UsesOK(s, F[p]) /\ Asked(l, p, s, E) /\ EntDom(E) /\ Calls1(l, K)
      /\ Becomes(F, F, p, F[p]) /\ IsFile(F[p]) /\ \A d \in Entry : E[d].lock = p <=> Holds(s, d)
  BY Ready
<1>2. Whole(s, 1) /\ Goes2(s, 1) /\ Len(s) \in Nat /\ 1 \in 1..Len(s)
  BY <1>1, FirstIs
<1>3. e \in File /\ e \in Entry /\ e # Root
  BY <1>2, FileEntry DEF Whole, OnFile, File
<1>4. Creating(s, e)
  BY <1>2 DEF Creating, Has
<1>5. MakerOK(s, e, E[e]) /\ E[e].lock = p
  BY <1>3, <1>4, MakerIs
<1>6. /\ SeqOK(r) /\ (r # <<>> <=> Len(s) >= 2) /\ Len(r) = Len(s) - 1 /\ \A k \in 1..(Len(s) - 1) : r[k] = s[k + 1]
  BY <1>1, PopIs
<1>7. PICK o, c : o \in {"eput", "elock"} /\ Is(s, 3, o, c) /\ Is(s, 2, "eunlock", Root)
  BY <1>2 DEF Goes2
<1>8. /\ r # <<>> /\ r[1].op = "eunlock" /\ r[1].e = Root /\ r[2].op = o /\ r[2].e = c /\ Len(r) >= 2
  BY <1>2, <1>6, <1>7 DEF Is
<1>9. \A d \in File : ~Creating(r, d)
  <2>1. \A d : ~Creating(r, d)
    BY <1>1, <1>8, <1>6, NoValid DEF MakeOps
  <2> QED BY <2>1
<1>10. \A d \in Entry : Holds(r, d) <=> d = Root
  <2>1. r[2].op \notin {"eremove", "eupdate", "drop", "eunlock"}
    BY <1>7, <1>8
  <2>2. \A f : \A w \in {"eremove", "eupdate", "drop", "eunlock"} : ~Is(r, 2, w, f)
    BY <2>1 DEF Is
  <2> QED BY <1>8, <1>9, <2>2, HoldsIs
<1>11. LockStep(E, E2, r, p)
  <2>1. \A d \in Entry : Holds(s, d) <=> d = e \/ d = Root
    BY <1>3, <1>5, MakerHolds
  <2>2. NoProc # p
    BY ProcsAssumption
  <2>3. E[e].lock \in {p, NoProc} /\ E2[e].lock \in {p, NoProc} /\ (E2[e].lock = p <=> Holds(r, e))
    BY <1>3, <1>5, <1>10, <2>2
  <2>4. \A d \in Entry : d # e => E2[d].lock = E[d].lock /\ (Holds(r, d) <=> Holds(s, d))
    BY <1>10, <2>1
  <2> HIDE DEF e, s
  <2> QED BY <2>3, <2>4, <1>3, LockOne DEF s
<1>12. KeptBut(E, E2, p)
  <2>1. \A d \in File : d # e => E2[d] = E[d]
    BY FileEntry
  <2> QED BY <1>5, <2>1 DEF KeptBut
<1>13. CreateStep(E, E2, s, r)
  <2>1. \A d \in File : d # e => E2[d] = E[d] /\ ~Creating(s, d)
    BY <1>5, FileEntry DEF MakerOK
  <2>2. \A d \in File : CreateOK(r, d, E2[d])
    BY <1>9 DEF CreateOK, Creating, Has
  <2> QED BY <1>9, <2>1, <2>2 DEF CreateStep
<1>14. RefStep(E, E2, s, F[p], r, F[p])
  <2>1. \A d \in File : E2[d].ref = E[d].ref /\ E[d].ref \in Nat
    BY <1>1, FileEntry DEF EntDom
  <2>2. \A d \in File : Gives(r, d) => Gives(s, d)
    BY <1>1, PopHas DEF Gives
  <2>3. \A d \in File : Cnt(r, F[p], d) <= Cnt(s, F[p], d) /\ Cnt(r, F[p], d) \in Nat /\ Cnt(s, F[p], d) \in Nat
    BY <2>2 DEF Cnt, One
  <2> QED BY <2>1, <2>3 DEF RefStep
<1>15. UsesOK(r, F[p])
  <2>1. SameOpen(F[p], F[p]) /\ s[1].op \notin RefOps
    BY DEF SameOpen, RefOps
  <2> QED BY <1>1, <2>1, PopUses
<1>16. Asked(l, p, r, E2)
  <2>1. AllKeep(E, E)
    BY DEF AllKeep, Alike
  <2>2. Asked(l, p, r, E)
    BY <1>1, <2>1, PopAsked
  <2>3. \A k \in 1..Len(r) : r[k].op \in {"remove", "eremove"} => r[k].e \in Entry
    <3>1. \A k \in 1..Len(r) : Whole(r, k)
      BY <1>6 DEF SeqOK
    <3> QED BY <3>1 DEF Whole
  <2>4. \A d \in Entry : E2[d].name = E[d].name
    OBVIOUS
  <2> QED BY <2>2, <2>3, <2>4 DEF Asked
<1>17. OneStep(l, E2, p, r, F[p])
  BY <1>1, <1>6, <1>15, <1>16 DEF OneStep
<1> HIDE DEF e, s
<1> QED BY <1>1, <1>11, <1>12, <1>13, <1>14, <1>17, CtlStep DEF s

-----------------------------------------------------------------------------
(* dirlookup(), and what follows it *)
AfterForm(r, e) == /\ IsSeq(r) /\ e \in File /\ Len(r) \in {2, 3, 4} /\ r[1].op = "eunlock" /\ r[1].e = Root
  /\ \/ Len(r) = 2 /\ r[2].op = "eput" /\ r[2].e = e
     \/ Len(r) = 3 /\ r[2].op = "elock" /\ r[2].e = e /\ r[3].op \in {"opened", "remove"} /\ r[3].e = e
     \/ /\ Len(r) = 4 /\ r[2].op = "elock" /\ r[2].e = e /\ r[3].op = "eunlock" /\ r[3].e = e
        /\ r[4].op = "eput" /\ r[4].e = e
AfterFits(r, e) ==
  /\ SeqOK(r) /\ r # <<>> /\ (\A d : ~Creating(r, d) /\ (Gives(r, d) <=> d = e))
  /\ \A d \in Entry : Holds(r, d) <=> d = Root
  /\ \A k \in 1..Len(r) : r[k].op \in {"eunlock", "eput", "elock", "opened", "remove"} /\ r[k].e \in {e, Root}
LEMMA AfterFit == ASSUME NEW r, NEW e, AfterForm(r, e) PROVE AfterFits(r, e)
<1>1. e \in File /\ e # Root /\ e \in Entry /\ Root \in Entry /\ IsSeq(r) /\ Len(r) \in {2, 3, 4} /\ r # <<>>
  <2>1. e \in File /\ IsSeq(r) /\ Len(r) \in {2, 3, 4}
    BY DEF AfterForm
  <2> QED BY <2>1, FileEntry, SeqEmpty
<1>2. \A k \in 1..Len(r) : r[k].op \in {"eunlock", "eput", "elock", "opened", "remove"} /\ r[k].e \in {e, Root}
  BY DEF AfterForm
<1>3. ASSUME NEW k \in 1..Len(r) PROVE Whole(r, k) /\ Goes1(r, k) /\ Goes2(r, k) /\ Begins(r, k)
  <2>1. r[k].op \in OnFile => r[k].e # Root
    BY <1>1 DEF AfterForm, OnFile
  <2>2. Whole(r, k)
    BY <1>1, <1>2, <2>1 DEF Whole, Ops, UserStep
  <2>3. Goes1(r, k)
    <3>1. CASE k = 1
      BY <1>1, <3>1 DEF AfterForm, Goes1, Is, LastOps
    <3>2. CASE k = 2
      BY <1>1, <3>2 DEF AfterForm, Goes1, Is, LastOps
    <3>3. CASE k = 3
      BY <1>1, <3>3 DEF AfterForm, Goes1, Is, LastOps
    <3>4. CASE k = 4
      BY <1>1, <3>4 DEF AfterForm, Goes1, Is, LastOps
    <3>5. k = 1 \/ k = 2 \/ k = 3 \/ k = 4
      <4>1. \A n \in {2, 3, 4} : \A j \in 1..n : j = 1 \/ j = 2 \/ j = 3 \/ j = 4
        OBVIOUS
      <4> QED BY <4>1, <1>1, Zenon
    <3> QED BY <3>1, <3>2, <3>3, <3>4, <3>5
  <2>4. Goes2(r, k) /\ Begins(r, k)
    BY <1>2 DEF Goes2, Begins, MakeStep, UserStep
  <2> QED BY <2>2, <2>3, <2>4
<1>4. SeqOK(r)
  BY <1>1, <1>3 DEF SeqOK
<1>5. \A d : ~Creating(r, d)
  BY <1>2 DEF Creating, Has
<1>6. ASSUME NEW d PROVE Gives(r, d) <=> d = e
  <2>1. \A k \in 1..Len(r) : r[k].op \in RefOps => r[k].e = e
    BY <1>1 DEF AfterForm, RefOps
  <2>2. \E k \in 1..Len(r) : r[k].op \in RefOps /\ r[k].e = e
    <3>1. CASE Len(r) = 2
      <4>1. r[2].op \in RefOps /\ r[2].e = e /\ 2 \in 1..Len(r)
        BY <3>1 DEF AfterForm, RefOps
      <4> QED BY <4>1
    <3>2. CASE Len(r) = 3
      <4>1. r[3].op \in RefOps /\ r[3].e = e /\ 3 \in 1..Len(r)
        BY <3>2 DEF AfterForm, RefOps
      <4> QED BY <4>1
    <3>3. CASE Len(r) = 4
      <4>1. r[4].op \in RefOps /\ r[4].e = e /\ 4 \in 1..Len(r)
        BY <3>3 DEF AfterForm, RefOps
      <4> QED BY <4>1
    <3> QED BY <1>1, <3>1, <3>2, <3>3
  <2> QED BY <2>1, <2>2 DEF Gives, Has
<1>7. ASSUME NEW d \in Entry PROVE Holds(r, d) <=> d = Root
  <2>1. r[1].op = "eunlock" /\ r[1].e = Root
    BY DEF AfterForm
  <2>2. ~\E o \in {"eremove", "eupdate", "drop", "eunlock"} : Is(r, 2, o, d)
    BY <1>1 DEF AfterForm, Is
  <2> QED BY <1>1, <1>5, <2>1, <2>2, HoldsIs DEF LockedOps
<1> QED BY <1>1, <1>2, <1>4, <1>5, <1>6, <1>7 DEF AfterFits

\* nobody holds the lock of an entry without references
LEMMA UnusedFree ==
  ASSUME NEW l, NEW K, NEW E, NEW T, NEW F, CtlOK(l, K, E, T, F), NEW e \in File, E[e].ref = 0
  PROVE  E[e].lock = NoProc /\ \A p \in Procs : ~Gives(T[p], e) /\ ~FileIs(F[p], e)
<1>1. ASSUME NEW p \in Procs PROVE ~Gives(T[p], e) /\ ~FileIs(F[p], e)
  BY InUse
<1>2. ASSUME NEW p \in Procs PROVE ~Holds(T[p], e)
  <2>1. SUFFICES ASSUME Holds(T[p], e) PROVE FALSE
    OBVIOUS
  <2> DEFINE s == T[p]
  <2>2. SeqOK(s) /\ UsesOK(s, F[p]) /\ e # Root
    BY Ready, FileEntry
  <2>3. \E k \in 1..Len(s) : s[k].e = e /\ s[k].op # "lookup"
    <3>1. CASE Creating(s, e)
      BY <3>1 DEF Creating, Has
    <3>2. ASSUME NEW S, "lookup" \notin S, OnEntry(s, S, e)
          PROVE  \E k \in 1..Len(s) : s[k].e = e /\ s[k].op # "lookup"
      <4>1. s # <<>> /\ s[1].e = e /\ s[1].op # "lookup"
        BY <3>2 DEF OnEntry
      <4>2. 1 \in 1..Len(s)
        BY <2>2, <4>1, FirstIs
      <4> QED BY <4>1, <4>2
    <3>3. CASE OnEntry(s, LockedOps, e)
      <4>1. "lookup" \notin LockedOps
        BY DEF LockedOps
      <4> QED BY <3>2, <3>3, <4>1
    <3>4. ASSUME NEW o \in {"eremove", "eupdate", "drop", "eunlock"}, Is(s, 2, o, e)
          PROVE  \E k \in 1..Len(s) : s[k].e = e /\ s[k].op # "lookup"
      BY <3>4 DEF Is
    <3> QED BY <2>1, <2>2, <3>1, <3>3, <3>4 DEF Holds, HoldsEntry
  <2> QED BY <1>1, <2>2, <2>3 DEF UsesOK
<1>3. \A p \in Procs : E[e].lock # p
  BY <1>2, FileEntry DEF CtlOK, Locks
<1>4. E[e].lock \in Procs \cup {NoProc}
  BY FileEntry DEF CtlOK, EntDom
<1> QED BY <1>1, <1>3, <1>4

\* a process at dirlookup() has nothing else to do
LEMMA LookupIs ==
  ASSUME NEW l, NEW K, NEW E, NEW T, NEW F, CtlOK(l, K, E, T, F), NEW p \in Procs, T[p] # <<>>, T[p][1].op = "lookup"
  PROVE  /\ Len(T[p]) = 1 /\ E[Root].lock = p /\ (\A d : ~Creating(T[p], d) /\ ~Gives(T[p], d))
         /\ \A d \in Entry : Holds(T[p], d) <=> d = Root
<1> DEFINE s == T[p]
<1>1. SeqOK(s) /\ \A d \in Entry : E[d].lock = p <=> Holds(s, d)
  BY Ready
<1>2. Len(s) \in Nat /\ 1 \in 1..Len(s) /\ Goes1(s, 1)
  BY <1>1, FirstIs
<1>3. Len(s) = 1
  BY <1>2 DEF Goes1, LastOps
<1>4. \A d : ~Creating(s, d) /\ ~Gives(s, d)
  BY <1>3 DEF Creating, Gives, Has, RefOps
<1>5. \A d \in Entry : Holds(s, d) <=> d = Root
  BY <1>3, <1>4, HoldsIs DEF Is, LockedOps
<1> QED BY <1>1, <1>3, <1>4, <1>5, FileEntry

\* only e, and the place of the root in its chain, are changed
Looked(E, E2, e) ==
  /\ EntDom(E2) /\ e \in File /\ (\A d \in File : d # e => E2[d] = E[d])
  /\ \A d \in Entry : E2[d].lock = E[d].lock
\* dirlookup() gives the entry e another reference, or makes it the one of the file found
LEMMA CtlFound ==
  ASSUME NEW l, NEW K, NEW E, NEW T, NEW F, CtlOK(l, K, E, T, F), NEW p \in Procs, T[p] # <<>>, T[p][1].op = "lookup",
         NEW e, NEW E2, NEW T2, NEW r, AfterForm(r, e), Becomes(T, T2, p, r), Looked(E, E2, e),
         E2[e].ref = E[e].ref + 1, E2[e].valid = 1, E[e].ref = 0 \/ (E[e].valid = 1 /\ E2[e].name = E[e].name),
         \A k \in 1..Len(r) : r[k].op = "remove" => E2[e].name \in Removed(l)
  PROVE  CtlOK(l, K, E2, T2, F)
<1> DEFINE s == T[p]
<1>1. /\ UsesOK(s, F[p]) /\ EntDom(E) /\ Calls1(l, K) /\ Becomes(F, F, p, F[p]) /\ IsFile(F[p])
      /\ \A d \in Entry : E[d].lock = p <=> Holds(s, d)
  BY Ready
<1>2. AfterFits(r, e) /\ e \in File /\ e \in Entry
  BY AfterFit, FileEntry DEF AfterForm
<1>3. (\A d : ~Creating(s, d) /\ ~Gives(s, d)) /\ \A d \in Entry : Holds(s, d) <=> d = Root
  BY LookupIs
<1>4. \A d \in File : d # e => E2[d] = E[d]
  BY DEF Looked
<1>5. OneStep(l, E2, p, r, F[p])
  <2>1. UsesOK(r, F[p])
    BY <1>2 DEF AfterFits, UsesOK, UserStep
  <2>2. Asked(l, p, r, E2)
    <3>1. \A k \in 1..Len(r) : r[k].op = "remove" => r[k].e = e
      BY DEF AfterForm
    <3> QED BY <1>2, <3>1 DEF AfterFits, Asked
  <2> QED BY <1>1, <1>2, <2>1, <2>2 DEF OneStep, AfterFits
<1>6. KeptBut(E, E2, p)
  BY <1>4 DEF KeptBut
<1>7. LockStep(E, E2, r, p)
  <2>1. \A d \in Entry : E2[d].lock = E[d].lock
    BY DEF Looked
  <2>2. \A d \in Entry : Holds(r, d) <=> Holds(s, d)
    BY <1>2, <1>3 DEF AfterFits
  <2> QED BY <2>1, <2>2, LockSame
<1>8. RefStep(E, E2, s, F[p], r, F[p])
  <2> SUFFICES ASSUME NEW d \in File PROVE E2[d].ref - Cnt(r, F[p], d) >= E[d].ref - Cnt(s, F[p], d)
    BY DEF RefStep
  <2>1. E[d].ref \in Nat
    BY <1>1, FileEntry DEF EntDom
  <2>2. ~Gives(s, d) /\ (Gives(r, d) <=> d = e)
    BY <1>2, <1>3 DEF AfterFits
  <2>3. One(FileIs(F[p], d)) \in Nat
    BY DEF One
  <2>4. One(FALSE) = 0 /\ One(TRUE) = 1
    BY DEF One
  <2>5. CASE d = e
    <3>1. Cnt(r, F[p], d) = One(FileIs(F[p], d)) + 1 /\ Cnt(s, F[p], d) = One(FileIs(F[p], d)) + 0
      BY <2>2, <2>4, <2>5 DEF Cnt, One
    <3>2. E2[d].ref = E[d].ref + 1
      BY <2>5
    <3> HIDE DEF s
    <3> QED BY ONLY <2>1, <2>3, <3>1, <3>2
  <2>6. CASE d # e
    <3>1. E2[d] = E[d]
      BY <1>4, <2>6
    <3>2. Cnt(r, F[p], d) = Cnt(s, F[p], d) /\ Cnt(s, F[p], d) \in Nat
      BY <2>2, <2>6 DEF Cnt, One
    <3> QED BY <2>1, <3>1, <3>2
  <2> QED BY <2>5, <2>6
<1>9. CreateStep(E, E2, s, r)
  <2>1. \A d \in File : CreateOK(r, d, E2[d]) /\ ~Creating(r, d)
    BY <1>2 DEF AfterFits, CreateOK, Creating, Has
  <2> QED BY <1>3, <1>4, <2>1 DEF CreateStep
<1>10. EntDom(E2)
  BY DEF Looked
<1> HIDE DEF s
<1> QED BY <1>1, <1>5, <1>6, <1>7, <1>8, <1>9, <1>10, CtlStep DEF s

\* dirlookup() finds nothing, and nothing is to be made
LEMMA CtlNothing ==
  ASSUME NEW l, NEW K, NEW E, NEW T, NEW F, CtlOK(l, K, E, T, F), NEW p \in Procs, T[p] # <<>>, T[p][1].op = "lookup",
         NEW e, NEW E2, NEW T2, NEW r, IsSeq(r), Len(r) = 1, r[1].op = "eunlock", r[1].e = Root,
         Becomes(T, T2, p, r), Looked(E, E2, e), E2[e].ref = 0, E[e].ref = 0
  PROVE  CtlOK(l, K, E2, T2, F)
<1> DEFINE s == T[p]
<1>1. /\ UsesOK(s, F[p]) /\ EntDom(E) /\ Calls1(l, K) /\ Becomes(F, F, p, F[p]) /\ IsFile(F[p])
      /\ \A d \in Entry : E[d].lock = p <=> Holds(s, d)
  BY Ready
<1>2. e \in File /\ e \in Entry /\ r # <<>> /\ (\A k \in 1..Len(r) : k = 1) /\ 1 \in 1..Len(r) /\ Root \in Entry
  <2>1. e \in File /\ e \in Entry /\ Root \in Entry
    BY FileEntry DEF Looked
  <2>2. r # <<>>
    BY ONLY IsSeq(r), Len(r) = 1, SeqEmpty
  <2>3. (\A k \in 1..Len(r) : k = 1) /\ 1 \in 1..Len(r)
    BY ONLY Len(r) = 1
  <2> QED BY <2>1, <2>2, <2>3
<1>3. (\A d : ~Creating(s, d) /\ ~Gives(s, d)) /\ \A d \in Entry : Holds(s, d) <=> d = Root
  BY LookupIs
<1>4. \A d \in File : d # e => E2[d] = E[d]
  BY DEF Looked
<1>5. (\A d : ~Creating(r, d) /\ ~Gives(r, d)) /\ \A d \in Entry : Holds(r, d) <=> d = Root
  <2>1. \A d : ~Creating(r, d) /\ ~Gives(r, d)
    BY <1>2 DEF Creating, Gives, Has, RefOps
  <2>2. ASSUME NEW d \in Entry PROVE Holds(r, d) <=> d = Root
    <3>1. \A o : ~Is(r, 2, o, d)
      BY <1>2 DEF Is
    <3> QED BY <1>2, <2>1, <3>1, HoldsIs DEF LockedOps
  <2> QED BY <2>1, <2>2
<1>6. OneStep(l, E2, p, r, F[p])
  <2>1. SeqOK(r)
    BY <1>2 DEF SeqOK, Whole, Goes1, Goes2, Begins, Ops, OnFile, LastOps, MakeStep, UserStep
  <2>2. UsesOK(r, F[p]) /\ Asked(l, p, r, E2)
    BY <1>2 DEF UsesOK, Asked, UserStep
  <2> QED BY <1>1, <2>1, <2>2 DEF OneStep
<1>7. KeptBut(E, E2, p)
  BY <1>4 DEF KeptBut
<1>8. LockStep(E, E2, r, p)
  <2>1. \A d \in Entry : E2[d].lock = E[d].lock
    BY DEF Looked
  <2>2. \A d \in Entry : Holds(r, d) <=> Holds(s, d)
    BY <1>3, <1>5
  <2> QED BY <2>1, <2>2, LockSame
<1>9. RefStep(E, E2, s, F[p], r, F[p])
  <2>1. \A d \in File : E2[d].ref = E[d].ref /\ E[d].ref \in Nat
    BY <1>1, <1>4, FileEntry DEF EntDom
  <2>2. \A d \in File : Cnt(r, F[p], d) = Cnt(s, F[p], d) /\ Cnt(s, F[p], d) \in Nat
    BY <1>3, <1>5 DEF Cnt, One
  <2> QED BY <2>1, <2>2 DEF RefStep
<1>10. CreateStep(E, E2, s, r)
  <2>1. \A d \in File : CreateOK(r, d, E2[d]) /\ ~Creating(r, d)
    BY <1>5 DEF CreateOK, Creating, Has
  <2> QED BY <1>3, <1>4, <2>1 DEF CreateStep
<1>11. EntDom(E2)
  BY DEF Looked
<1> HIDE DEF s
<1> QED BY <1>1, <1>6, <1>7, <1>8, <1>9, <1>10, <1>11, CtlStep DEF s

\* v is the end of the making of e, and what follows it
ValidForm(v, e) == /\ IsSeq(v) /\ e \in File /\ Len(v) \in {3, 4, 5} /\ v[1].op = "valid" /\ v[1].e = e
  /\ v[2].op = "eunlock" /\ v[2].e = Root
  /\ \/ Len(v) = 3 /\ v[3].op = "eput" /\ v[3].e = e
     \/ Len(v) = 4 /\ v[3].op = "elock" /\ v[3].e = e /\ v[4].op = "opened" /\ v[4].e = e
     \/ /\ Len(v) = 5 /\ v[3].op = "elock" /\ v[3].e = e /\ v[4].op = "eunlock" /\ v[4].e = e
        /\ v[5].op = "eput" /\ v[5].e = e
\* a are the steps that make the entry x of number e; step n of them makes it valid
EmakeRoot(i, e, x) == i.op = "emake" /\ i.e = Root /\ i.x = e /\ i.off = x.off
ValidStep(i, e) == i.op = "valid" /\ i.e = e
FirstMakes(a, e) == /\ a[1].op = "alloc" /\ a[1].e = e /\ a[1].how = "dir" /\ a[1].sec = 0
                    /\ a[2].op = "emake" /\ a[2].e = e /\ a[2].off = 0
                    /\ a[3].op = "emake" /\ a[3].e = e /\ a[3].off = 1
MakeForm(a, e, x) == IsSeq(a) /\
  \/ Len(a) = 2 /\ EmakeRoot(a[1], e, x) /\ ValidStep(a[2], e)
  \/ Len(a) = 5 /\ EmakeRoot(a[4], e, x) /\ ValidStep(a[5], e) /\ FirstMakes(a, e)
LEMMA ValidFit ==
  ASSUME NEW v, NEW e, ValidForm(v, e)
  PROVE  /\ SeqOK(v) /\ v # <<>> /\ Len(v) \in Nat /\ (\A k \in 2..Len(v) : v[k].op # "valid")
         /\ (\A d : (Creating(v, d) <=> d = e) /\ (Gives(v, d) <=> d = e))
         /\ \A k \in 1..Len(v) : v[k].op \in {"valid", "eunlock", "eput", "elock", "opened"} /\ v[k].e \in {e, Root}
<1>1. e \in File /\ e # Root /\ e \in Entry /\ Root \in Entry /\ IsSeq(v) /\ Len(v) \in {3, 4, 5} /\ v # <<>> /\ Len(v) \in Nat
  <2>1. e \in File /\ IsSeq(v) /\ Len(v) \in {3, 4, 5}
    BY DEF ValidForm
  <2> QED BY <2>1, FileEntry, SeqEmpty
<1>2. \A k \in 1..Len(v) : v[k].op \in {"valid", "eunlock", "eput", "elock", "opened"} /\ v[k].e \in {e, Root}
  BY DEF ValidForm
<1>3. ASSUME NEW k \in 1..Len(v) PROVE Whole(v, k) /\ Goes1(v, k) /\ Goes2(v, k) /\ Begins(v, k)
  <2>1. v[k].op \in OnFile => v[k].e # Root
    BY <1>1 DEF ValidForm, OnFile
  <2>2. Whole(v, k)
    BY <1>1, <1>2, <2>1 DEF Whole, Ops, UserStep
  <2>3. Goes1(v, k)
    <3>1. CASE k = 1
      BY <1>1, <3>1 DEF ValidForm, Goes1, Is, LastOps
    <3>2. CASE k = 2
      BY <1>1, <3>2 DEF ValidForm, Goes1, Is, LastOps
    <3>3. CASE k = 3
      BY <1>1, <3>3 DEF ValidForm, Goes1, Is, LastOps
    <3>4. CASE k = 4
      BY <1>1, <3>4 DEF ValidForm, Goes1, Is, LastOps
    <3>5. CASE k = 5
      BY <1>1, <3>5 DEF ValidForm, Goes1, Is, LastOps
    <3>6. k = 1 \/ k = 2 \/ k = 3 \/ k = 4 \/ k = 5
      <4>1. \A n \in {3, 4, 5} : \A j \in 1..n : j = 1 \/ j = 2 \/ j = 3 \/ j = 4 \/ j = 5
        OBVIOUS
      <4> QED BY <4>1, <1>1, Zenon
    <3> QED BY <3>1, <3>2, <3>3, <3>4, <3>5, <3>6
  <2>4. v[k].op = "valid" => k = 1
    BY <1>1 DEF ValidForm
  <2>5. Goes2(v, k)
    <3>1. v[2].op = "eunlock" /\ v[2].e = Root /\ v[3].op \in {"eput", "elock"} /\ v[3].e = e /\ {2, 3} \subseteq 1..Len(v)
      BY <1>1 DEF ValidForm
    <3> QED BY <1>2, <2>4, <3>1 DEF Goes2, MakeStep, UserStep, Is
  <2>6. Begins(v, k)
    BY <1>2, <2>4 DEF Begins
  <2> QED BY <2>2, <2>3, <2>5, <2>6
<1>4. SeqOK(v)
  BY <1>1, <1>3 DEF SeqOK
<1>5. \A k \in 2..Len(v) : v[k].op # "valid"
  BY <1>1 DEF ValidForm
<1>6. \A d : Creating(v, d) <=> d = e
  <2>1. v[1].op = "valid" /\ v[1].e = e /\ 1 \in 1..Len(v)
    BY <1>1 DEF ValidForm
  <2>2. \A k \in 1..Len(v) : v[k].op = "valid" => k = 1
    BY <1>1, <1>5
  <2> QED BY <2>1, <2>2 DEF Creating, Has
<1>7. ASSUME NEW d PROVE Gives(v, d) <=> d = e
  <2>1. \A k \in 1..Len(v) : v[k].op \in RefOps => v[k].e = e
    <3>1. CASE Len(v) = 3
      BY <1>1, <3>1 DEF ValidForm, RefOps
    <3>2. CASE Len(v) = 4
      BY <1>1, <3>2 DEF ValidForm, RefOps
    <3>3. CASE Len(v) = 5
      BY <1>1, <3>3 DEF ValidForm, RefOps
    <3> QED BY <1>1, <3>1, <3>2, <3>3
  <2>2. \E k \in 1..Len(v) : v[k].op \in RefOps /\ v[k].e = e
    <3>1. CASE Len(v) = 3
      <4>1. v[3].op \in RefOps /\ v[3].e = e /\ 3 \in 1..Len(v)
        BY <3>1 DEF ValidForm, RefOps
      <4> QED BY <4>1
    <3>2. CASE Len(v) = 4
      <4>1. v[4].op \in RefOps /\ v[4].e = e /\ 4 \in 1..Len(v)
        BY <3>2 DEF ValidForm, RefOps
      <4> QED BY <4>1
    <3>3. CASE Len(v) = 5
      <4>1. v[5].op \in RefOps /\ v[5].e = e /\ 5 \in 1..Len(v)
        BY <3>3 DEF ValidForm, RefOps
      <4> QED BY <4>1
    <3> QED BY <1>1, <3>1, <3>2, <3>3
  <2> QED BY <2>1, <2>2 DEF Gives, Has
<1> QED BY <1>1, <1>2, <1>4, <1>5, <1>6, <1>7

LEMMA MakeFit ==
  ASSUME NEW a, NEW e, NEW x, NEW v, NEW r, ValidForm(v, e), MakeForm(a, e, x), Puts(r, a, v)
  PROVE  /\ MakerOK(r, e, x) /\ (\A d : Gives(r, d) <=> d = e)
         /\ \A k \in 1..Len(r) : /\ r[k].e \in {e, Root}
                                 /\ r[k].op \in {"valid", "eunlock", "eput", "elock", "opened", "emake", "alloc"}
<1>1. /\ SeqOK(v) /\ v # <<>> /\ (\A k \in 2..Len(v) : v[k].op # "valid") /\ Len(v) \in Nat /\ IsSeq(v)
      /\ (\A d : (Creating(v, d) <=> d = e) /\ (Gives(v, d) <=> d = e))
      /\ \A k \in 1..Len(v) : v[k].op \in {"valid", "eunlock", "eput", "elock", "opened"} /\ v[k].e \in {e, Root}
  BY ValidFit DEF SeqOK
<1>2. /\ IsSeq(a) /\ Len(a) \in {2, 5} /\ Len(a) \in Nat /\ e \in File /\ e \in Entry /\ e # Root /\ Root \in Entry
      /\ v[2].op = "eunlock" /\ v[2].e = Root /\ v[3].op \in {"eput", "elock"} /\ Len(v) >= 3 /\ v[1].op = "valid" /\ v[1].e = e
  <2>1. e \in File /\ e \in Entry /\ e # Root /\ Root \in Entry
    BY FileEntry DEF ValidForm
  <2>2. IsSeq(a) /\ Len(a) \in {2, 5} /\ Len(v) \in {3, 4, 5}
    <3>1. IsSeq(a) /\ Len(a) \in {2, 5}
      BY ONLY MakeForm(a, e, x) DEF MakeForm
    <3>2. Len(v) \in {3, 4, 5}
      BY ONLY ValidForm(v, e) DEF ValidForm
    <3> QED BY ONLY <3>1, <3>2
  <2>3. Len(a) \in Nat /\ Len(v) >= 3
    <3>1. Len(a) \in {2, 3, 4, 5} /\ Len(v) \in {3, 4, 5} /\ Len(v) \in {2, 3, 4, 5}
      BY ONLY <2>2
    <3>2. Len(a) \in Nat
      BY ONLY <3>1, FewSteps
    <3>3. Len(v) >= 3
      BY ONLY <3>1, FewSteps
    <3> QED BY ONLY <3>2, <3>3
  <2>4. v[2].op = "eunlock" /\ v[2].e = Root /\ v[3].op \in {"eput", "elock"} /\ v[1].op = "valid" /\ v[1].e = e
    BY DEF ValidForm
  <2> QED BY ONLY <2>1, <2>2, <2>3, <2>4
<1> DEFINE n == Len(a)
<1>3. /\ IsSeq(r) /\ Len(r) = n + Len(v) - 1 /\ (\A k \in 1..n : r[k] = a[k])
      /\ \A k \in 2..Len(v) : r[n + k - 1] = v[k]
  BY DEF Puts
<1>4. /\ r[n].op = "valid" /\ r[n].e = e /\ r[n-1].op = "emake" /\ r[n-1].e = Root /\ r[n-1].x = e /\ r[n-1].off = x.off
      /\ n = 5 => /\ r[1].op = "alloc" /\ r[1].e = e /\ r[1].how = "dir" /\ r[1].sec = 0
                  /\ r[2].op = "emake" /\ r[2].e = e /\ r[2].off = 0
                  /\ r[3].op = "emake" /\ r[3].e = e /\ r[3].off = 1
  <2>1. n \in 1..n /\ n - 1 \in 1..n
    <3>1. n \in {2, 5}
      BY <1>2
    <3> HIDE DEF n
    <3> QED BY ONLY <3>1
  <2>2. n = 5 => 1 \in 1..n /\ 2 \in 1..n /\ 3 \in 1..n
    OBVIOUS
  <2>3. r[n] = a[n] /\ r[n-1] = a[n-1] /\ (n = 5 => r[1] = a[1] /\ r[2] = a[2] /\ r[3] = a[3])
    BY <1>3, <2>1, <2>2
  <2>4. /\ a[n].op = "valid" /\ a[n].e = e
        /\ a[n-1].op = "emake" /\ a[n-1].e = Root /\ a[n-1].x = e /\ a[n-1].off = x.off
        /\ n = 5 => /\ a[1].op = "alloc" /\ a[1].e = e /\ a[1].how = "dir" /\ a[1].sec = 0
                    /\ a[2].op = "emake" /\ a[2].e = e /\ a[2].off = 0
                    /\ a[3].op = "emake" /\ a[3].e = e /\ a[3].off = 1
    <3>1. \/ n = 2 /\ EmakeRoot(a[1], e, x) /\ ValidStep(a[2], e)
          \/ n = 5 /\ EmakeRoot(a[4], e, x) /\ ValidStep(a[5], e) /\ FirstMakes(a, e)
      BY ONLY MakeForm(a, e, x) DEF MakeForm
    <3>2. EmakeRoot(a[n-1], e, x) /\ ValidStep(a[n], e) /\ (n = 5 => FirstMakes(a, e))
      <4> HIDE DEF n
      <4>1. n = 2 => n - 1 = 1 /\ n # 5
        OBVIOUS
      <4>2. n = 5 => n - 1 = 4
        OBVIOUS
      <4> QED BY ONLY <3>1, <4>1, <4>2, Zenon
    <3> QED BY ONLY <3>2 DEF EmakeRoot, ValidStep, FirstMakes
  <2> HIDE DEF n
  <2> QED BY ONLY <2>3, <2>4
<1>5. r[n+1].op = "eunlock" /\ r[n+1].e = Root /\ r[n+2].op \in {"eput", "elock"} /\ n + 2 \in 1..Len(r) /\ n + 1 \in 1..Len(r) /\ n \in 1..Len(r)
  <2>1. n + 1 = n + 2 - 1 /\ n + 2 = n + 3 - 1 /\ 2 \in 2..Len(v) /\ 3 \in 2..Len(v)
    BY <1>1, <1>2
  <2>2. r[n+1] = v[2] /\ r[n+2] = v[3]
    BY <1>3, <2>1
  <2>3. n + 2 \in 1..Len(r) /\ n + 1 \in 1..Len(r) /\ n \in 1..Len(r)
    <3>1. n \in {2, 5} /\ Len(v) \in Nat /\ Len(v) >= 3 /\ Len(r) = n + Len(v) - 1
      BY <1>1, <1>2, <1>3
    <3> HIDE DEF n
    <3> QED BY ONLY <3>1
  <2> QED BY <1>2, <2>2, <2>3
<1> HIDE DEF n
<1>6. n = 2 \/ n = 5
  BY <1>2 DEF n
<1>7. ASSUME NEW k \in 1..n PROVE r[k].op \in {"valid", "emake", "alloc"} /\ r[k].e \in {e, Root} /\ (r[k].op = "valid" => k = n)
  BY <1>4, <1>6
<1>8. ASSUME NEW k \in 1..n PROVE IsOK(r, k)
  <2>1. CASE k = n
    <3>1. \A j \in 1..(n-1) : r[j].op \in MakeOps
      BY <1>4, <1>6 DEF MakeOps
    <3>2. Whole(r, k) /\ Goes1(r, k) /\ Begins(r, k)
      BY <2>1, <3>1, <1>2, <1>4 DEF Whole, Goes1, Begins, Ops, OnFile, LastOps, UserStep
    <3>3. Goes2(r, k)
      BY <2>1, <1>4, <1>5, <1>6 DEF Goes2, MakeStep, UserStep, Is
    <3> QED BY <3>2, <3>3 DEF IsOK
  <2>2. CASE k = n - 1
    <3>1. Whole(r, k) /\ Goes1(r, k) /\ Begins(r, k)
      BY <2>2, <1>2, <1>4 DEF Whole, Goes1, Begins, Ops, OnFile, LastOps, UserStep
    <3>2. Goes2(r, k)
      <4>1. k + 1 = n /\ n \in (k+1)..Len(r)
        BY <1>5, <1>6, <2>2
      <4> QED BY <2>2, <4>1, <1>4 DEF Goes2, MakeStep, UserStep
    <3> QED BY <3>1, <3>2 DEF IsOK
  <2>3. CASE n = 5 /\ k \in {2, 3}
    <3>1. Whole(r, k) /\ Goes1(r, k) /\ Begins(r, k)
      BY <2>3, <1>2, <1>4 DEF Whole, Goes1, Begins, Ops, OnFile, LastOps, UserStep
    <3>2. Goes2(r, k)
      <4>1. n \in (k+1)..Len(r) /\ r[k+1].op = "emake"
        BY <1>4, <1>5, <2>3
      <4> QED BY <2>3, <4>1, <1>2, <1>4 DEF Goes2, MakeStep, UserStep
    <3> QED BY <3>1, <3>2 DEF IsOK
  <2>4. CASE n = 5 /\ k = 1
    <3>1. Whole(r, k) /\ Goes1(r, k) /\ Goes2(r, k)
      BY <2>4, <1>2, <1>4 DEF Whole, Goes1, Goes2, Ops, OnFile, LastOps, UserStep, MakeStep
    <3>2. Begins(r, k)
      <4>1. r[k].op = "alloc" /\ r[k].e = e /\ r[k].how = "dir" /\ r[k].sec = 0 /\ k = 1 /\ e # Root
        BY <2>4, <1>2, <1>4
      <4>2. 0 \in 0..(FATSZ-1)
        BY SizesAssumption
      <4>3. r[k+1].op = "emake" /\ r[k+1].e = e /\ k + 1 \in 1..Len(r)
        BY <2>4, <1>4, <1>5
      <4> QED BY ONLY <4>1, <4>2, <4>3 DEF Begins, Is
    <3> QED BY <3>1, <3>2 DEF IsOK
  <2> QED BY <2>1, <2>2, <2>3, <2>4, <1>6
<1>9. SeqOK(r)
  BY <1>1, <1>2, <1>8, PutsOK DEF n
<1>10. ASSUME NEW k \in 1..Len(r)
       PROVE  k \in 1..n \/ \E m \in 2..Len(v) : r[k] = v[m]
  <2>1. ASSUME NEW m \in Nat, NEW y \in Nat, NEW z \in 1..(m + y - 1), z > m
        PROVE  z - m + 1 \in 2..y /\ m + (z - m + 1) - 1 = z
    BY <2>1
  <2>2. n \in Nat /\ Len(v) \in Nat /\ k \in 1..(n + Len(v) - 1)
    BY <1>1, <1>3, <1>6
  <2>3. CASE k > n
    <3>1. k - n + 1 \in 2..Len(v) /\ n + (k - n + 1) - 1 = k
      BY ONLY <2>1, <2>2, <2>3
    <3>2. r[n + (k - n + 1) - 1] = v[k - n + 1]
      BY ONLY <3>1, <1>3 DEF n
    <3> QED BY <3>1, <3>2
  <2>4. CASE ~(k > n)
    BY <2>2, <2>4
  <2> QED BY <2>3, <2>4
<1>11. \A k \in 1..Len(r) : /\ r[k].e \in {e, Root}
                            /\ r[k].op \in {"valid", "eunlock", "eput", "elock", "opened", "emake", "alloc"}
                            /\ r[k].op = "valid" => k = n
  <2> SUFFICES ASSUME NEW k \in 1..Len(r)
               PROVE  /\ r[k].e \in {e, Root}
                      /\ r[k].op \in {"valid", "eunlock", "eput", "elock", "opened", "emake", "alloc"}
                      /\ r[k].op = "valid" => k = n
    OBVIOUS
  <2>1. CASE k \in 1..n
    BY <1>7, <2>1
  <2>2. ASSUME NEW m \in 2..Len(v), r[k] = v[m]
        PROVE  /\ v[m].e \in {e, Root}
               /\ v[m].op \in {"valid", "eunlock", "eput", "elock", "opened", "emake", "alloc"}
               /\ v[m].op # "valid"
    <3>1. m \in 1..Len(v)
      OBVIOUS
    <3> QED BY <3>1, <1>1
  <2> QED BY <1>10, <2>1, <2>2
<1>12. \A d : Creating(r, d) <=> d = e
  BY <1>4, <1>5, <1>11 DEF Creating, Has
<1>13. ASSUME NEW d PROVE Gives(r, d) <=> d = e
  <2>1. ~Has(a, RefOps, d)
    <3>1. \A k \in 1..n : a[k].op \notin RefOps
      <4>1. \A k \in 1..n : r[k] = a[k]
        BY <1>3 DEF n
      <4> QED BY <1>7, <4>1 DEF RefOps
    <3> QED BY <3>1 DEF Has, n
  <2>2. v[1].op \notin RefOps
    BY <1>2 DEF RefOps
  <2>3. /\ Has(r, RefOps, d) <=> Has(a, RefOps, d) \/ HasRest(v, RefOps, d)
        /\ Has(v, RefOps, d) <=> (v[1].op \in RefOps /\ v[1].e = d) \/ HasRest(v, RefOps, d)
    BY <1>1, <1>2, PutsHas
  <2> QED BY <1>1, <2>1, <2>2, <2>3 DEF Gives
<1>14. CreateOK(r, e, x)
  <2> SUFFICES ASSUME NEW w \in 1..Len(r), r[w].op = "valid", NEW k \in 1..(w-1) PROVE Makes(r, k, w, e, x)
    BY DEF CreateOK
  <2>1. w = n
    BY <1>11
  <2>2. CASE k = n - 1
    BY <2>1, <2>2, <1>4 DEF Makes
  <2>3. CASE n = 5 /\ k = 1
    <3>1. r[k].op = "alloc" /\ r[k].e = e /\ r[k].how = "dir" /\ k = w - 4
      BY <2>1, <2>3, <1>4
    <3> QED BY <3>1 DEF Makes
  <2>4. CASE n = 5 /\ k = 2
    <3>1. r[k].op = "emake" /\ r[k].e = e /\ r[k].off = 0 /\ k = w - 3
      BY <2>1, <2>4, <1>4
    <3> QED BY <3>1 DEF Makes
  <2>5. CASE n = 5 /\ k = 3
    <3>1. r[k].op = "emake" /\ r[k].e = e /\ r[k].off = 1 /\ k = w - 2
      BY <2>1, <2>5, <1>4
    <3> QED BY <3>1 DEF Makes
  <2> QED BY <2>1, <2>2, <2>3, <2>4, <2>5, <1>6
<1>15. r # <<>>
  <2>1. Len(r) >= 1
    BY <1>5, <1>6
  <2> QED BY ONLY <2>1, <1>3, SeqEmpty
<1>16. r[1].op \in MakeOps /\ r[1].e \in {e, Root}
  BY <1>4, <1>6 DEF MakeOps
<1> QED BY <1>9, <1>11, <1>12, <1>13, <1>14, <1>15, <1>16 DEF MakerOK

\* dirlookup() finds nothing, and the entry e is to be made
LEMMA CtlMake ==
  ASSUME NEW l, NEW K, NEW E, NEW T, NEW F, CtlOK(l, K, E, T, F), NEW p \in Procs, T[p] # <<>>, T[p][1].op = "lookup",
         NEW E2, NEW T2, NEW e, NEW a, NEW v, NEW r, ValidForm(v, e), MakeForm(a, e, E2[e]), Puts(r, a, v), Becomes(T, T2, p, r),
         EntDom(E2), Fresh(E2[e]), E2[e].lock = p, E[e].ref = 0,
         \A d \in Entry : d # e => E2[d].lock = E[d].lock /\ (d # Root => E2[d] = E[d])
  PROVE  CtlOK(l, K, E2, T2, F)
<1> DEFINE s == T[p]
           x == E2[e]
<1> HIDE DEF x
<1>1. /\ UsesOK(s, F[p]) /\ EntDom(E) /\ Calls1(l, K) /\ Becomes(F, F, p, F[p]) /\ IsFile(F[p])
      /\ \A d \in Entry : E[d].lock = p <=> Holds(s, d)
  BY Ready
<1>2. e \in File /\ e \in Entry /\ e # Root /\ Root \in Entry
  BY FileEntry DEF ValidForm
<1>3. (\A d : ~Creating(s, d) /\ ~Gives(s, d)) /\ \A d \in Entry : Holds(s, d) <=> d = Root
  BY LookupIs
<1>4. /\ MakerOK(r, e, x) /\ (\A d : Gives(r, d) <=> d = e)
      /\ \A k \in 1..Len(r) : /\ r[k].e \in {e, Root}
                              /\ r[k].op \in {"valid", "eunlock", "eput", "elock", "opened", "emake", "alloc"}
  BY MakeFit DEF x
<1>5. \A d \in File : d # e => E2[d] = E[d]
  BY FileEntry
<1>6. OneStep(l, E2, p, r, F[p])
  <2>1. UsesOK(r, F[p])
    BY <1>4 DEF UsesOK, UserStep
  <2>2. Asked(l, p, r, E2)
    BY <1>4 DEF Asked
  <2> QED BY <1>1, <1>4, <2>1, <2>2 DEF OneStep, MakerOK
<1>7. KeptBut(E, E2, p)
  BY <1>5 DEF KeptBut
<1>8. LockStep(E, E2, r, p)
  <2>1. E[e].lock = NoProc
    BY <1>2, UnusedFree
  <2>2. \A d \in Entry : Holds(r, d) <=> d = e \/ d = Root
    BY <1>2, <1>4, MakerHolds
  <2>3. \A d \in Entry : d # e => E2[d].lock = E[d].lock /\ (Holds(r, d) <=> Holds(s, d))
    BY <1>3, <2>2
  <2> HIDE DEF s
  <2> QED BY <2>1, <2>2, <2>3, <1>2, LockOne DEF s
<1>9. RefStep(E, E2, s, F[p], r, F[p])
  <2> SUFFICES ASSUME NEW d \in File PROVE E2[d].ref - Cnt(r, F[p], d) >= E[d].ref - Cnt(s, F[p], d)
    BY DEF RefStep
  <2>1. E[d].ref \in Nat
    BY <1>1, FileEntry DEF EntDom
  <2>2. ~Gives(s, d) /\ (Gives(r, d) <=> d = e)
    BY <1>3, <1>4
  <2>3. One(FileIs(F[p], d)) \in Nat /\ One(FALSE) = 0 /\ One(TRUE) = 1
    BY DEF One
  <2>4. CASE d = e
    <3>1. Cnt(r, F[p], d) = One(FileIs(F[p], d)) + 1 /\ Cnt(s, F[p], d) = One(FileIs(F[p], d)) + 0
      BY <2>2, <2>3, <2>4 DEF Cnt, One
    <3>2. E2[d].ref = 1 /\ E[d].ref = 0
      BY <2>4 DEF Fresh
    <3> HIDE DEF s
    <3> QED BY ONLY <2>1, <2>3, <3>1, <3>2
  <2>5. CASE d # e
    <3>1. E2[d] = E[d]
      BY <1>5, <2>5
    <3>2. Cnt(r, F[p], d) = Cnt(s, F[p], d) /\ Cnt(s, F[p], d) \in Nat
      BY <2>2, <2>5 DEF Cnt, One
    <3> QED BY <2>1, <3>1, <3>2
  <2> QED BY <2>4, <2>5
<1>10. CreateStep(E, E2, s, r)
  <2>1. ASSUME NEW d \in File PROVE CreateOK(r, d, E2[d]) /\ (Creating(r, d) => d = e) /\ (d = e => Creating(r, d))
    <3>1. CASE d = e
      BY <3>1, <1>4 DEF MakerOK, x
    <3>2. CASE d # e
      <4>1. ~Creating(r, d)
        BY <3>2, <1>4 DEF MakerOK
      <4> QED BY <3>2, <4>1 DEF CreateOK, Creating, Has
    <3> QED BY <3>1, <3>2
  <2> QED BY <1>3, <1>5, <2>1 DEF CreateStep
<1> HIDE DEF s
<1> QED BY <1>1, <1>6, <1>7, <1>8, <1>9, <1>10, CtlStep DEF s

-----------------------------------------------------------------------------
(* The table, the chains and the directory *)
InMem(x) == x.valid = 1 \/ x.ref > 0
Cut(T, e) == \E p \in Procs : OnEntry(T[p], {"etrunc"}, e)
Made(T, e) == \E p \in Procs : Creating(T[p], e)
Bound(E, T, e) == E[e].valid = 1 \/ Made(T, e)
\* who has clusters, and from which one on: entries, the clusters that a process frees or
\* is about to link, and files that are on disk only
EntryHead(E, T, e) == IF InMem(E[e]) /\ ~Cut(T, e) THEN E[e].first ELSE 0
Held(s) == IF s = <<>> THEN 0
           ELSE IF s[1].op = "etrunc" THEN s[1].c ELSE IF s[1].op = "link" THEN s[1].sec ELSE 0
OnDisk(E, T, D, g) == g \in Groups(D) /\ \A e \in File : Bound(E, T, e) => E[e].off # g
DiskHead(E, T, D, g) == IF OnDisk(E, T, D, g) THEN GInfo(D, g).first ELSE 0
Ie(e) == <<"entry", e>>
Ip(p) == <<"process", p>>
Ig(g) == <<"disk", g>>
Idx == {Ie(e) : e \in Entry} \cup {Ip(p) : p \in Procs} \cup {Ig(g) : g \in Nat}
Heads(E, T, D) ==
  [i \in Idx |-> IF i[1] = "entry" THEN EntryHead(E, T, i[2])
                 ELSE IF i[1] = "process" THEN Held(T[i[2]]) ELSE DiskHead(E, T, D, i[2])]

HeadsOK(h, t) == \A x, y \in Idx : Cl(h[x]) => IsHead(t, h[x]) /\ (h[x] = h[y] => x = y)
NumsOK(h) == \A x \in Idx : h[x] \in {0, EOC} \cup (2..LAST)
Covered(h, t) == \A c \in 2..LAST : t[c] # 0 /\ t[c] # BAD =>
                    \E x \in Idx, n \in Nat : Cl(h[x]) /\ To(t, h[x], n) = c
Marks(t, u) == \A c \in 2..LAST : t[c] = BAD <=> u[c] = BAD
TabDom(t) == t \in [Cluster -> Nat] /\ t[0] # 0 /\ t[1] # 0
FatOK(l, h, t) == TableOK(t) /\ TabDom(t) /\ Marks(t, l.fat) /\ HeadsOK(h, t) /\ NumsOK(h) /\ Covered(h, t)
DatDom(d) == d = [c \in Cluster |-> d[c]]

\* the current cluster of an entry is one of its chain
CurOK(E, T, t) == \A e \in Entry : InMem(E[e]) /\ Cl(E[e].first) /\ ~Cut(T, e) =>
  At1(t, E[e].first, E[e].cur, E[e].cnt)
\* what a process relies on
GrowOK(i, E, t) == IF i.how = "more" THEN Cl(E[i.e].first) /\ t[E[i.e].cur] = EOC ELSE E[i.e].first = 0
\* what a step is that its process goes on with
Shaped(i) ==
  /\ i.op = "etrunc" => i = [op |-> "etrunc", e |-> i.e, c |-> i.c]
  /\ i.op = "alloc" => i = [op |-> "alloc", e |-> i.e, sec |-> i.sec, how |-> i.how]
LocalOK(s, E, t, d) == s # <<>> => LET i == s[1] IN
  /\ Shaped(i)
  /\ i.op \in {"store", "emake"} => Cl(E[i.e].first)
  /\ i.op \in {"alloc", "link"} => GrowOK(i, E, t)
  /\ i.op = "link" => d[i.sec] = Zeros /\ t[i.sec] = EOC
  /\ i.op = "etrunc" /\ Is(s, 2, "drop", i.e) => E[i.e].valid = -1
  /\ i.op = "wrote" => E[i.e].first # 0 \/ i.off <= E[i.e].size
  /\ i.op = "eupdate" => E[i.e].valid = 1
  /\ i.op = "elock" /\ i.e = Root => \A e \in File : Is(s, 2, "eupdate", e) => E[e].valid = 1
  /\ \A e \in File : (i.op = "drop" /\ i.e = e) \/ (i.op = "eunlock" /\ i.e = Root /\ Is(s, 2, "drop", e)) =>
       (E[e].valid = 1 => Clean(E[e])) /\ (E[e].valid = -1 => E[e].first = 0)
Sizes(E) == \A e \in Entry : /\ E[e].first = 0 \/ Cl(E[e].first)
                             /\ E[e].size \in Nat /\ E[e].off \in Nat
                             /\ E[e].size > 0 => E[e].first # 0
RootOK(E) == E[Root].first = 2 /\ E[Root].valid = 1
\* how far the slots of the entry x are written that s makes
WrittenTo(s, x) ==
  IF OnEntry(s, {"store"}, Root) THEN s[1].off
  ELSE IF OnEntry(s, {"alloc", "link"}, Root) THEN s[2].off
  ELSE IF s[1].op = "valid" THEN x.off + Len(x.name) + 1
  ELSE x.off
MadeSoFar(D, x, s) ==
  /\ Partly(D, x.off, WrittenTo(s, x), x.name, Short(<<>>, x))
  /\ x.off >= 2 /\ \A g \in Groups(D) : g # x.off => GName(D, g) # x.name
DirShape(D) == \E N \in Nat : Regular(D, N) /\ Free(D, N)
DirOK(E, T, D) ==
  /\ (\A p \in Procs, e \in File : ~Creating(T[p], e)) => DirShape(D)
  /\ \A p \in Procs, e \in File : Creating(T[p], e) => MadeSoFar(D, E[e], T[p])
NamesOK(l, D) ==
  /\ \A g, h \in Groups(D) : GName(D, g) = GName(D, h) => g = h
  /\ \A g \in Groups(D) : GName(D, g) \in Names /\ IsShort(GInfo(D, g))
  /\ \E g \in Groups(D) : GName(D, g) \notin Removed(l)
\* an entry in memory agrees with its slots
InStep(x, D) ==
  /\ x.off \in Groups(D) /\ GName(D, x.off) = x.name /\ GInfo(D, x.off).dir = x.dir
  /\ Clean(x) => GInfo(D, x.off).first = x.first /\ GInfo(D, x.off).size = x.size
  /\ x.ref = 0 => Clean(x)
CacheOK(E, T, D) ==
  /\ \A e \in File : E[e].valid = 1 => InStep(E[e], D)
  /\ \A e, f \in File : Bound(E, T, e) /\ Bound(E, T, f) /\ E[e].off = E[f].off => e = f
DiskOK(l, E, T, t, d, D) ==
  /\ FatOK(l, Heads(E, T, D), t) /\ DatDom(d) /\ CurOK(E, T, t) /\ (\A p \in Procs : LocalOK(T[p], E, t, d))
  /\ Sizes(E) /\ RootOK(E) /\ DirOK(E, T, D) /\ NamesOK(l, D) /\ CacheOK(E, T, D)

LEMMA IdxIs ==
  /\ (\A e \in Entry : Ie(e) \in Idx) /\ (\A p \in Procs : Ip(p) \in Idx) /\ (\A g \in Nat : Ig(g) \in Idx)
  /\ \A x \in Idx : (\E e \in Entry : x = Ie(e)) \/ (\E p \in Procs : x = Ip(p)) \/ (\E g \in Nat : x = Ig(g))
BY DEF Idx
LEMMA IdxApart ==
  /\ \A e, f : Ie(e) = Ie(f) <=> e = f
  /\ \A e, f : Ip(e) = Ip(f) <=> e = f
  /\ \A e, f : Ig(e) = Ig(f) <=> e = f
  /\ \A e, f : Ie(e) # Ip(f) /\ Ie(e) # Ig(f) /\ Ip(e) # Ig(f) /\ Ip(e) # Ie(f) /\ Ig(e) # Ie(f) /\ Ig(e) # Ip(f)
BY DEF Ie, Ip, Ig
LEMMA HeadsIs ==
  ASSUME NEW E, NEW T, NEW D
  PROVE  /\ \A e \in Entry : Heads(E, T, D)[Ie(e)] = EntryHead(E, T, e)
         /\ \A p \in Procs : Heads(E, T, D)[Ip(p)] = Held(T[p])
         /\ \A g \in Nat : Heads(E, T, D)[Ig(g)] = DiskHead(E, T, D, g)
<1> DEFINE H(i) == IF i[1] = "entry" THEN EntryHead(E, T, i[2])
                   ELSE IF i[1] = "process" THEN Held(T[i[2]]) ELSE DiskHead(E, T, D, i[2])
<1>1. Heads(E, T, D) = [i \in Idx |-> H(i)]
  BY DEF Heads
<1>2. \A e \in Entry : H(Ie(e)) = EntryHead(E, T, e)
  BY DEF Ie
<1>3. \A p \in Procs : H(Ip(p)) = Held(T[p])
  BY DEF Ip
<1>4. \A g \in Nat : H(Ig(g)) = DiskHead(E, T, D, g)
  BY DEF Ig
<1> HIDE DEF H
<1>5. \A i \in Idx : Heads(E, T, D)[i] = H(i)
  BY <1>1
<1> QED BY <1>2, <1>3, <1>4, <1>5, IdxIs

\* the same heads but for x
But(h, h2, x) == \A y \in Idx : y # x => h2[y] = h[y]
\* clusters go from x to y
Moves(h, h2, x, y) == \A z \in Idx : z # x /\ z # y => h2[z] = h[z]
Alikes(h, h2) == \A z \in Idx : h2[z] = h[z] \/ (~Cl(h[z]) /\ h2[z] \in {0, EOC})
LEMMA ClNot == ~Cl(0) /\ ~Cl(EOC) /\ \A c : Cl(c) => c \in Nat /\ c # 0 /\ c # EOC /\ c # 1 /\ c < EOC /\ IsCluster(c) /\ c \in Cluster
BY Bounds DEF Cl, IsCluster
LEMMA FatAlike ==
  ASSUME NEW l, NEW h, NEW t, FatOK(l, h, t), NEW h2, Alikes(h, h2)
  PROVE  FatOK(l, h2, t)
<1>1. \A x \in Idx : Cl(h2[x]) \/ Cl(h[x]) => h2[x] = h[x]
  BY ClNot DEF Alikes
<1>2. HeadsOK(h2, t)
  BY <1>1 DEF FatOK, HeadsOK
<1>3. NumsOK(h2)
  BY DEF FatOK, NumsOK, Alikes
<1>4. Covered(h2, t)
  BY <1>1 DEF FatOK, Covered
<1> QED BY <1>2, <1>3, <1>4 DEF FatOK
LEMMA FatMove ==
  ASSUME NEW l, NEW h, NEW t, FatOK(l, h, t), NEW h2, NEW x \in Idx, NEW y \in Idx, x # y, Moves(h, h2, x, y),
         ~Cl(h[y]), h2[y] = h[x], h2[x] \in {0, EOC}
  PROVE  FatOK(l, h2, t)
<1>1. /\ \A z \in Idx : z # x /\ z # y => h2[z] = h[z]
      /\ ~Cl(h2[x])
  BY ClNot DEF Moves
<1>2. HeadsOK(h2, t)
  BY <1>1 DEF FatOK, HeadsOK
<1>3. NumsOK(h2)
  BY <1>1 DEF FatOK, NumsOK
<1>4. Covered(h2, t)
  <2> SUFFICES ASSUME NEW c \in 2..LAST, t[c] # 0, t[c] # BAD
               PROVE  \E z \in Idx, n \in Nat : Cl(h2[z]) /\ To(t, h2[z], n) = c
    BY DEF Covered
  <2>1. PICK z \in Idx, n \in Nat : Cl(h[z]) /\ To(t, h[z], n) = c
    BY DEF FatOK, Covered
  <2>2. CASE z = x
    BY <2>1, <2>2
  <2>3. CASE z # x
    BY <2>1, <2>3, <1>1
  <2> QED BY <2>2, <2>3
<1> QED BY <1>2, <1>3, <1>4 DEF FatOK

\* a process frees the first cluster of the chain that it holds
LEMMA FatCut ==
  ASSUME NEW l, NEW h, NEW t, FatOK(l, h, t), NEW h2, NEW x \in Idx, But(h, h2, x), Cl(h[x]),
         NEW t2, Puts1(t, h[x], 0, t2), h2[x] = t[h[x]]
  PROVE  /\ FatOK(l, h2, t2)
         /\ \A g : IsHead(t, g) /\ g # h[x] =>
              IsHead(t2, g) /\ \A n \in Nat : /\ To(t2, g, n) = To(t, g, n) /\ To(t, g, n) # h[x]
                                              /\ Live(t, To(t, g, n)) => t2[To(t, g, n)] = t[To(t, g, n)]
<1> DEFINE c == h[x]
<1>1. TableOK(t) /\ t \in [Cluster -> Nat] /\ IsHead(t, c) /\ c \in 2..LAST /\ Live(t, c)
  BY DEF FatOK, TabDom, HeadsOK, Cl, IsHead
<1>2. c \in Cluster /\ c # 0 /\ c # 1
  BY ClNot
<1> HIDE DEF c
<1>3. /\ TableOK(t2)
      /\ t[c] = EOC \/ IsHead(t2, t[c])
      /\ \A n \in Nat : t[c] # EOC => To(t2, t[c], n) = To(t, c, n + 1)
      /\ \A y : Live(t, y) /\ y # c => Live(t2, y) /\ t2[y] = t[y]
      /\ \A g : IsHead(t, g) /\ g # c =>
           t[c] # g /\ IsHead(t2, g) /\ \A n \in Nat : To(t2, g, n) = To(t, g, n)
  <2>1. Puts1(t, c, 0, t2)
    BY DEF c
  <2> QED BY <1>1, <2>1, TableCut
<1>4. t2 \in [Cluster -> Nat] /\ \A y \in Cluster : t2[y] = IF y = c THEN 0 ELSE t[y]
  BY <1>1, <1>2 DEF c, Puts1
<1>5. 0 \in Cluster /\ 1 \in Cluster /\ (2..LAST) \subseteq Cluster /\ EOC # 0 /\ BAD # 0 /\ BAD \notin 2..LAST /\ EOC \notin 2..LAST
      /\ BAD # EOC
  BY Bounds
<1>6. TabDom(t2)
  <2>1. t[0] # 0 /\ t[1] # 0
    BY DEF FatOK, TabDom
  <2> QED BY <1>2, <1>4, <1>5, <2>1 DEF TabDom
<1>7. Marks(t2, l.fat)
  <2>1. t[c] # BAD
    BY <1>1 DEF Live
  <2>2. \A y \in 2..LAST : t[y] = BAD <=> l.fat[y] = BAD
    BY DEF FatOK, Marks
  <2>3. \A y \in 2..LAST : t2[y] = BAD <=> t[y] = BAD
    BY <1>4, <1>5, <2>1
  <2> QED BY <2>2, <2>3 DEF Marks
<1>8. Live(t, c) => t[c] = EOC \/ Live(t, t[c])
  BY <1>1, SuccIs
<1>9. \A y \in Idx : y # x => h2[y] = h[y] /\ h[y] # c /\ (Cl(h[y]) => IsHead(t, h[y]))
  BY <1>1 DEF But, FatOK, HeadsOK, c, Cl
<1>10. h2[x] = t[c]
  BY DEF c
<1>11. HeadsOK(h2, t2)
  <2> SUFFICES ASSUME NEW y \in Idx, NEW z \in Idx, Cl(h2[y])
               PROVE  IsHead(t2, h2[y]) /\ (h2[y] = h2[z] => y = z)
    BY DEF HeadsOK
  <2>1. CASE y = x
    <3>1. t[c] # EOC
      BY <2>1, <1>10, ClNot
    <3>2. ASSUME z # x, h2[y] = h2[z] PROVE FALSE
      <4>1. h[z] = t[c] /\ IsHead(t, h[z])
        BY <1>9, <1>10, <2>1, <3>2
      <4>2. h[z] # c
        BY <1>9, <3>2
      <4> QED BY <1>3, <4>1, <4>2
    <3> QED BY <1>3, <1>10, <2>1, <3>1, <3>2
  <2>2. CASE y # x
    <3>1. IsHead(t, h[y]) /\ h[y] # c /\ h2[y] = h[y]
      BY <1>9, <2>2
    <3>2. IsHead(t2, h[y]) /\ t[c] # h[y]
      BY <1>3, <3>1
    <3>3. CASE z = x
      BY <3>1, <3>2, <3>3, <1>10
    <3>4. CASE z # x
      BY <3>1, <3>2, <3>4, <1>9 DEF FatOK, HeadsOK
    <3> QED BY <3>3, <3>4
  <2> QED BY <2>1, <2>2
<1>12. NumsOK(h2)
  <2>1. t[c] \in {0, EOC} \cup (2..LAST)
    BY <1>1, <1>8 DEF Live
  <2> QED BY <2>1, <1>9, <1>10 DEF FatOK, NumsOK
<1>13. Covered(h2, t2)
  <2> SUFFICES ASSUME NEW y \in 2..LAST, t2[y] # 0, t2[y] # BAD
               PROVE  \E z \in Idx, n \in Nat : Cl(h2[z]) /\ To(t2, h2[z], n) = y
    BY DEF Covered
  <2>1. y # c /\ t[y] # 0 /\ t[y] # BAD
    BY <1>4, <1>5
  <2>2. PICK z \in Idx, n \in Nat : Cl(h[z]) /\ To(t, h[z], n) = y
    BY <2>1 DEF FatOK, Covered
  <2>3. CASE z # x
    <3>1. IsHead(t, h[z]) /\ h[z] # c /\ h2[z] = h[z]
      BY <1>9, <2>2, <2>3
    <3>2. To(t2, h[z], n) = y
      BY <1>3, <2>2, <3>1
    <3> QED BY <2>2, <3>1, <3>2
  <2>4. CASE z = x
    <3>1. To(t, c, n) = y
      BY <2>2, <2>4 DEF c
    <3>2. n # 0
      BY <3>1, <2>1, ToIs
    <3>3. n - 1 \in Nat /\ (n - 1) + 1 = n
      BY <3>2
    <3>4. t[c] # EOC
      <4>1. SUFFICES ASSUME t[c] = EOC PROVE FALSE
        OBVIOUS
      <4>2. To(t, c, 0) = c /\ To(t, c, 0 + 1) = Succ(t)[To(t, c, 0)]
        BY ToIs
      <4>3. Succ(t)[c] = t[c]
        BY <1>1, SuccIs
      <4>4. To(t, c, 1) = EOC
        BY <4>1, <4>2, <4>3
      <4>5. 1 <= n
        BY <3>2
      <4>6. To(t, c, n) = EOC
        BY <1>1, <4>4, <4>5, EndStays
      <4> QED BY <4>6, <3>1, <1>5
    <3>5. To(t2, t[c], n - 1) = y
      BY <1>3, <3>1, <3>3, <3>4
    <3>6. Cl(t[c])
      BY <1>1, <1>8, <3>4 DEF Live, Cl
    <3> QED BY <3>3, <3>5, <3>6, <1>10, <2>4
  <2> QED BY <2>3, <2>4
<1>14. ASSUME NEW g, IsHead(t, g), g # c
       PROVE  IsHead(t2, g) /\ \A n \in Nat : /\ To(t2, g, n) = To(t, g, n) /\ To(t, g, n) # c
                                              /\ Live(t, To(t, g, n)) => t2[To(t, g, n)] = t[To(t, g, n)]
  <2>1. IsHead(t2, g) /\ \A n \in Nat : To(t2, g, n) = To(t, g, n)
    BY <1>3, <1>14
  <2>2. ASSUME NEW n \in Nat, To(t, g, n) = c PROVE FALSE
    <3>1. To(t, c, 0) = c
      BY ToIs
    <3>2. c # EOC
      BY <1>1, <1>5
    <3> QED BY <1>1, <1>14, <2>2, <3>1, <3>2, Apart
  <2>3. \A n \in Nat : Live(t, To(t, g, n)) => t2[To(t, g, n)] = t[To(t, g, n)]
    BY <2>2, <1>3
  <2> QED BY <2>1, <2>2, <2>3
<1>15. FatOK(l, h2, t2)
  BY <1>3, <1>6, <1>7, <1>11, <1>12, <1>13 DEF FatOK
<1> QED BY <1>14, <1>15 DEF c

\* what the clusters on other chains than that of a process are to the others
Keeps(t, t2, g) == IsHead(t2, g) /\ \A n \in Nat : To(t2, g, n) = To(t, g, n)
                                        /\ (Live(t, To(t, g, n)) => t2[To(t, g, n)] = t[To(t, g, n)])
\* alloc_clus() takes a cluster
LEMMA FatTake ==
  ASSUME NEW l, NEW h, NEW t, FatOK(l, h, t), NEW h2, NEW x \in Idx, But(h, h2, x), ~Cl(h[x]),
         NEW c \in 2..LAST, t[c] = 0, NEW t2, Puts1(t, c, EOC, t2), h2[x] = c
  PROVE  /\ FatOK(l, h2, t2) /\ t2[c] = EOC
         /\ \A g : IsHead(t, g) => Keeps(t, t2, g) /\ g # c /\ \A n \in Nat : To(t, g, n) # c
         /\ \A y \in Cluster : y # c => t2[y] = t[y]
<1>1. TableOK(t) /\ t \in [Cluster -> Nat]
  BY DEF FatOK, TabDom
<1>2. c \in Cluster /\ c # 0 /\ c # 1 /\ Cl(c)
  BY ClNot DEF Cl
<1>3. /\ TableOK(t2) /\ IsHead(t2, c) /\ t2[c] = EOC
      /\ \A g : Live(t, g) => Live(t2, g) /\ t2[g] = t[g]
      /\ \A g : IsHead(t, g) =>
           g # c /\ IsHead(t2, g) /\ \A n \in Nat : To(t2, g, n) = To(t, g, n)
  BY <1>1, TableAlloc
<1>4. /\ 0 \in Cluster /\ 1 \in Cluster /\ (2..LAST) \subseteq Cluster /\ EOC # 0 /\ BAD # 0 /\ BAD \notin 2..LAST
      /\ EOC \notin 2..LAST /\ BAD # EOC /\ EOC \in Nat
  BY Bounds
<1>5. t2 \in [Cluster -> Nat] /\ \A y \in Cluster : t2[y] = IF y = c THEN EOC ELSE t[y]
  BY <1>1, <1>2, <1>4 DEF Puts1
<1>6. TabDom(t2)
  <2>1. t[0] # 0 /\ t[1] # 0
    BY DEF FatOK, TabDom
  <2> QED BY <1>2, <1>4, <1>5, <2>1 DEF TabDom
<1>7. Marks(t2, l.fat)
  <2>2. \A y \in 2..LAST : t[y] = BAD <=> l.fat[y] = BAD
    BY DEF FatOK, Marks
  <2>3. \A y \in 2..LAST : t2[y] = BAD <=> t[y] = BAD
    BY <1>4, <1>5
  <2> QED BY <2>2, <2>3 DEF Marks
<1>8. \A y \in Idx : y # x => h2[y] = h[y] /\ h[y] # c /\ (Cl(h[y]) => IsHead(t, h[y]))
  <2>1. \A y \in Idx : Cl(h[y]) => IsHead(t, h[y])
    BY DEF FatOK, HeadsOK
  <2>2. ~IsHead(t, c)
    BY <1>3
  <2> QED BY <2>1, <2>2, <1>2 DEF But
<1>9. HeadsOK(h2, t2)
  <2> SUFFICES ASSUME NEW y \in Idx, NEW z \in Idx, Cl(h2[y])
               PROVE  IsHead(t2, h2[y]) /\ (h2[y] = h2[z] => y = z)
    BY DEF HeadsOK
  <2>1. CASE y = x
    BY <2>1, <1>3, <1>8
  <2>2. CASE y # x
    <3>1. IsHead(t, h[y]) /\ h[y] # c /\ h2[y] = h[y]
      BY <1>8, <2>2
    <3>2. CASE z = x
      BY <3>1, <3>2, <1>3
    <3>3. CASE z # x
      BY <3>1, <3>3, <1>3, <1>8 DEF FatOK, HeadsOK
    <3> QED BY <3>2, <3>3
  <2> QED BY <2>1, <2>2
<1>10. NumsOK(h2)
  BY <1>8 DEF FatOK, NumsOK
<1>11. Covered(h2, t2)
  <2> SUFFICES ASSUME NEW y \in 2..LAST, t2[y] # 0, t2[y] # BAD
               PROVE  \E z \in Idx, n \in Nat : Cl(h2[z]) /\ To(t2, h2[z], n) = y
    BY DEF Covered
  <2>1. CASE y = c
    <3>1. To(t2, c, 0) = c
      BY ToIs
    <3> QED BY <2>1, <3>1, <1>2
  <2>2. CASE y # c
    <3>1. t[y] # 0 /\ t[y] # BAD
      BY <2>2, <1>4, <1>5
    <3>2. PICK z \in Idx, n \in Nat : Cl(h[z]) /\ To(t, h[z], n) = y
      BY <3>1 DEF FatOK, Covered
    <3>3. z # x
      BY <3>2
    <3>4. IsHead(t, h[z]) /\ h2[z] = h[z]
      BY <1>8, <3>2, <3>3
    <3>5. To(t2, h[z], n) = y
      BY <1>3, <3>2, <3>4
    <3> QED BY <3>2, <3>4, <3>5
  <2> QED BY <2>1, <2>2
<1>12. ASSUME NEW g, IsHead(t, g) PROVE Keeps(t, t2, g) /\ g # c /\ \A n \in Nat : To(t, g, n) # c
  <2>1. g # c /\ IsHead(t2, g) /\ \A n \in Nat : To(t2, g, n) = To(t, g, n)
    BY <1>3, <1>12
  <2>2. \A n \in Nat : Live(t, To(t, g, n)) => t2[To(t, g, n)] = t[To(t, g, n)]
    BY <1>3
  <2>3. \A n \in Nat : To(t, g, n) # c
    <3>1. \A n \in Nat : To(t, g, n) = EOC \/ Live(t, To(t, g, n))
      BY <1>1, <1>12, Onward DEF IsHead
    <3>2. ~Live(t, c) /\ c # EOC
      BY <1>4 DEF Live
    <3> QED BY <3>1, <3>2
  <2> QED BY <2>1, <2>2, <2>3 DEF Keeps
<1>13. FatOK(l, h2, t2)
  BY <1>3, <1>6, <1>7, <1>9, <1>10, <1>11 DEF FatOK
<1> QED BY <1>3, <1>5, <1>12, <1>13
\* it takes one that the volume has not
LEMMA FatPast ==
  ASSUME NEW l, NEW h, NEW t, FatOK(l, h, t), NEW c \in Cluster, c > LAST, NEW t2, Puts1(t, c, EOC, t2)
  PROVE  /\ FatOK(l, h, t2) /\ (\A y \in 2..LAST : t2[y] = t[y])
         /\ \A g : IsHead(t, g) => Keeps(t, t2, g)
<1>1. TableOK(t) /\ t \in [Cluster -> Nat] /\ t[0] # 0 /\ t[1] # 0
  BY DEF FatOK, TabDom
<1>2. 0 \in Cluster /\ 1 \in Cluster /\ (2..LAST) \subseteq Cluster /\ EOC # 0 /\ EOC \in Nat /\ LAST \in Nat /\ LAST >= 2
  BY Bounds
<1>3. t2 \in [Cluster -> Nat] /\ \A y \in Cluster : y # c => t2[y] = t[y]
  BY <1>1, <1>2 DEF Puts1
<1>4. \A y \in 2..LAST : t2[y] = t[y]
  BY <1>2, <1>3
<1>5. TabDom(t2)
  <2>1. c # 0 /\ c # 1
    BY <1>2
  <2> QED BY <1>1, <1>2, <1>3, <2>1 DEF TabDom
<1>6. /\ TableOK(t2)
      /\ \A g : Live(t, g) => Live(t2, g)
      /\ \A g : IsHead(t, g) => IsHead(t2, g) /\ \A n \in Nat : To(t2, g, n) = To(t, g, n)
  BY <1>1, <1>4, SameTable
<1>7. \A g : IsHead(t, g) => Keeps(t, t2, g)
  <2>1. \A y : Live(t, y) => t2[y] = t[y]
    BY <1>4 DEF Live
  <2> QED BY <1>6, <2>1 DEF Keeps
<1>8. HeadsOK(h, t2)
  BY <1>6 DEF FatOK, HeadsOK
<1>9. Covered(h, t2)
  <2> SUFFICES ASSUME NEW y \in 2..LAST, t2[y] # 0, t2[y] # BAD
               PROVE  \E z \in Idx, n \in Nat : Cl(h[z]) /\ To(t2, h[z], n) = y
    BY DEF Covered
  <2>1. PICK z \in Idx, n \in Nat : Cl(h[z]) /\ To(t, h[z], n) = y
    BY <1>4 DEF FatOK, Covered
  <2>2. IsHead(t, h[z])
    BY <2>1 DEF FatOK, HeadsOK
  <2>3. To(t2, h[z], n) = y
    BY <1>6, <2>1, <2>2
  <2> QED BY <2>1, <2>3
<1>10. Marks(t2, l.fat)
  BY <1>4 DEF FatOK, Marks
<1>11. FatOK(l, h, t2)
  BY <1>5, <1>6, <1>8, <1>9, <1>10 DEF FatOK
<1> QED BY <1>4, <1>7, <1>11
\* the chain of f goes on with s now, which was alone, after cluster number cnt
Linked(t, t2, f, s, cnt) ==
  /\ \A g : IsHead(t, g) /\ g # f /\ g # s => Keeps(t, t2, g)
  /\ At1(t2, f, s, cnt + 1) /\ t2[s] = EOC
  /\ \A n \in 0..cnt : To(t2, f, n) = To(t, f, n)
  /\ To(t2, f, cnt + 1) = s /\ cnt \in Nat
  /\ \A n \in Nat : n > cnt + 1 => To(t2, f, n) = EOC
  /\ \A n \in Nat : n > cnt => To(t, f, n) = EOC
\* write_fat(): the chain of y, one cluster, is appended to that of x
LEMMA FatLink ==
  ASSUME NEW l, NEW h, NEW t, FatOK(l, h, t), NEW h2, NEW x \in Idx, NEW y \in Idx, x # y, But(h, h2, y),
         Cl(h[x]), Cl(h[y]), t[h[y]] = EOC, h2[y] = 0,
         NEW cur, NEW cnt, At1(t, h[x], cur, cnt), t[cur] = EOC, NEW t2, Puts1(t, cur, h[y], t2)
  PROVE  FatOK(l, h2, t2) /\ Linked(t, t2, h[x], h[y], cnt)
<1> DEFINE f == h[x]
           s == h[y]
<1>1. TableOK(t) /\ t \in [Cluster -> Nat] /\ IsHead(t, f) /\ IsHead(t, s) /\ f # s /\ Cl(f) /\ Cl(s) /\ t[s] = EOC
  BY DEF FatOK, TabDom, HeadsOK
<1>2. At1(t, f, cur, cnt) /\ t[cur] = EOC /\ Puts1(t, cur, s, t2)
  OBVIOUS
<1>3. \A z \in Idx : z # y => h2[z] = h[z] /\ h[z] # s
  BY DEF But, FatOK, HeadsOK
<1> HIDE DEF f, s
<1>4. /\ TableOK(t2)
      /\ \A g : IsHead(t, g) /\ g # s => IsHead(t2, g)
      /\ \A z : Live(t, z) => Live(t2, z) /\ (z # cur => t2[z] = t[z])
      /\ \A g : IsHead(t, g) /\ g # f => \A n \in Nat : To(t2, g, n) = To(t, g, n)
      /\ \A n \in 0..cnt : To(t2, f, n) = To(t, f, n)
      /\ To(t2, f, cnt + 1) = s /\ t2[s] = EOC
      /\ \A n \in Nat : n > cnt + 1 => To(t2, f, n) = EOC
      /\ \A n \in Nat : n > cnt => To(t, f, n) = EOC
  BY <1>1, <1>2, TableLink
<1>5. /\ 0 \in Cluster /\ 1 \in Cluster /\ (2..LAST) \subseteq Cluster /\ EOC # 0 /\ BAD # 0 /\ BAD \notin 2..LAST
      /\ EOC \notin 2..LAST /\ BAD # EOC /\ EOC \in Nat /\ 0 \notin 2..LAST /\ 1 \notin 2..LAST
  BY Bounds
<1>6. cur \in 2..LAST /\ cnt \in Nat /\ cur = To(t, f, cnt) /\ Live(t, cur)
  BY <1>2 DEF At1, Live
<1>7. t2 \in [Cluster -> Nat] /\ \A z \in Cluster : t2[z] = IF z = cur THEN s ELSE t[z]
  <2>1. s \in Nat
    BY <1>1, ClNot
  <2> QED BY <1>1, <1>2, <2>1, <1>5, <1>6 DEF Puts1
<1>8. TabDom(t2)
  <2>1. t[0] # 0 /\ t[1] # 0
    BY DEF FatOK, TabDom
  <2> QED BY <1>5, <1>6, <1>7, <2>1 DEF TabDom
<1>9. Marks(t2, l.fat)
  <2>1. \A z \in 2..LAST : t[z] = BAD <=> l.fat[z] = BAD
    BY DEF FatOK, Marks
  <2>2. s # BAD /\ t[cur] # BAD
    BY <1>1, <1>2, <1>5 DEF Cl
  <2>3. \A z \in 2..LAST : t2[z] = BAD <=> t[z] = BAD
    BY <1>5, <1>7, <2>2
  <2> QED BY <2>1, <2>3 DEF Marks
<1>10. HeadsOK(h2, t2)
  <2> SUFFICES ASSUME NEW z \in Idx, NEW w \in Idx, Cl(h2[z])
               PROVE  IsHead(t2, h2[z]) /\ (h2[z] = h2[w] => z = w)
    BY DEF HeadsOK
  <2>1. z # y
    BY ClNot
  <2>2. h2[z] = h[z] /\ h[z] # s
    BY <1>3, <2>1
  <2>3. IsHead(t, h[z])
    BY <2>2 DEF FatOK, HeadsOK
  <2>4. IsHead(t2, h[z])
    BY <1>4, <2>2, <2>3
  <2>5. h2[z] = h2[w] => w # y
    BY ClNot
  <2>6. h2[z] = h2[w] => z = w
    BY <2>2, <2>5, <1>3 DEF FatOK, HeadsOK
  <2> QED BY <2>2, <2>4, <2>6
<1>11. NumsOK(h2)
  BY <1>3 DEF FatOK, NumsOK
<1>12. h2[x] = f /\ Cl(f)
  BY <1>1, <1>3 DEF f
<1>13. Covered(h2, t2)
  <2> SUFFICES ASSUME NEW z \in 2..LAST, t2[z] # 0, t2[z] # BAD
               PROVE  \E w \in Idx, n \in Nat : Cl(h2[w]) /\ To(t2, h2[w], n) = z
    BY DEF Covered
  <2>1. t[z] # 0 /\ t[z] # BAD
    BY <1>2, <1>5, <1>6, <1>7 DEF Live
  <2>2. PICK w \in Idx, n \in Nat : Cl(h[w]) /\ To(t, h[w], n) = z
    BY <2>1 DEF FatOK, Covered
  <2>3. CASE w = y
    <3>1. To(t, s, n) = z
      BY <2>2, <2>3 DEF s
    <3>2. z = s
      <4>1. n = 0 \/ 1 <= n
        OBVIOUS
      <4>2. To(t, s, 0) = s /\ To(t, s, 0 + 1) = Succ(t)[To(t, s, 0)]
        BY ToIs
      <4>3. Live(t, s)
        BY <1>1 DEF IsHead
      <4>4. Succ(t)[s] = t[s]
        BY <1>1, <4>3, SuccIs
      <4>5. To(t, s, 1) = EOC
        BY <4>2, <4>4, <1>1
      <4>6. 1 <= n => To(t, s, n) = EOC
        BY <1>1, <4>3, <4>5, EndStays
      <4> QED BY <3>1, <4>1, <4>2, <4>6, <1>5
    <3>3. To(t2, f, cnt + 1) = z /\ cnt + 1 \in Nat
      BY <1>4, <1>6, <3>2
    <3> QED BY <3>3, <1>12
  <2>4. CASE w # y /\ h[w] # f
    <3>1. h2[w] = h[w] /\ IsHead(t, h[w])
      BY <1>3, <2>2, <2>4 DEF FatOK, HeadsOK
    <3>2. To(t2, h[w], n) = z
      BY <1>4, <2>2, <2>4, <3>1
    <3> QED BY <2>2, <3>1, <3>2
  <2>5. CASE w # y /\ h[w] = f
    <3>1. n <= cnt
      <4>1. To(t, f, n) # EOC
        BY <2>2, <2>5, <1>5
      <4> QED BY <4>1, <1>4, <1>6
    <3>2. n \in 0..cnt
      BY <3>1, <1>6
    <3>3. To(t2, f, n) = z
      BY <3>2, <1>4, <2>2, <2>5
    <3> QED BY <3>3, <1>12
  <2> QED BY <2>3, <2>4, <2>5
<1>14. ASSUME NEW g, IsHead(t, g), g # f, g # s PROVE Keeps(t, t2, g)
  <2>1. IsHead(t2, g) /\ \A n \in Nat : To(t2, g, n) = To(t, g, n)
    BY <1>4, <1>14
  <2>2. ASSUME NEW n \in Nat, Live(t, To(t, g, n)) PROVE t2[To(t, g, n)] = t[To(t, g, n)]
    <3>1. To(t, g, n) # EOC
      BY <2>2, LiveNotEOC
    <3>2. To(t, g, n) # cur
      BY <3>1, <1>1, <1>6, <1>14, Apart
    <3> QED BY <3>2, <2>2, <1>4
  <2> QED BY <2>1, <2>2 DEF Keeps
<1>15. At1(t2, f, s, cnt + 1)
  <2>1. Live(t2, s)
    BY <1>1, <1>4 DEF IsHead
  <2> QED BY <2>1, <1>4, <1>6 DEF At1
<1>16. FatOK(l, h2, t2)
  BY <1>4, <1>8, <1>9, <1>10, <1>11, <1>13 DEF FatOK
<1>17. Linked(t, t2, f, s, cnt)
  BY <1>4, <1>6, <1>14, <1>15 DEF Linked
<1> QED BY <1>16, <1>17 DEF f, s

\* a process has the lock of an entry that its next step needs
NeedsLock == {"store", "emake", "alloc", "link", "etrunc", "wrote", "eupdate", "drop"}
LEMMA MakesRoot ==
  ASSUME NEW s, SeqOK(s), s # <<>>, s[1].op = "emake" \/ (s[1].op \in {"store", "alloc", "link"} /\ s[1].e = Root)
  PROVE  \E e \in File : Creating(s, e)
<1>1. Whole(s, 1) /\ Goes2(s, 1) /\ Begins(s, 1) /\ 1 \in 1..Len(s) /\ IsSeq(s)
  BY FirstIs
<1>2. \A k \in 1..Len(s) : Whole(s, k) /\ Goes2(s, k)
  BY DEF SeqOK
<1>3. SUFFICES \E v \in 1..Len(s) : s[v].op = "valid"
  <2>1. PICK v \in 1..Len(s) : s[v].op = "valid"
    BY <1>3
  <2>2. s[v].e \in Entry /\ s[v].e # Root
    <3>1. Whole(s, v)
      BY <1>2
    <3> QED BY <3>1, <2>1 DEF Whole, OnFile
  <2>3. s[v].e \in File
    BY <2>2 DEF File
  <2>4. Creating(s, s[v].e)
    BY <2>1 DEF Creating, Has
  <2> QED BY <2>3, <2>4
<1>4. ASSUME NEW k \in 1..Len(s), s[k].op = "emake" \/ MakeStep(s[k])
      PROVE  \E v \in 1..Len(s) : s[v].op = "valid"
  <2>1. \E v \in (k+1)..Len(s) : s[v].op = "valid"
    BY <1>2, <1>4 DEF Goes2
  <2>2. Len(s) \in Nat
    BY <1>1 DEF IsSeq
  <2> QED BY <2>1, <2>2
<1>5. CASE s[1].op = "emake"
  BY <1>5, <1>4, <1>1
<1>6. CASE s[1].op = "store" /\ s[1].e = Root
  <2>1. MakeStep(s[1])
    BY <1>1, <1>6 DEF Whole
  <2> QED BY <2>1, <1>4, <1>1
<1>7. CASE s[1].op \in {"alloc", "link"} /\ s[1].e = Root
  <2>1. Is(s, 2, "store", Root)
    <3>1. s[1].how = "more"
      BY <1>1, <1>7 DEF Begins
    <3> QED BY <3>1, <1>1, <1>7 DEF Begins
  <2>2. 2 \in 1..Len(s) /\ s[2].op = "store" /\ s[2].e = Root
    BY <2>1 DEF Is
  <2>3. MakeStep(s[2])
    <3>1. Whole(s, 2)
      BY <2>2, <1>2
    <3> QED BY <2>2, <3>1 DEF Whole
  <2> QED BY <2>2, <2>3, <1>4
<1> QED BY <1>5, <1>6, <1>7

LEMMA HeadLocked ==
  ASSUME NEW l, NEW K, NEW E, NEW T, NEW F, CtlOK(l, K, E, T, F), NEW q \in Procs,
         T[q] # <<>>, T[q][1].op \in NeedsLock
  PROVE  T[q][1].e \in Entry /\ E[T[q][1].e].lock = q
<1> DEFINE s == T[q]
<1>1. SeqOK(s) /\ \A e \in Entry : E[e].lock = q <=> Holds(s, e)
  BY Ready
<1>2. Whole(s, 1) /\ 1 \in 1..Len(s)
  BY <1>1, FirstIs
<1>3. s[1].e \in Entry
  BY <1>2 DEF Whole, NeedsLock
<1>4. CASE s[1].op = "emake" \/ (s[1].op \in {"store", "alloc", "link"} /\ s[1].e = Root)
  <2>1. PICK e \in File : Creating(s, e)
    BY <1>1, <1>4, MakesRoot
  <2>2. MakerOK(s, e, E[e]) /\ E[e].lock = q /\ E[Root].lock = q
    BY <2>1, MakerIs
  <2>3. s[1].e \in {e, Root}
    BY <2>2 DEF MakerOK
  <2> QED BY <2>2, <2>3, <1>3
<1>5. CASE s[1].op # "emake" /\ s[1].e # Root
  <2>1. OnEntry(s, LockedOps, s[1].e)
    BY <1>5 DEF OnEntry, NeedsLock, LockedOps
  <2>2. Holds(s, s[1].e)
    BY <2>1, <1>5 DEF Holds, HoldsEntry
  <2> QED BY <1>1, <1>3, <2>2
<1>6. s[1].op \in {"store", "emake", "alloc", "link"} \/ s[1].e # Root
  BY <1>2 DEF Whole, NeedsLock, OnFile
<1> QED BY <1>4, <1>5, <1>6 DEF NeedsLock

LEMMA SecondLocked ==
  ASSUME NEW l, NEW K, NEW E, NEW T, NEW F, CtlOK(l, K, E, T, F), NEW q \in Procs,
         T[q] # <<>>, T[q][1].op \in {"elock", "eunlock"}, T[q][1].e = Root, NEW e \in File,
         NEW o \in {"eremove", "eupdate", "drop", "eunlock"}, Is(T[q], 2, o, e)
  PROVE  E[e].lock = q
<1>1. \A d \in Entry : E[d].lock = q <=> Holds(T[q], d)
  BY Ready
<1>2. e \in Entry /\ e # Root
  BY FileEntry
<1>3. Holds(T[q], e)
  BY <1>2 DEF Holds, HoldsEntry, OnEntry
<1> QED BY <1>1, <1>2, <1>3

\* an entry that is locked is in memory, and only who has the lock frees its clusters
LEMMA LockedIs ==
  ASSUME NEW l, NEW K, NEW E, NEW T, NEW F, CtlOK(l, K, E, T, F), RootOK(E), NEW q \in Procs, NEW e \in Entry, E[e].lock = q
  PROVE  InMem(E[e]) /\ (Cut(T, e) => OnEntry(T[q], {"etrunc"}, e))
<1>1. InMem(E[e])
  <2>1. CASE e = Root
    BY <2>1 DEF RootOK, InMem
  <2>2. CASE e # Root
    <3>1. e \in File
      BY <2>2, FileEntry
    <3>2. NoProc \notin Procs
      BY ProcsAssumption
    <3>3. E[e].ref # 0
      BY <3>1, <3>2, UnusedFree
    <3>4. E[e].ref \in Nat
      BY DEF CtlOK, EntDom
    <3> QED BY <3>3, <3>4 DEF InMem
  <2> QED BY <2>1, <2>2
<1>2. ASSUME NEW p \in Procs, OnEntry(T[p], {"etrunc"}, e)
      PROVE  p = q
  <2>1. T[p] # <<>> /\ T[p][1].op = "etrunc" /\ T[p][1].e = e
    BY <1>2 DEF OnEntry
  <2>2. E[T[p][1].e].lock = p
    BY <2>1, HeadLocked DEF NeedsLock
  <2> QED BY <2>1, <2>2
<1> QED BY <1>1, <1>2 DEF Cut

-----------------------------------------------------------------------------
\* what of an entry does not change although others may have got or lost it
Steady(x, y) == /\ y.valid = x.valid /\ y.dirty = x.dirty /\ y.name = x.name /\ y.off = x.off
                /\ y.first = x.first /\ y.size = x.size /\ y.dir = x.dir /\ y.cur = x.cur /\ y.cnt = x.cnt
Mine(E, E2, p) == \A e \in Entry : E[e].lock \in {p, NoProc} \/ Steady(E[e], E2[e])
Untouched(E, T, t, t2, d, d2, p) ==
  /\ \A e \in Entry : E[e].lock # p /\ InMem(E[e]) /\ Cl(E[e].first) /\ ~Cut(T, e) => Keeps(t, t2, E[e].first)
  /\ \A q \in Procs : q # p /\ Cl(Held(T[q])) => t2[Held(T[q])] = t[Held(T[q])]
                                               /\ (d[Held(T[q])] = Zeros => d2[Held(T[q])] = Zeros)
\* what the other processes rely on stays
LEMMA OthersLocal ==
  ASSUME NEW l, NEW K, NEW E, NEW T, NEW F, CtlOK(l, K, E, T, F), RootOK(E), NEW t, NEW d, CurOK(E, T, t),
         NEW p \in Procs, NEW q \in Procs, q # p, LocalOK(T[q], E, t, d),
         NEW E2, Mine(E, E2, p), NEW t2, NEW d2, Untouched(E, T, t, t2, d, d2, p)
  PROVE  LocalOK(T[q], E2, t2, d2)
<1> DEFINE s == T[q]
<1> DEFINE i == s[1]
<1>1. SUFFICES ASSUME s # <<>> PROVE LocalOK(s, E2, t2, d2)
  BY DEF LocalOK
<1>2. NoProc \notin Procs
  BY ProcsAssumption
<1>3. ASSUME NEW e \in Entry, E[e].lock = q PROVE Steady(E[e], E2[e])
  BY <1>2, <1>3 DEF Mine
<1>4. i.op \in NeedsLock => i.e \in Entry /\ E[i.e].lock = q /\ Steady(E[i.e], E2[i.e])
  BY <1>1, <1>3, HeadLocked
<1>5. \A e \in File : i.op \in {"elock", "eunlock"} /\ i.e = Root /\ (Is(s, 2, "drop", e) \/ Is(s, 2, "eupdate", e)) =>
        Steady(E[e], E2[e])
  BY <1>1, <1>3, SecondLocked, FileEntry
<1>6. i.op \in {"store", "emake"} => Cl(E2[i.e].first)
  BY <1>1, <1>4 DEF LocalOK, NeedsLock, Steady
<1>7. ASSUME i.op \in {"alloc", "link"} PROVE GrowOK(i, E2, t2)
  <2>1. GrowOK(i, E, t) /\ Steady(E[i.e], E2[i.e]) /\ i.e \in Entry /\ E[i.e].lock = q
    BY <1>1, <1>4, <1>7 DEF LocalOK, NeedsLock
  <2>2. CASE i.how # "more"
    BY <2>1, <2>2 DEF GrowOK, Steady
  <2>3. CASE i.how = "more"
    <3>1. Cl(E[i.e].first) /\ t[E[i.e].cur] = EOC
      BY <2>1, <2>3 DEF GrowOK
    <3>2. InMem(E[i.e]) /\ ~Cut(T, i.e)
      <4>1. ~OnEntry(s, {"etrunc"}, i.e)
        BY <1>7 DEF OnEntry
      <4> QED BY <2>1, <4>1, LockedIs
    <3>3. Keeps(t, t2, E[i.e].first)
      BY <2>1, <3>1, <3>2 DEF Untouched
    <3>4. At1(t, E[i.e].first, E[i.e].cur, E[i.e].cnt)
      BY <2>1, <3>1, <3>2 DEF CurOK
    <3>5. t2[E[i.e].cur] = t[E[i.e].cur]
      <4>1. /\ E[i.e].cnt \in Nat /\ E[i.e].cur = To(t, E[i.e].first, E[i.e].cnt)
            /\ Live(t, To(t, E[i.e].first, E[i.e].cnt))
        BY <3>4 DEF At1
      <4>2. t2[To(t, E[i.e].first, E[i.e].cnt)] = t[To(t, E[i.e].first, E[i.e].cnt)]
        BY ONLY <3>3, <4>1 DEF Keeps
      <4> QED BY ONLY <4>1, <4>2
    <3> QED BY <2>1, <2>3, <3>1, <3>5 DEF GrowOK, Steady
  <2> QED BY <2>2, <2>3
<1>8. i.op = "link" => d2[i.sec] = Zeros /\ t2[i.sec] = EOC
  <2>1. SUFFICES ASSUME i.op = "link" PROVE d2[i.sec] = Zeros /\ t2[i.sec] = EOC
    OBVIOUS
  <2>2. Begins(s, 1)
    BY <1>1, Ready, FirstIs
  <2>3. Held(s) = i.sec /\ Cl(i.sec)
    BY <2>1, <2>2, <1>1 DEF Held, Begins, Cl
  <2>4. d[i.sec] = Zeros /\ t[i.sec] = EOC
    BY <2>1, <1>1 DEF LocalOK
  <2> QED BY <2>3, <2>4 DEF Untouched
<1>9. /\ i.op = "etrunc" /\ Is(s, 2, "drop", i.e) => E2[i.e].valid = -1
      /\ i.op = "wrote" => E2[i.e].first # 0 \/ i.off <= E2[i.e].size
      /\ i.op = "eupdate" => E2[i.e].valid = 1
  BY <1>1, <1>4 DEF LocalOK, NeedsLock, Steady
<1>10. i.op = "elock" /\ i.e = Root => \A e \in File : Is(s, 2, "eupdate", e) => E2[e].valid = 1
  BY <1>1, <1>5 DEF LocalOK, Steady
<1>11. ASSUME NEW e \in File, (i.op = "drop" /\ i.e = e) \/ (i.op = "eunlock" /\ i.e = Root /\ Is(s, 2, "drop", e))
       PROVE  (E2[e].valid = 1 => Clean(E2[e])) /\ (E2[e].valid = -1 => E2[e].first = 0)
  <2>1. Steady(E[e], E2[e])
    BY <1>4, <1>5, <1>11 DEF NeedsLock
  <2>2. (E[e].valid = 1 => Clean(E[e])) /\ (E[e].valid = -1 => E[e].first = 0)
    BY <1>1, <1>11 DEF LocalOK
  <2> QED BY <2>1, <2>2 DEF Steady, Clean
<1>12. Shaped(i)
  BY <1>1 DEF LocalOK
<1> HIDE DEF i, s
<1> QED BY <1>6, <1>7, <1>8, <1>9, <1>10, <1>11, <1>12 DEF LocalOK, i

LEMMA DiskParts ==
  ASSUME NEW l, NEW E, NEW T, NEW t, NEW d, NEW D, DiskOK(l, E, T, t, d, D)
  PROVE  /\ FatOK(l, Heads(E, T, D), t) /\ DatDom(d) /\ CurOK(E, T, t) /\ (\A p \in Procs : LocalOK(T[p], E, t, d))
         /\ Sizes(E) /\ RootOK(E) /\ DirOK(E, T, D) /\ NamesOK(l, D) /\ CacheOK(E, T, D)
  BY DEF DiskOK
LEMMA DiskStep ==
  ASSUME NEW l, NEW K, NEW E, NEW T, NEW F, CtlOK(l, K, E, T, F), NEW t, NEW d, NEW D, DiskOK(l, E, T, t, d, D),
         NEW p \in Procs, NEW r, NEW T2, Becomes(T, T2, p, r), NEW E2, Mine(E, E2, p),
         NEW t2, NEW d2, NEW D2, Untouched(E, T, t, t2, d, d2, p),
         FatOK(l, Heads(E2, T2, D2), t2), DatDom(d2), CurOK(E2, T2, t2), LocalOK(r, E2, t2, d2),
         Sizes(E2), RootOK(E2), DirOK(E2, T2, D2), NamesOK(l, D2), CacheOK(E2, T2, D2)
  PROVE  DiskOK(l, E2, T2, t2, d2, D2)
<1>1. ASSUME NEW q \in Procs PROVE LocalOK(T2[q], E2, t2, d2)
  <2>1. CASE q = p
    BY <2>1 DEF Becomes
  <2>2. CASE q # p
    <3>1. RootOK(E) /\ CurOK(E, T, t) /\ LocalOK(T[q], E, t, d)
      BY DiskParts
    <3>2. LocalOK(T[q], E2, t2, d2)
      BY <2>2, <3>1, OthersLocal
    <3>3. T2[q] = T[q]
      BY <2>2 DEF Becomes
    <3> QED BY <3>2, <3>3
  <2> QED BY <2>1, <2>2
<1> QED BY <1>1 DEF DiskOK

\* tables and cells that are the same
LEMMA KeepsSame ==
  ASSUME NEW l, NEW E, NEW T, NEW t, NEW d, NEW D, DiskOK(l, E, T, t, d, D), NEW p \in Procs
  PROVE  /\ \A g : IsHead(t, g) => Keeps(t, t, g)
         /\ Untouched(E, T, t, t, d, d, p)
<1>1. \A g : IsHead(t, g) => Keeps(t, t, g)
  BY DEF Keeps
<1>2. ASSUME NEW e \in Entry, InMem(E[e]), Cl(E[e].first), ~Cut(T, e) PROVE IsHead(t, E[e].first)
  <2>1. Heads(E, T, D)[Ie(e)] = E[e].first /\ Ie(e) \in Idx
    BY <1>2, HeadsIs, IdxIs DEF EntryHead
  <2>2. HeadsOK(Heads(E, T, D), t)
    BY DiskParts DEF FatOK
  <2> QED BY <1>2, <2>1, <2>2 DEF HeadsOK
<1> QED BY <1>1, <1>2 DEF Untouched

LEMMA CurKept ==
  ASSUME NEW E, NEW T, NEW t, CurOK(E, T, t), NEW e \in Entry, InMem(E[e]), Cl(E[e].first), ~Cut(T, e),
         NEW t2, Keeps(t, t2, E[e].first)
  PROVE  At1(t2, E[e].first, E[e].cur, E[e].cnt)
<1>1. At1(t, E[e].first, E[e].cur, E[e].cnt)
  BY DEF CurOK
<1>2. E[e].cnt \in Nat /\ E[e].cur = To(t, E[e].first, E[e].cnt) /\ Live(t, E[e].cur)
  BY <1>1 DEF At1
<1>3. To(t2, E[e].first, E[e].cnt) = E[e].cur /\ t2[E[e].cur] = t[E[e].cur]
  BY <1>2 DEF Keeps
<1> QED BY <1>2, <1>3 DEF At1, Live

\* who frees, who makes, after a step of p
LEMMA CutSame ==
  ASSUME NEW T, NEW T2, NEW p \in Procs, NEW r, Becomes(T, T2, p, r), NEW e,
         OnEntry(T[p], {"etrunc"}, e) <=> OnEntry(r, {"etrunc"}, e)
  PROVE  Cut(T, e) <=> Cut(T2, e)
<1>1. \A q \in Procs : T2[q] = IF q = p THEN r ELSE T[q]
  BY DEF Becomes
<1>2. \A q \in Procs : OnEntry(T2[q], {"etrunc"}, e) <=> OnEntry(T[q], {"etrunc"}, e)
  BY <1>1
<1> QED BY <1>2 DEF Cut
LEMMA MadeSame ==
  ASSUME NEW T, NEW T2, NEW p \in Procs, NEW r, Becomes(T, T2, p, r), NEW e, Creating(T[p], e) <=> Creating(r, e)
  PROVE  /\ Made(T, e) <=> Made(T2, e)
         /\ \A q \in Procs : Creating(T[q], e) <=> Creating(T2[q], e)
<1>1. \A q \in Procs : T2[q] = IF q = p THEN r ELSE T[q]
  BY DEF Becomes
<1>2. \A q \in Procs : Creating(T[q], e) <=> Creating(T2[q], e)
  BY <1>1
<1> QED BY <1>2 DEF Made
LEMMA HeldIs ==
  ASSUME NEW T, NEW T2, NEW p \in Procs, NEW r, Becomes(T, T2, p, r)
  PROVE  Held(T2[p]) = Held(r) /\ \A q \in Procs : q # p => Held(T2[q]) = Held(T[q])
<1>1. T2[p] = r /\ \A q \in Procs : q # p => T2[q] = T[q]
  BY DEF Becomes
<1> QED BY <1>1

\* the files that are on disk only are the same ones
SameBound(E, T, E2, T2) == \A e \in File :
  /\ Bound(E, T, e) <=> Bound(E2, T2, e)
  /\ Bound(E, T, e) => E2[e].off = E[e].off
LEMMA DiskHeadSame ==
  ASSUME NEW E, NEW T, NEW E2, NEW T2, SameBound(E, T, E2, T2), NEW D, NEW g
  PROVE  DiskHead(E2, T2, D, g) = DiskHead(E, T, D, g)
<1>1. OnDisk(E2, T2, D, g) <=> OnDisk(E, T, D, g)
  BY DEF OnDisk, SameBound
<1> QED BY <1>1 DEF DiskHead
\* the heads after a step that changes the entries S at most
LEMMA HeadsChange ==
  ASSUME NEW E, NEW T, NEW E2, NEW T2, SameBound(E, T, E2, T2), NEW D,
         NEW p \in Procs, NEW r, Becomes(T, T2, p, r)
  PROVE  LET h == Heads(E, T, D) h2 == Heads(E2, T2, D) IN
         /\ \A g \in Nat : h2[Ig(g)] = h[Ig(g)]
         /\ \A q \in Procs : q # p => h2[Ip(q)] = h[Ip(q)]
         /\ h2[Ip(p)] = Held(r) /\ h[Ip(p)] = Held(T[p])
         /\ \A e \in Entry : h2[Ie(e)] = EntryHead(E2, T2, e) /\ h[Ie(e)] = EntryHead(E, T, e)
<1>1. \A g \in Nat : DiskHead(E2, T2, D, g) = DiskHead(E, T, D, g)
  BY DiskHeadSame
<1>2. Held(T2[p]) = Held(r) /\ \A q \in Procs : q # p => Held(T2[q]) = Held(T[q])
  BY HeldIs
<1> QED BY <1>1, <1>2, HeadsIs
LEMMA CacheKept ==
  ASSUME NEW E, NEW T, NEW D, CacheOK(E, T, D), NEW E2, NEW T2,
         SameBound(E, T, E2, T2), \A e \in File : E2[e].valid = 1 => InStep(E2[e], D)
  PROVE  CacheOK(E2, T2, D)
<1>1. \A e, f \in File : Bound(E2, T2, e) /\ Bound(E2, T2, f) /\ E2[e].off = E2[f].off => e = f
  BY DEF CacheOK, SameBound
<1> QED BY <1>1 DEF CacheOK
\* an entry that is made, after a step of its maker or of another process
AlikeShort(x, y) == /\ y.name = x.name /\ y.off = x.off /\ y.first = x.first /\ y.size = x.size /\ y.dir = x.dir
LEMMA MadeKept ==
  ASSUME NEW D, NEW x, NEW y, NEW s, NEW r, AlikeShort(x, y), WrittenTo(r, x) = WrittenTo(s, x), MadeSoFar(D, x, s)
  PROVE  MadeSoFar(D, y, r)
<1>1. Short(<<>>, y) = Short(<<>>, x) /\ y.off = x.off /\ y.name = x.name
  BY DEF AlikeShort, Short
<1>2. WrittenTo(r, y) = WrittenTo(r, x)
  BY <1>1 DEF WrittenTo
<1> QED BY <1>1, <1>2 DEF MadeSoFar
LEMMA DirKept ==
  ASSUME NEW E, NEW T, NEW D, DirOK(E, T, D), NEW p \in Procs, NEW r, NEW T2, Becomes(T, T2, p, r), NEW E2,
         \A e \in File : Creating(r, e) <=> Creating(T[p], e),
         \A e \in File : Creating(r, e) => WrittenTo(r, E[e]) = WrittenTo(T[p], E[e]),
         \A e \in File : Made(T, e) => AlikeShort(E[e], E2[e])
  PROVE  DirOK(E2, T2, D)
<1>1. \A q \in Procs, e \in File : Creating(T[q], e) <=> Creating(T2[q], e)
  BY MadeSame
<1>2. (\A q \in Procs, e \in File : ~Creating(T2[q], e)) => DirShape(D)
  BY <1>1 DEF DirOK
<1>3. ASSUME NEW q \in Procs, NEW e \in File, Creating(T2[q], e) PROVE MadeSoFar(D, E2[e], T2[q])
  <2>1. Creating(T[q], e)
    BY <1>1, <1>3
  <2>2. MadeSoFar(D, E[e], T[q]) /\ AlikeShort(E[e], E2[e])
    BY <2>1 DEF DirOK, Made
  <2>3. WrittenTo(T2[q], E[e]) = WrittenTo(T[q], E[e])
    <3>1. CASE q = p
      BY <3>1, <1>3 DEF Becomes
    <3>2. CASE q # p
      BY <3>2 DEF Becomes
    <3> QED BY <3>1, <3>2
  <2> QED BY <2>2, <2>3, MadeKept
<1> QED BY <1>2, <1>3 DEF DirOK

-----------------------------------------------------------------------------
\* a step that changes neither what is on disk nor what the entries say of their files
NoHead(s) == s # <<>> => s[1].op \notin {"etrunc", "link"}
CurMoves(E, E2, T, t, p) == \A e \in Entry :
  \/ E2[e].cur = E[e].cur /\ E2[e].cnt = E[e].cnt
  \/ /\ E[e].lock \in {p, NoProc}
     /\ InMem(E[e]) /\ Cl(E[e].first) /\ ~Cut(T, e) => At1(t, E[e].first, E2[e].cur, E2[e].cnt)
SameMaking(s, r, E) == \A e \in File :
  (Creating(r, e) <=> Creating(s, e)) /\ (Creating(r, e) => WrittenTo(r, E[e]) = WrittenTo(s, E[e]))
LEMMA DiskQuiet ==
  ASSUME NEW l, NEW K, NEW E, NEW T, NEW F, CtlOK(l, K, E, T, F), NEW t, NEW d, NEW D, DiskOK(l, E, T, t, d, D),
         NEW p \in Procs, NEW r, NEW T2, Becomes(T, T2, p, r), NEW E2, AllAlike(E, E2), CurMoves(E, E2, T, t, p),
         NoHead(T[p]), NoHead(r), SameMaking(T[p], r, E), LocalOK(r, E2, t, d)
  PROVE  DiskOK(l, E2, T2, t, d, D)
<1>1. \A e \in Entry : Alike(E[e], E2[e]) /\ (InMem(E2[e]) <=> InMem(E[e]))
  BY DEF AllAlike, Alike, InMem
<1>2. \A e : Cut(T, e) <=> Cut(T2, e)
  BY CutSame DEF NoHead, OnEntry
<1>3. \A e \in File : Made(T, e) <=> Made(T2, e)
  BY MadeSame DEF SameMaking
<1>4. SameBound(E, T, E2, T2)
  BY <1>1, <1>3, FileEntry DEF SameBound, Bound, Alike
<1>5. Mine(E, E2, p)
  BY <1>1 DEF Mine, Steady, Alike, CurMoves
<1>6. Untouched(E, T, t, t, d, d, p)
  BY KeepsSame
<1>7. FatOK(l, Heads(E2, T2, D), t)
  <2> DEFINE h == Heads(E, T, D) h2 == Heads(E2, T2, D)
  <2>1. /\ \A g \in Nat : h2[Ig(g)] = h[Ig(g)]
        /\ \A q \in Procs : q # p => h2[Ip(q)] = h[Ip(q)]
        /\ h2[Ip(p)] = Held(r) /\ h[Ip(p)] = Held(T[p])
        /\ \A e \in Entry : h2[Ie(e)] = EntryHead(E2, T2, e) /\ h[Ie(e)] = EntryHead(E, T, e)
    BY <1>4, HeadsChange
  <2>2. Held(r) = 0 /\ Held(T[p]) = 0
    BY DEF NoHead, Held
  <2>3. \A e \in Entry : EntryHead(E2, T2, e) = EntryHead(E, T, e)
    BY <1>1, <1>2 DEF EntryHead, Alike
  <2> HIDE DEF h, h2
  <2>4. \A z \in Idx : h2[z] = h[z]
    BY <2>1, <2>2, <2>3, IdxIs
  <2>5. Alikes(h, h2)
    BY <2>4 DEF Alikes
  <2>6. FatOK(l, h, t)
    BY DiskParts DEF h
  <2>7. FatOK(l, h2, t)
    BY <2>5, <2>6, FatAlike
  <2> QED BY <2>7 DEF h2
<1>8. CurOK(E2, T2, t)
  <2>1. CurOK(E, T, t)
    BY DiskParts
  <2> SUFFICES ASSUME NEW e \in Entry, InMem(E2[e]), Cl(E2[e].first), ~Cut(T2, e)
               PROVE  At1(t, E2[e].first, E2[e].cur, E2[e].cnt)
    BY DEF CurOK
  <2>2. InMem(E[e]) /\ Cl(E[e].first) /\ ~Cut(T, e) /\ E2[e].first = E[e].first
    BY <1>1, <1>2 DEF Alike
  <2>3. At1(t, E[e].first, E[e].cur, E[e].cnt)
    BY <2>1, <2>2 DEF CurOK
  <2> QED BY <2>2, <2>3 DEF CurMoves
<1>9. Sizes(E2) /\ RootOK(E2)
  BY <1>1, DiskParts, FileEntry DEF Sizes, RootOK, Alike
<1>10. DirOK(E2, T2, D)
  <2>1. \A e \in File : AlikeShort(E[e], E2[e])
    BY <1>1, FileEntry DEF AlikeShort, Alike
  <2> QED BY <2>1, DiskParts, DirKept DEF SameMaking
<1>11. CacheOK(E2, T2, D)
  <2>1. CacheOK(E, T, D)
    BY DiskParts
  <2>2. ASSUME NEW e \in File, E2[e].valid = 1 PROVE InStep(E2[e], D)
    <3>1. Alike(E[e], E2[e])
      BY <1>1, FileEntry
    <3>2. InStep(E[e], D)
      BY <2>1, <2>2, <3>1 DEF CacheOK, Alike
    <3> QED BY <3>1, <3>2 DEF InStep, Alike, Clean
  <2> QED BY <2>1, <2>2, <1>4, CacheKept
<1>12. DatDom(d) /\ NamesOK(l, D)
  BY DiskParts
<1> QED BY <1>5, <1>6, <1>7, <1>8, <1>9, <1>10, <1>11, <1>12, DiskStep

(* The steps *)
Ctl == CtlOK(load, calls, ent, todo, file)
Disk == DiskOK(load, ent, todo, fat, data, Dir)
FInv == CallsAre(load) /\ Ctl /\ Disk

LEMMA AtIs ==
  ASSUME Ctl, NEW p \in Procs, NEW op, At(p, op)
  PROVE  todo[p] # <<>> /\ todo[p][1].op = op /\ Now(p) = todo[p][1] /\ SeqOK(todo[p]) /\ IsSeq(todo[p])
<1>1. SeqOK(todo[p])
  BY Ready DEF Ctl
<1>2. todo[p] # <<>> /\ Head(todo[p]).op = op
  BY DEF At
<1>3. Head(todo[p]) = todo[p][1] /\ IsSeq(todo[p])
  BY <1>1, <1>2, FirstIs
<1> QED BY <1>1, <1>2, <1>3 DEF Now
LEMMA TodoIs ==
  ASSUME Ctl
  PROVE  todo = [q \in Procs |-> todo[q]] /\ file = [q \in Procs |-> file[q]] /\ EntDom(ent)
  BY DEF Ctl, CtlOK, Files1
LEMMA DoPush ==
  ASSUME Ctl, NEW p \in Procs, todo[p] # <<>>, NEW a, IsSeq(a), Push(p, a)
  PROVE  \E r : Puts(r, a, todo[p]) /\ Becomes(todo, todo', p, r)
<1> DEFINE r == a \o Tail(todo[p])
<1>1. IsSeq(todo[p])
  BY Ready, SeqParts DEF Ctl
<1>2. Puts(r, a, todo[p])
  BY <1>1, PutsIs
<1>3. todo' = [todo EXCEPT ![p] = r]
  BY DEF Push
<1>4. Becomes(todo, [todo EXCEPT ![p] = r], p, r)
  BY TodoIs, BecomesIs
<1>5. Becomes(todo, todo', p, r)
  BY <1>3, <1>4
<1> QED BY <1>2, <1>5
LEMMA DoPop ==
  ASSUME Ctl, NEW p \in Procs, todo[p] # <<>>, Pop(p)
  PROVE  \E r : Pops(r, todo[p]) /\ Becomes(todo, todo', p, r)
<1>1. IsSeq(<<>>)
  BY Tup0
<1>2. Push(p, <<>>)
  BY DEF Pop
<1> QED BY <1>1, <1>2, DoPush DEF Pops
\* what is left when a step that makes nothing is done
LEMMA PopQuiet ==
  ASSUME NEW s, SeqOK(s), s # <<>>, s[1].op \notin MakeOps \cup {"valid", "etrunc"}, NEW r, Pops(r, s), NEW E
  PROVE  /\ NoHead(s) /\ SameMaking(s, r, E) /\ s[1].op # "store" /\ Whole(s, 1) /\ Goes1(s, 1) /\ Len(s) \in Nat /\ Len(s) >= 1
         /\ r # <<>> => Len(s) >= 2 /\ r[1] = s[2] /\ 2 \in 1..Len(s)
<1>1. \A d \in File : ~Creating(s, d) /\ ~Creating(r, d)
  BY PopMore
<1>2. /\ Whole(s, 1) /\ Goes1(s, 1) /\ Len(s) \in Nat /\ 1 \in 1..Len(s)
      /\ (Len(s) >= 2 => r # <<>> /\ r[1] = s[2]) /\ (r # <<>> <=> Len(s) >= 2)
  BY PopMore
<1>3. Len(s) >= 1 /\ (Len(s) >= 2 => 2 \in 1..Len(s))
  BY <1>2
<1> QED BY <1>1, <1>2, <1>3 DEF NoHead, SameMaking, MakeOps

\* only locks change
LEMMA LockedMoves ==
  ASSUME NEW E, NEW E2, NEW e \in Entry, NEW v, LockedBy(E, E2, e, v), NEW T, NEW t, NEW p,
         \A d \in Entry : E2[d].cur = E[d].cur /\ E2[d].cnt = E[d].cnt
  PROVE  AllAlike(E, E2) /\ CurMoves(E, E2, T, t, p)
  BY DEF LockedBy, CurMoves
LEMMA LockCur ==
  ASSUME NEW E, EntDom(E), NEW e \in Entry, NEW v \in Procs \cup {NoProc}, NEW E2, E2 = [E EXCEPT ![e].lock = v]
  PROVE  \A d \in Entry : E2[d].cur = E[d].cur /\ E2[d].cnt = E[d].cnt
<1>1. E = [d \in Entry |-> E[d]] /\ IsEnt(E[e])
  BY DEF EntDom
<1>2. E2[e] = [E[e] EXCEPT !.lock = v] /\ \A d \in Entry : d # e => E2[d] = E[d]
  BY <1>1
<1>3. E2[e].cur = E[e].cur /\ E2[e].cnt = E[e].cnt
  BY <1>1, <1>2 DEF IsEnt
<1> QED BY <1>2, <1>3

LEMMA LocalElock ==
  ASSUME NEW s, SeqOK(s), s # <<>>, s[1].op = "elock", NEW r, Pops(r, s), NEW E, NEW E2, AllAlike(E, E2), NEW t, NEW d,
         LocalOK(s, E, t, d)
  PROVE  NoHead(r) /\ LocalOK(r, E2, t, d)
<1>1. SUFFICES ASSUME r # <<>> PROVE NoHead(r) /\ LocalOK(r, E2, t, d)
  BY DEF NoHead, LocalOK, Shaped
<1>2. Goes1(s, 1) /\ Whole(s, 1) /\ r[1] = s[2] /\ 2 \in 1..Len(s)
  BY <1>1, PopQuiet DEF MakeOps
<1>3. CASE s[1].e = Root
  <2>1. s[2].op = "lookup" \/ \E e \in File : Is(s, 2, "eremove", e) \/ Is(s, 2, "eupdate", e)
    BY <1>2, <1>3 DEF Goes1
  <2>2. CASE s[2].op = "lookup" \/ s[2].op = "eremove"
    BY <1>2, <2>2 DEF NoHead, LocalOK, Shaped
  <2>3. CASE \E e \in File : Is(s, 2, "eupdate", e)
    <3>1. PICK e \in File : Is(s, 2, "eupdate", e)
      BY <2>3
    <3>2. E[e].valid = 1 /\ s[2].op = "eupdate" /\ s[2].e = e
      BY <1>3, <3>1 DEF LocalOK, Is
    <3>3. E2[e].valid = 1
      BY <3>2, FileEntry DEF AllAlike, Alike
    <3> QED BY <1>2, <3>2, <3>3 DEF NoHead, LocalOK, Shaped
  <2> QED BY <2>1, <2>2, <2>3 DEF Is
<1>4. CASE s[1].e # Root
  <2>1. \E o \in {"opened", "eunlock", "remove", "ewrite"} : s[2].op = o /\ s[2].e = s[1].e
    BY <1>2, <1>4 DEF Goes1, Is
  <2> QED BY <1>2, <1>4, <2>1 DEF NoHead, LocalOK, Shaped
<1> QED BY <1>3, <1>4
LEMMA LocalEunlock ==
  ASSUME NEW s, SeqOK(s), s # <<>>, s[1].op = "eunlock", NEW r, Pops(r, s), NEW E, NEW E2, AllAlike(E, E2), NEW t, NEW d,
         LocalOK(s, E, t, d)
  PROVE  NoHead(r) /\ LocalOK(r, E2, t, d)
<1>1. SUFFICES ASSUME r # <<>> PROVE NoHead(r) /\ LocalOK(r, E2, t, d)
  BY DEF NoHead, LocalOK, Shaped
<1>9. Goes1(s, 1) /\ Whole(s, 1) /\ r[1] = s[2] /\ 2 \in 1..Len(s) /\ Len(s) \in Nat /\ Len(s) >= 2
  BY <1>1, PopQuiet DEF MakeOps
<1>2. Goes1(s, 1) /\ Whole(s, 1) /\ r[1] = s[2] /\ 2 \in 1..Len(s) /\ 1 # Len(s)
  BY <1>9
<1>3. CASE s[1].e = Root
  <2>1. PICK e \in File, o \in {"eput", "elock", "eunlock", "drop"} : s[2].op = o /\ s[2].e = e
    BY <1>2, <1>3 DEF Goes1, Is
  <2>2. e # Root
    BY FileEntry
  <2>3. CASE s[2].op # "drop"
    BY <1>2, <2>1, <2>2, <2>3 DEF NoHead, LocalOK, Shaped
  <2>4. CASE s[2].op = "drop"
    <3>1. Is(s, 2, "drop", e)
      BY <1>2, <2>1, <2>4 DEF Is
    <3>2. (E[e].valid = 1 => Clean(E[e])) /\ (E[e].valid = -1 => E[e].first = 0)
      BY <1>3, <3>1 DEF LocalOK
    <3>3. (E2[e].valid = 1 => Clean(E2[e])) /\ (E2[e].valid = -1 => E2[e].first = 0)
      BY <3>2, FileEntry DEF AllAlike, Alike, Clean
    <3> QED BY <1>2, <2>1, <2>4, <3>3 DEF NoHead, LocalOK, Shaped
  <2> QED BY <2>3, <2>4
<1>4. CASE s[1].e # Root
  <2>1. s[2].op = "eput"
    BY <1>2, <1>4 DEF Goes1, Is
  <2> QED BY <1>2, <2>1 DEF NoHead, LocalOK, Shaped
<1> QED BY <1>3, <1>4

LEMMA DirSame == ASSUME UNCHANGED <<fat, data>> PROVE Dir' = Dir
  BY DEF Dir
\* CallsAre() after a step, and the state in terms of the one before
LEMMA NextInv ==
  ASSUME FInv, load' = load, CtlOK(load, calls', ent', todo', file'),
         DiskOK(load, ent', todo', fat', data', Dir')
  PROVE  FInv'
<1>1. CallsAre(load)'
  BY DEF FInv, CallsAre, CallsOf
<1> QED BY <1>1 DEF FInv, Ctl, Disk

LockPut(E, E2, e, v) == E2 = [E EXCEPT ![e].lock = v]
LEMMA LockPutIs ==
  ASSUME NEW E, EntDom(E), NEW e \in Entry, NEW v \in Procs \cup {NoProc}, NEW E2, LockPut(E, E2, e, v)
  PROVE  LockedBy(E, E2, e, v) /\ \A d \in Entry : E2[d].cur = E[d].cur /\ E2[d].cnt = E[d].cnt
<1>1. E2 = [E EXCEPT ![e].lock = v]
  BY DEF LockPut
<1>2. LockedBy(E, E2, e, v)
  BY <1>1, LockSet
<1>3. \A d \in Entry : E2[d].cur = E[d].cur /\ E2[d].cnt = E[d].cnt
  BY <1>1, LockCur
<1> QED BY <1>2, <1>3

LEMMA DoElock == ASSUME FInv, NEW p \in Procs, Elock(p) PROVE FInv'
<1> DEFINE s == todo[p]
<1> DEFINE e == s[1].e
<1>1. Ctl /\ Disk
  BY DEF FInv
<1>2. At(p, "elock") /\ Pop(p) /\ ent[Now(p).e].lock = NoProc /\ ent' = [ent EXCEPT ![Now(p).e].lock = p]
      /\ UNCHANGED <<load, calls, fat, data, file>>
  BY DEF Elock
<1>3. s # <<>> /\ s[1].op = "elock" /\ Now(p) = s[1] /\ SeqOK(s)
  BY <1>1, <1>2, AtIs
<1>4. PICK r : Pops(r, s) /\ Becomes(todo, todo', p, r)
  BY <1>1, <1>2, <1>3, DoPop
<1>5. e \in Entry
  BY <1>3, FirstIs DEF Whole
<1>6. ent[e].lock = NoProc /\ LockPut(ent, ent', e, p)
  BY <1>2, <1>3 DEF LockPut
<1>7. EntDom(ent) /\ CtlOK(load, calls, ent, todo, file) /\ DiskOK(load, ent, todo, fat, data, Dir)
  BY <1>1, TodoIs DEF Ctl, Disk
<1> HIDE DEF e
<1>8. LockedBy(ent, ent', e, p) /\ \A x \in Entry : ent'[x].cur = ent[x].cur /\ ent'[x].cnt = ent[x].cnt
  BY <1>5, <1>6, <1>7, LockPutIs
<1>9. CtlOK(load, calls, ent', todo', file)
  BY <1>3, <1>4, <1>6, <1>7, <1>8, CtlElock DEF e
<1>10. AllAlike(ent, ent') /\ CurMoves(ent, ent', todo, fat, p)
  BY <1>5, <1>8, LockedMoves
<1>11. LocalOK(s, ent, fat, data)
  BY <1>7, DiskParts
<1>12. NoHead(r) /\ LocalOK(r, ent', fat, data)
  BY <1>3, <1>4, <1>10, <1>11, LocalElock
<1>13. NoHead(s) /\ SameMaking(s, r, ent)
  BY <1>3, <1>4, PopQuiet DEF MakeOps
<1>14. DiskOK(load, ent', todo', fat, data, Dir)
  BY <1>4, <1>7, <1>10, <1>12, <1>13, DiskQuiet
<1> QED BY <1>1, <1>2, <1>9, <1>14, DirSame, NextInv

\* a step that leaves the disk, and what the entries say of their files
LEMMA QuietInv ==
  ASSUME FInv, NEW p \in Procs, NEW r, Becomes(todo, todo', p, r), UNCHANGED <<load, fat, data>>,
         CtlOK(load, calls', ent', todo', file'),
         AllAlike(ent, ent'), CurMoves(ent, ent', todo, fat, p),
         NoHead(todo[p]), NoHead(r), SameMaking(todo[p], r, ent), LocalOK(r, ent', fat, data)
  PROVE  FInv'
<1>1. CtlOK(load, calls, ent, todo, file) /\ DiskOK(load, ent, todo, fat, data, Dir)
  BY DEF FInv, Ctl, Disk
<1>2. DiskOK(load, ent', todo', fat, data, Dir)
  BY <1>1, DiskQuiet
<1>3. load' = load /\ fat' = fat /\ data' = data
  OBVIOUS
<1>4. Dir' = Dir
  BY <1>3, DirSame
<1>5. DiskOK(load, ent', todo', fat', data', Dir')
  BY <1>2, <1>3, <1>4
<1> QED BY <1>3, <1>5, NextInv
LEMMA StillAlike == ASSUME NEW E, NEW T, NEW t, NEW p PROVE AllAlike(E, E) /\ CurMoves(E, E, T, t, p)
  BY DEF AllAlike, Alike, CurMoves
LEMMA NoneMakes ==
  ASSUME NEW s, NEW r, \A d \in File : ~Creating(s, d) /\ ~Creating(r, d), NEW E
  PROVE  SameMaking(s, r, E)
  BY DEF SameMaking

LEMMA DoEunlock == ASSUME FInv, NEW p \in Procs, Eunlock(p) PROVE FInv'
<1> DEFINE s == todo[p]
<1> DEFINE e == s[1].e
<1>1. Ctl /\ Disk
  BY DEF FInv
<1>2. At(p, "eunlock") /\ Pop(p) /\ ent' = [ent EXCEPT ![Now(p).e].lock = NoProc]
      /\ UNCHANGED <<load, calls, fat, data, file>>
  BY DEF Eunlock
<1>3. s # <<>> /\ s[1].op = "eunlock" /\ Now(p) = s[1] /\ SeqOK(s)
  BY <1>1, <1>2, AtIs
<1>4. PICK r : Pops(r, s) /\ Becomes(todo, todo', p, r)
  BY <1>1, <1>2, <1>3, DoPop
<1>5. e \in Entry
  BY <1>3, FirstIs DEF Whole
<1>6. LockPut(ent, ent', e, NoProc)
  BY <1>2, <1>3 DEF LockPut
<1>7. EntDom(ent) /\ CtlOK(load, calls, ent, todo, file) /\ DiskOK(load, ent, todo, fat, data, Dir)
  BY <1>1, TodoIs DEF Ctl, Disk
<1> HIDE DEF e
<1>8. LockedBy(ent, ent', e, NoProc) /\ \A x \in Entry : ent'[x].cur = ent[x].cur /\ ent'[x].cnt = ent[x].cnt
  BY <1>5, <1>6, <1>7, LockPutIs
<1>9. CtlOK(load, calls, ent', todo', file)
  BY <1>3, <1>4, <1>7, <1>8, CtlEunlock DEF e
<1>10. AllAlike(ent, ent') /\ CurMoves(ent, ent', todo, fat, p)
  BY <1>5, <1>8, LockedMoves
<1>11. LocalOK(s, ent, fat, data)
  BY <1>7, DiskParts
<1>12. NoHead(r) /\ LocalOK(r, ent', fat, data)
  BY <1>3, <1>4, <1>10, <1>11, LocalEunlock
<1>13. NoHead(s) /\ SameMaking(s, r, ent)
  BY <1>3, <1>4, PopQuiet DEF MakeOps
<1>14. CtlOK(load, calls', ent', todo', file')
  BY <1>2, <1>9
<1> QED BY <1>2, <1>4, <1>10, <1>12, <1>13, <1>14, QuietInv

LEMMA DoSetFile == ASSUME FInv, NEW p \in Procs, SetFile(p) PROVE FInv'
<1> DEFINE s == todo[p]
<1> DEFINE e == s[1].e
<1>1. Ctl /\ Disk /\ CtlOK(load, calls, ent, todo, file)
  BY DEF FInv, Ctl
<1>2. At(p, "setfile") /\ Pop(p)
      /\ file' = [file EXCEPT ![p] = [e |-> Now(p).e, off |-> IF Now(p).append THEN ent[Now(p).e].size ELSE 0]]
      /\ UNCHANGED <<load, calls, fat, data, ent>>
  BY DEF SetFile
<1>3. s # <<>> /\ s[1].op = "setfile" /\ Now(p) = s[1] /\ SeqOK(s)
  BY <1>1, <1>2, AtIs
<1>4. PICK r : Pops(r, s) /\ Becomes(todo, todo', p, r)
  BY <1>1, <1>2, <1>3, DoPop
<1>5. e \in Entry /\ e # Root /\ e \in File
  <2>1. Whole(s, 1)
    BY <1>3, FirstIs
  <2> QED BY <2>1, <1>3 DEF Whole, OnFile, File
<1>6. ent[e].size \in Nat
  BY <1>1, <1>5, DiskParts DEF Disk, Sizes
<1>7. PICK o \in Nat : file' = [file EXCEPT ![p] = [e |-> e, off |-> o]]
  <2>1. CASE s[1].append
    BY <2>1, <1>2, <1>3, <1>6
  <2>2. CASE ~s[1].append
    BY <2>2, <1>2, <1>3
  <2> QED BY <2>1, <2>2
<1> DEFINE f2 == [e |-> e, off |-> o]
<1>8. Becomes(file, file', p, f2)
  <2>1. Becomes(file, [file EXCEPT ![p] = f2], p, f2)
    BY <1>1, TodoIs, BecomesIs
  <2> QED BY <2>1, <1>7
<1>9. IsFile(f2) /\ FileIs(f2, e)
  <2>1. f2 # None
    BY <1>5, NoneAssumption DEF Entry
  <2>2. f2.e = e /\ f2.off = o /\ f2 = [e |-> f2.e, off |-> f2.off]
    OBVIOUS
  <2> HIDE DEF f2
  <2> QED BY <2>1, <2>2, <1>5 DEF IsFile, FileIs
<1> HIDE DEF f2
<1>10. CtlOK(load, calls, ent, todo', file')
  BY <1>1, <1>3, <1>4, <1>8, <1>9, CtlSetFile
<1>11. NoHead(r) /\ LocalOK(r, ent, fat, data)
  <2>1. SUFFICES ASSUME r # <<>> PROVE NoHead(r) /\ LocalOK(r, ent, fat, data)
    BY DEF NoHead, LocalOK, Shaped
  <2>2. Goes1(s, 1) /\ r[1] = s[2]
    BY <2>1, <1>3, <1>4, PopQuiet DEF MakeOps
  <2>3. s[2].op = "eunlock" /\ s[2].e = e
    BY <2>2, <1>3 DEF Goes1, Is
  <2> QED BY <2>2, <2>3, <1>5 DEF NoHead, LocalOK, Shaped
<1>12. NoHead(s) /\ SameMaking(s, r, ent)
  BY <1>3, <1>4, PopQuiet DEF MakeOps
<1>13. CtlOK(load, calls', ent', todo', file') /\ LocalOK(r, ent', fat, data)
  BY <1>2, <1>10, <1>11
<1>14. AllAlike(ent, ent') /\ CurMoves(ent, ent', todo, fat, p)
  BY <1>2, StillAlike
<1> QED BY <1>2, <1>4, <1>11, <1>12, <1>13, <1>14, QuietInv

\* the steps that replace the last one of a call
LEMMA PutsLast ==
  ASSUME NEW r, NEW a, NEW s, IsSeq(a), Puts(r, a, s), Len(s) = 1
  PROVE  IsSeq(r) /\ Len(r) = Len(a) /\ \A k \in 1..Len(a) : r[k] = a[k]
<1>1. Len(a) \in Nat /\ Len(r) = Len(a) + Len(s) - 1
  BY DEF IsSeq, Puts
<1>2. Len(r) = Len(a)
  BY <1>1
<1> QED BY <1>2 DEF Puts
LEMMA FormsSame ==
  ASSUME NEW r, NEW a, IsSeq(r), Len(r) = Len(a), \A k \in 1..Len(a) : r[k] = a[k], NEW e
  PROVE  /\ OpenedForm(a, e) => OpenedForm(r, e) /\ r[1] = a[1]
         /\ RemoveForm(a, e) => RemoveForm(r, e) /\ r[1] = a[1] /\ (r[1].op = "elock" => r[2] = a[2] /\ r[2].op = "eremove")
         /\ LastPutForm(a, e) => LastPutForm(r, e) /\ r[1] = a[1] /\ r[2] = a[2]
<1>1. \A n \in {2, 3, 4, 5} : \A j \in 1..n : Len(a) = n => r[j] = a[j]
  OBVIOUS
<1>2. ASSUME OpenedForm(a, e) PROVE OpenedForm(r, e) /\ r[1] = a[1]
  BY <1>1, <1>2 DEF OpenedForm
<1>3. ASSUME RemoveForm(a, e) PROVE RemoveForm(r, e) /\ r[1] = a[1] /\ (r[1].op = "elock" => r[2] = a[2] /\ r[2].op = "eremove")
  BY <1>1, <1>3 DEF RemoveForm
<1>4. ASSUME LastPutForm(a, e) PROVE LastPutForm(r, e) /\ r[1] = a[1] /\ r[2] = a[2]
  BY <1>1, <1>4 DEF LastPutForm
<1> QED BY <1>2, <1>3, <1>4

\* what follows from the forms for the disk
LEMMA FormQuiet ==
  ASSUME NEW r, NEW e, OpenedForm(r, e) \/ RemoveForm(r, e)
  PROVE  /\ \A d \in File : ~Creating(r, d)
         /\ r # <<>> /\ e \in File /\ e # Root
         /\ r[1].op # "etrunc" => NoHead(r) /\ \A E, t, d : LocalOK(r, E, t, d)
<1>1. Fits(r, e)
  BY FormFits
<1>2. e \in File /\ e # Root
  BY FileEntry DEF OpenedForm, RemoveForm
<1>3. ASSUME OpenedForm(r, e), r[1].op # "etrunc", NEW E, NEW t, NEW d PROVE NoHead(r) /\ LocalOK(r, E, t, d)
  <2>1. r[1].op \in {"eunlock", "setfile"} /\ r[1].e = e
    BY <1>3 DEF OpenedForm
  <2> QED BY <2>1, <1>2 DEF NoHead, LocalOK, Shaped
<1>4. ASSUME RemoveForm(r, e), NEW E, NEW t, NEW d PROVE NoHead(r) /\ LocalOK(r, E, t, d)
  <2>1. CASE r[1].op = "eunlock" /\ r[1].e = e
    BY <2>1, <1>2 DEF NoHead, LocalOK, Shaped
  <2>2. CASE r[1].op = "elock" /\ r[2].op = "eremove"
    <3>1. \A f \in File : ~Is(r, 2, "eupdate", f)
      BY <2>2 DEF Is
    <3> QED BY <2>2, <3>1 DEF NoHead, LocalOK, Shaped
  <2> QED BY <1>4, <2>1, <2>2 DEF RemoveForm
<1> QED BY <1>1, <1>2, <1>3, <1>4 DEF Fits, NoHead

LEMMA DoRemove == ASSUME FInv, NEW p \in Procs, Remove(p) PROVE FInv'
<1> DEFINE s == todo[p]
<1> DEFINE e == s[1].e
<1>1. Ctl /\ Disk /\ CtlOK(load, calls, ent, todo, file)
  BY DEF FInv, Ctl
<1>2. At(p, "remove") /\ UNCHANGED <<load, calls, fat, data, ent, file>>
  BY DEF Remove
<1>3. s # <<>> /\ s[1].op = "remove" /\ Now(p) = s[1] /\ SeqOK(s)
  BY <1>1, <1>2, AtIs
<1>4. e \in File /\ Len(s) = 1
  <2>1. Whole(s, 1) /\ Goes1(s, 1)
    BY <1>3, FirstIs
  <2> QED BY <2>1, <1>3 DEF Whole, OnFile, File, Goes1, LastOps
<1> DEFINE a1 == <<eunlock(e), eput(e)>>
<1> DEFINE a2 == <<elock(Root), [op |-> "eremove", e |-> e], eunlock(Root), eunlock(e), eput(e)>>
<1>5. Push(p, a1) \/ Push(p, a2)
  BY <1>3 DEF Remove
<1>6. IsSeq(a1) /\ RemoveForm(a1, e)
  <2>1. IsSeq(a1) /\ Len(a1) = 2 /\ a1[1] = eunlock(e) /\ a1[2] = eput(e)
    BY Tup2
  <2> HIDE DEF a1
  <2> QED BY <2>1, <1>4 DEF RemoveForm, eunlock, eput
<1>7. IsSeq(a2) /\ RemoveForm(a2, e)
  <2>1. IsSeq(a2) /\ Len(a2) = 5 /\ a2[1] = elock(Root) /\ a2[2] = [op |-> "eremove", e |-> e] /\ a2[3] = eunlock(Root)
        /\ a2[4] = eunlock(e) /\ a2[5] = eput(e)
    BY Tup5
  <2> HIDE DEF a2
  <2> QED BY <2>1, <1>4 DEF RemoveForm, eunlock, eput, elock
<1> HIDE DEF a1, a2
<1>8. PICK a : IsSeq(a) /\ RemoveForm(a, e) /\ Push(p, a)
  BY <1>5, <1>6, <1>7
<1>9. PICK r : Puts(r, a, s) /\ Becomes(todo, todo', p, r)
  BY <1>1, <1>3, <1>8, DoPush
<1>10. RemoveForm(r, e) /\ r[1].op # "etrunc"
  <2>1. RemoveForm(r, e)
    BY <1>4, <1>8, <1>9, PutsLast, FormsSame
  <2> QED BY <2>1 DEF RemoveForm
<1>11. CtlOK(load, calls, ent, todo', file)
  BY <1>1, <1>3, <1>9, <1>10, CtlOpenedRemove
<1>12. NoHead(r) /\ LocalOK(r, ent, fat, data) /\ \A x \in File : ~Creating(r, x)
  BY <1>10, FormQuiet
<1>13. NoHead(s) /\ \A x \in File : ~Creating(s, x)
  BY <1>3, NoValid DEF MakeOps, NoHead
<1>14. SameMaking(s, r, ent)
  BY <1>12, <1>13, NoneMakes
<1>15. CtlOK(load, calls', ent', todo', file') /\ LocalOK(r, ent', fat, data)
  BY <1>2, <1>11, <1>12
<1>16. AllAlike(ent, ent') /\ CurMoves(ent, ent', todo, fat, p)
  BY <1>2, StillAlike
<1> QED BY <1>2, <1>9, <1>12, <1>13, <1>14, <1>15, <1>16, QuietInv

-----------------------------------------------------------------------------
\* a process begins to free the clusters of e, whose lock it has or gets
LEMMA DiskTrunc ==
  ASSUME NEW l, NEW K, NEW E, NEW T, NEW F, CtlOK(l, K, E, T, F), NEW t, NEW d, NEW D, DiskOK(l, E, T, t, d, D),
         NEW p \in Procs, NEW r, NEW T2, Becomes(T, T2, p, r), NEW E2, AllAlike(E, E2),
         \A x \in Entry : E2[x].cur = E[x].cur /\ E2[x].cnt = E[x].cnt,
         NEW e \in File, E[e].lock \in {p, NoProc}, E[e].ref > 0,
         NoHead(T[p]), r # <<>>, r[1].op = "etrunc", r[1].e = e, r[1].c = E[e].first,
         \A x \in File : ~Creating(T[p], x) /\ ~Creating(r, x), LocalOK(r, E2, t, d)
  PROVE  DiskOK(l, E2, T2, t, d, D)
<1>0. p \in Procs /\ Becomes(T, T2, p, r)
  OBVIOUS
<1>1. \A x \in Entry : Alike(E[x], E2[x]) /\ (InMem(E2[x]) <=> InMem(E[x]))
  BY DEF AllAlike, Alike, InMem
<1>2. \A x : x # e => (Cut(T, x) <=> Cut(T2, x))
  BY CutSame DEF NoHead, OnEntry
<1>3. \A x \in File : Made(T, x) <=> Made(T2, x)
  BY MadeSame
<1>4. SameBound(E, T, E2, T2)
  BY <1>1, <1>3, FileEntry DEF SameBound, Bound, Alike
<1>5. Mine(E, E2, p)
  BY <1>1 DEF Mine, Steady, Alike
<1>6. Untouched(E, T, t, t, d, d, p)
  BY KeepsSame
<1>7. ~Cut(T, e)
  <2>1. SUFFICES ASSUME NEW q \in Procs, OnEntry(T[q], {"etrunc"}, e) PROVE FALSE
    BY DEF Cut
  <2>2. T[q] # <<>> /\ T[q][1].op = "etrunc" /\ T[q][1].e = e
    BY <2>1 DEF OnEntry
  <2>3. E[e].lock = q
    BY <2>2, HeadLocked DEF NeedsLock
  <2>4. q = p
    BY <2>3, ProcsAssumption
  <2> QED BY <2>2, <2>4 DEF NoHead
<1>8. Cut(T2, e) /\ e \in Entry /\ InMem(E[e])
  BY FileEntry DEF Cut, OnEntry, Becomes, InMem
<1>9. FatOK(l, Heads(E2, T2, D), t)
  <2> DEFINE h == Heads(E, T, D) h2 == Heads(E2, T2, D)
  <2>1. /\ \A g \in Nat : h2[Ig(g)] = h[Ig(g)]
        /\ \A q \in Procs : q # p => h2[Ip(q)] = h[Ip(q)]
        /\ h2[Ip(p)] = Held(r) /\ h[Ip(p)] = Held(T[p])
        /\ \A x \in Entry : h2[Ie(x)] = EntryHead(E2, T2, x) /\ h[Ie(x)] = EntryHead(E, T, x)
    BY ONLY <1>0, <1>4, HeadsChange
  <2>2. Held(T[p]) = 0 /\ Held(r) = E[e].first
    BY DEF NoHead, Held
  <2>3. \A x \in Entry : x # e => EntryHead(E2, T2, x) = EntryHead(E, T, x)
    BY <1>1, <1>2 DEF EntryHead, Alike
  <2>4. EntryHead(E, T, e) = E[e].first /\ EntryHead(E2, T2, e) = 0
    BY <1>7, <1>8 DEF EntryHead
  <2>5. FatOK(l, h, t)
    BY DiskParts
  <2> HIDE DEF h, h2
  <2>6. Moves(h, h2, Ie(e), Ip(p))
    <3> SUFFICES ASSUME NEW z \in Idx, z # Ie(e), z # Ip(p) PROVE h2[z] = h[z]
      BY DEF Moves
    <3> QED BY <2>1, <2>3, IdxIs
  <2>7. Ie(e) \in Idx /\ Ip(p) \in Idx /\ Ie(e) # Ip(p)
    BY <1>8, IdxIs, IdxApart
  <2>8. ~Cl(h[Ip(p)]) /\ h2[Ip(p)] = h[Ie(e)] /\ h2[Ie(e)] \in {0, EOC}
    BY <2>1, <2>2, <2>4, <1>8, ClNot
  <2>9. FatOK(l, h2, t)
    BY <2>5, <2>6, <2>7, <2>8, FatMove
  <2> QED BY <2>9 DEF h2
<1>10. CurOK(E2, T2, t)
  <2>1. CurOK(E, T, t)
    BY DiskParts
  <2> SUFFICES ASSUME NEW x \in Entry, InMem(E2[x]), Cl(E2[x].first), ~Cut(T2, x)
               PROVE  At1(t, E2[x].first, E2[x].cur, E2[x].cnt)
    BY DEF CurOK
  <2>2. InMem(E[x]) /\ Cl(E[x].first) /\ ~Cut(T, x) /\ E2[x].first = E[x].first
    BY <1>1, <1>2, <1>8 DEF Alike
  <2>3. At1(t, E[x].first, E[x].cur, E[x].cnt)
    BY <2>1, <2>2 DEF CurOK
  <2> QED BY <2>2, <2>3
<1>11. Sizes(E2) /\ RootOK(E2)
  BY <1>1, DiskParts, FileEntry DEF Sizes, RootOK, Alike
<1>12. DirOK(E2, T2, D)
  <2>1. \A x \in File : AlikeShort(E[x], E2[x])
    BY <1>1, FileEntry DEF AlikeShort, Alike
  <2> QED BY <2>1, DiskParts, DirKept
<1>13. CacheOK(E2, T2, D)
  <2>1. CacheOK(E, T, D)
    BY DiskParts
  <2>2. ASSUME NEW x \in File, E2[x].valid = 1 PROVE InStep(E2[x], D)
    <3>1. Alike(E[x], E2[x])
      BY <1>1, FileEntry
    <3>2. InStep(E[x], D)
      BY <2>1, <2>2, <3>1 DEF CacheOK, Alike
    <3> QED BY <3>1, <3>2 DEF InStep, Alike, Clean
  <2> QED BY <2>1, <2>2, <1>4, CacheKept
<1>14. DatDom(d) /\ NamesOK(l, D)
  BY DiskParts
<1> QED BY <1>5, <1>6, <1>9, <1>10, <1>11, <1>12, <1>13, <1>14, DiskStep

LEMMA ShapedTrunc == ASSUME NEW e, NEW c PROVE Shaped(etrunc(e, c))
  BY DEF Shaped, etrunc
LEMMA DoOpened == ASSUME FInv, NEW p \in Procs, Opened(p) PROVE FInv'
<1> DEFINE s == todo[p]
<1> DEFINE e == s[1].e
<1>1. Ctl /\ Disk /\ CtlOK(load, calls, ent, todo, file) /\ DiskOK(load, ent, todo, fat, data, Dir)
  BY DEF FInv, Ctl, Disk
<1>2. At(p, "opened") /\ UNCHANGED <<load, calls, fat, data, ent, file>>
  BY DEF Opened
<1>3. s # <<>> /\ s[1].op = "opened" /\ Now(p) = s[1] /\ SeqOK(s)
  BY <1>1, <1>2, AtIs
<1>4. e \in File /\ Len(s) = 1
  <2>1. Whole(s, 1) /\ Goes1(s, 1)
    BY <1>3, FirstIs
  <2> QED BY <2>1, <1>3 DEF Whole, OnFile, File, Goes1, LastOps
<1> DEFINE set == [op |-> "setfile", e |-> e, append |-> s[1].c.append]
<1> DEFINE a1 == <<eunlock(e), eput(e)>>
<1> DEFINE b == <<set, eunlock(e)>>
<1> DEFINE a2 == <<>> \o b
<1> DEFINE a3 == <<etrunc(e, ent[e].first)>> \o b
<1> DEFINE Starts(a) == a[1].op = "etrunc" => a[1].c = ent[e].first /\ a[1].e = e /\ Shaped(a[1])
<1>5. Push(p, a1) \/ Push(p, a2) \/ Push(p, a3)
  BY <1>3 DEF Opened
<1>6. IsSeq(a1) /\ OpenedForm(a1, e) /\ Starts(a1)
  <2>1. IsSeq(a1) /\ Len(a1) = 2 /\ a1[1] = eunlock(e) /\ a1[2] = eput(e)
    BY Tup2
  <2> HIDE DEF a1
  <2> QED BY <2>1, <1>4 DEF OpenedForm, eunlock, eput
<1>7. IsSeq(b) /\ Len(b) = 2 /\ b[1].op = "setfile" /\ b[1].e = e /\ b[2] = eunlock(e)
  <2>1. IsSeq(b) /\ Len(b) = 2 /\ b[1] = set /\ b[2] = eunlock(e)
    BY Tup2
  <2> QED BY <2>1
<1> HIDE DEF b
<1>8. IsSeq(a2) /\ OpenedForm(a2, e) /\ Starts(a2)
  <2>1. IsSeq(a2) /\ Len(a2) = 0 + 2 /\ \A k \in 1..2 : a2[0 + k] = b[k]
    BY <1>7, Tup0, CatIs
  <2> HIDE DEF a2
  <2>2. Len(a2) = 2 /\ a2[1] = b[1] /\ a2[2] = b[2]
    BY <2>1
  <2> QED BY <2>1, <2>2, <1>4, <1>7 DEF OpenedForm, eunlock
<1>9. IsSeq(a3) /\ OpenedForm(a3, e) /\ Starts(a3)
  <2> DEFINE c == <<etrunc(e, ent[e].first)>>
  <2>1. IsSeq(c) /\ Len(c) = 1 /\ c[1] = etrunc(e, ent[e].first)
    BY Tup1
  <2> HIDE DEF c
  <2>6. IsSeq(c) /\ IsSeq(b)
    BY <1>7, <2>1
  <2>7. /\ IsSeq(c \o b) /\ Len(c \o b) = Len(c) + Len(b)
        /\ \A k \in 1..Len(c) : (c \o b)[k] = c[k]
        /\ \A k \in 1..Len(b) : (c \o b)[Len(c) + k] = b[k]
    BY ONLY <2>6, CatIs
  <2>2. IsSeq(c \o b) /\ Len(c \o b) = 1 + 2 /\ (\A k \in 1..1 : (c \o b)[k] = c[k]) /\ \A k \in 1..2 : (c \o b)[1 + k] = b[k]
    BY ONLY <1>7, <2>1, <2>7
  <2>3. a3 = c \o b
    BY DEF c
  <2> HIDE DEF a3
  <2>4. IsSeq(a3) /\ Len(a3) = 3 /\ a3[1] = c[1] /\ a3[2] = b[1] /\ a3[3] = b[2]
    BY <2>2, <2>3
  <2>5. a3[1].op = "etrunc" /\ a3[1].e = e /\ a3[1].c = ent[e].first /\ a3[3] = eunlock(e)
    BY <2>1, <2>4, <1>7 DEF etrunc
  <2>8. Shaped(etrunc(e, ent[e].first)) /\ a3[1] = etrunc(e, ent[e].first)
    BY <2>1, <2>4, ShapedTrunc
  <2>9. Shaped(a3[1])
    BY ONLY <2>8
  <2> QED BY <2>4, <2>5, <2>9, <1>4, <1>7 DEF OpenedForm, eunlock
<1> HIDE DEF a1, a2, a3
<1>10. PICK a : IsSeq(a) /\ OpenedForm(a, e) /\ Push(p, a) /\ Starts(a)
  BY <1>5, <1>6, <1>8, <1>9
<1>11. PICK r : Puts(r, a, s) /\ Becomes(todo, todo', p, r)
  BY <1>1, <1>3, <1>10, DoPush
<1>12. OpenedForm(r, e) /\ Starts(r)
  <2>1. OpenedForm(r, e) /\ r[1] = a[1]
    BY <1>4, <1>10, <1>11, PutsLast, FormsSame
  <2> QED BY <2>1, <1>10
<1>13. CtlOK(load, calls, ent, todo', file)
  BY <1>1, <1>3, <1>11, <1>12, CtlOpenedRemove
<1>14. r # <<>> /\ \A x \in File : ~Creating(r, x)
  BY <1>12, FormQuiet
<1>15. NoHead(s) /\ \A x \in File : ~Creating(s, x)
  BY <1>3, NoValid DEF MakeOps, NoHead
<1>16. SameMaking(s, r, ent)
  BY <1>14, <1>15, NoneMakes
<1>17. CtlOK(load, calls', ent', todo', file')
  BY <1>2, <1>13
<1>18. AllAlike(ent, ent') /\ CurMoves(ent, ent', todo, fat, p)
  BY <1>2, StillAlike
<1>19. CASE r[1].op # "etrunc"
  <2>1. NoHead(r) /\ LocalOK(r, ent', fat, data)
    BY <1>12, <1>19, FormQuiet
  <2> QED BY <1>2, <1>11, <1>15, <1>16, <1>17, <1>18, <2>1, QuietInv
<1>20. CASE r[1].op = "etrunc"
  <2>1. r[1].e = e /\ r[1].c = ent[e].first /\ Shaped(r[1])
    BY <1>12, <1>20
  <2>2. \A x : ~Is(r, 2, "drop", x)
    BY <1>12, <1>20 DEF OpenedForm, Is
  <2>3. LocalOK(r, ent', fat, data)
    BY <1>20, <2>1, <2>2 DEF LocalOK
  <2>4. ent[e].lock = p
    <3>1. OnEntry(s, LockedOps, e) /\ e # Root /\ e \in Entry
      BY <1>3, <1>4, FileEntry DEF OnEntry, LockedOps
    <3>2. Holds(s, e)
      BY <3>1 DEF Holds, HoldsEntry
    <3> QED BY <1>1, <3>1, <3>2, Ready
  <2>5. ent[e].ref > 0
    <3>1. s[1].e # Root /\ s[1].op # "lookup"
      BY <1>3, <1>4, FileEntry
    <3> QED BY <1>1, <1>3, <3>1, HeadUsed
  <2> HIDE DEF e
  <2>6. \A x \in Entry : ent'[x].cur = ent[x].cur /\ ent'[x].cnt = ent[x].cnt
    BY <1>2
  <2>7. DiskOK(load, ent', todo', fat, data, Dir)
    BY <1>1, <1>4, <1>11, <1>14, <1>15, <1>18, <1>20, <2>1, <2>3, <2>4, <2>5, <2>6, DiskTrunc
  <2>8. fat' = fat /\ data' = data /\ load' = load /\ Dir' = Dir
    BY <1>2, DirSame
  <2> QED BY <1>17, <2>7, <2>8, NextInv
<1> QED BY <1>19, <1>20

-----------------------------------------------------------------------------
\* references come or go
RefMoves(E, E2) == \A x \in Entry :
  /\ Steady(E[x], E2[x]) /\ (E[x].first = 0 \/ (InMem(E[x]) <=> InMem(E2[x])))
  /\ x \in File /\ E[x].valid = 1 /\ E2[x].ref = 0 => Clean(E[x]) \/ E[x].ref = 0
LEMMA DiskRef ==
  ASSUME NEW l, NEW K, NEW E, NEW T, NEW F, CtlOK(l, K, E, T, F), NEW t, NEW d, NEW D, DiskOK(l, E, T, t, d, D),
         NEW p \in Procs, NEW r, NEW T2, Becomes(T, T2, p, r), NEW E2, RefMoves(E, E2),
         NoHead(T[p]), NoHead(r), SameMaking(T[p], r, E), LocalOK(r, E2, t, d)
  PROVE  DiskOK(l, E2, T2, t, d, D)
<1>0. p \in Procs /\ Becomes(T, T2, p, r)
  OBVIOUS
<1>1. \A x \in Entry : Steady(E[x], E2[x]) /\ (E[x].first = 0 \/ (InMem(E[x]) <=> InMem(E2[x])))
  BY DEF RefMoves
<1>2. \A e : Cut(T, e) <=> Cut(T2, e)
  BY CutSame DEF NoHead, OnEntry
<1>3. \A e \in File : Made(T, e) <=> Made(T2, e)
  BY MadeSame DEF SameMaking
<1>4. SameBound(E, T, E2, T2)
  BY <1>1, <1>3, FileEntry DEF SameBound, Bound, Steady
<1>5. Mine(E, E2, p)
  BY <1>1 DEF Mine
<1>6. Untouched(E, T, t, t, d, d, p)
  BY KeepsSame
<1>7. FatOK(l, Heads(E2, T2, D), t)
  <2> DEFINE h == Heads(E, T, D) h2 == Heads(E2, T2, D)
  <2>1. /\ \A g \in Nat : h2[Ig(g)] = h[Ig(g)]
        /\ \A q \in Procs : q # p => h2[Ip(q)] = h[Ip(q)]
        /\ h2[Ip(p)] = Held(r) /\ h[Ip(p)] = Held(T[p])
        /\ \A e \in Entry : h2[Ie(e)] = EntryHead(E2, T2, e) /\ h[Ie(e)] = EntryHead(E, T, e)
    BY ONLY <1>0, <1>4, HeadsChange
  <2>2. Held(r) = 0 /\ Held(T[p]) = 0
    BY DEF NoHead, Held
  <2>3. \A e \in Entry : EntryHead(E2, T2, e) = EntryHead(E, T, e)
    BY <1>1, <1>2 DEF EntryHead, Steady
  <2>6. FatOK(l, h, t)
    BY DiskParts
  <2> HIDE DEF h, h2
  <2>4. \A z \in Idx : h2[z] = h[z]
    BY <2>1, <2>2, <2>3, IdxIs
  <2>5. Alikes(h, h2)
    BY <2>4 DEF Alikes
  <2>7. FatOK(l, h2, t)
    BY <2>5, <2>6, FatAlike
  <2> QED BY <2>7 DEF h2
<1>8. CurOK(E2, T2, t)
  <2>1. CurOK(E, T, t)
    BY DiskParts
  <2> SUFFICES ASSUME NEW e \in Entry, InMem(E2[e]), Cl(E2[e].first), ~Cut(T2, e)
               PROVE  At1(t, E2[e].first, E2[e].cur, E2[e].cnt)
    BY DEF CurOK
  <2>2. InMem(E[e]) /\ Cl(E[e].first) /\ ~Cut(T, e) /\ Steady(E[e], E2[e])
    BY <1>1, <1>2, ClNot DEF Steady
  <2>3. At1(t, E[e].first, E[e].cur, E[e].cnt)
    BY <2>1, <2>2 DEF CurOK
  <2> QED BY <2>2, <2>3 DEF Steady
<1>9. Sizes(E2) /\ RootOK(E2)
  BY <1>1, DiskParts, FileEntry DEF Sizes, RootOK, Steady
<1>10. DirOK(E2, T2, D)
  <2>1. \A e \in File : AlikeShort(E[e], E2[e])
    BY <1>1, FileEntry DEF AlikeShort, Steady
  <2> QED BY <2>1, DiskParts, DirKept DEF SameMaking
<1>11. CacheOK(E2, T2, D)
  <2>1. CacheOK(E, T, D)
    BY DiskParts
  <2>2. ASSUME NEW e \in File, E2[e].valid = 1 PROVE InStep(E2[e], D)
    <3>1. Steady(E[e], E2[e]) /\ (E[e].valid = 1 /\ E2[e].ref = 0 => Clean(E[e]) \/ E[e].ref = 0)
      BY FileEntry DEF RefMoves
    <3>2. InStep(E[e], D) /\ E[e].valid = 1
      BY <2>1, <2>2, <3>1 DEF CacheOK, Steady
    <3> QED BY <3>1, <3>2 DEF InStep, Steady, Clean
  <2> QED BY <2>1, <2>2, <1>4, CacheKept
<1>12. DatDom(d) /\ NamesOK(l, D)
  BY DiskParts
<1> QED BY <1>5, <1>6, <1>7, <1>8, <1>9, <1>10, <1>11, <1>12, DiskStep

LEMMA AddLast ==
  ASSUME NEW c, IsSeq(c), NEW x
  PROVE  /\ IsSeq(c \o <<x>>) /\ Len(c \o <<x>>) = Len(c) + 1 /\ (c \o <<x>>)[Len(c) + 1] = x
         /\ \A k \in 1..Len(c) : (c \o <<x>>)[k] = c[k]
<1> DEFINE b == <<x>>
<1>1. IsSeq(b) /\ Len(b) = 1 /\ b[1] = x
  BY Tup1
<1> HIDE DEF b
<1>2. /\ IsSeq(c \o b) /\ Len(c \o b) = Len(c) + Len(b)
      /\ \A k \in 1..Len(c) : (c \o b)[k] = c[k]
      /\ \A k \in 1..Len(b) : (c \o b)[Len(c) + k] = b[k]
  <2>1. IsSeq(c) /\ IsSeq(b)
    BY <1>1
  <2> QED BY ONLY <2>1, CatIs
<1>3. 1 \in 1..Len(b)
  BY <1>1
<1>4. (c \o b)[Len(c) + 1] = x /\ Len(c \o b) = Len(c) + 1
  BY ONLY <1>1, <1>2, <1>3
<1> QED BY Zenon, <1>2, <1>4 DEF b

\* e has the references n and the lock v
RefPut(E, E2, e, n, v) == E2 = [E EXCEPT ![e] = [E[e] EXCEPT !.ref = n, !.lock = v]]
LEMMA RefPutIs ==
  ASSUME NEW E, EntDom(E), NEW e \in Entry, NEW n \in Nat, NEW v \in Procs \cup {NoProc}, NEW E2, RefPut(E, E2, e, n, v)
  PROVE  /\ EntDom(E2) /\ E2[e].ref = n /\ E2[e].lock = v /\ (\A d \in Entry : d # e => E2[d] = E[d])
         /\ \A d \in Entry : Steady(E[d], E2[d])
<1> DEFINE x == E[e]
<1> DEFINE y == [x EXCEPT !.ref = n, !.lock = v]
<1>1. IsEntry(x)
  BY EntIs
<1>4. Puts1(E, e, y, E2)
  BY DEF Puts1, RefPut
<1> HIDE DEF x
<1>2. y = [name |-> x.name, dir |-> x.dir, first |-> x.first, size |-> x.size, cur |-> x.cur, cnt |-> x.cnt,
           dirty |-> x.dirty, valid |-> x.valid, ref |-> n, off |-> x.off, lock |-> v]
  <2> DEFINE z == [x EXCEPT !.ref = n]
  <2>1. z = [name |-> x.name, dir |-> x.dir, first |-> x.first, size |-> x.size, cur |-> x.cur, cnt |-> x.cnt,
             dirty |-> x.dirty, valid |-> x.valid, ref |-> n, off |-> x.off, lock |-> x.lock]
    BY <1>1 DEF IsEntry, IsEnt
  <2>2. y = [z EXCEPT !.lock = v]
    OBVIOUS
  <2> HIDE DEF z, y
  <2> QED BY <2>1, <2>2
<1>3. /\ y.ref = n /\ y.lock = v /\ y.valid = x.valid /\ y.dirty = x.dirty /\ y.name = x.name /\ y.off = x.off
      /\ y.first = x.first /\ y.size = x.size /\ y.dir = x.dir /\ y.cur = x.cur /\ y.cnt = x.cnt /\ IsEnt(y)
  BY <1>2 DEF IsEnt
<1> HIDE DEF y
<1>5. IsEntry(y)
  BY <1>1, <1>3 DEF IsEntry
<1>6. EntDom(E2) /\ E2[e] = y /\ \A d \in Entry : d # e => E2[d] = E[d]
  BY <1>4, <1>5, EntSet
<1>7. \A d \in Entry : Steady(E[d], E2[d])
  BY <1>3, <1>6 DEF Steady, x
<1> QED BY <1>3, <1>6, <1>7

LEMMA LastPutQuiet ==
  ASSUME NEW r, NEW e, LastPutForm(r, e)
  PROVE  /\ \A d \in File : ~Creating(r, d)
         /\ r # <<>> /\ e \in File /\ e # Root
         /\ r[1].op # "etrunc" => NoHead(r) /\ \A E, t, d : E[e].valid = 1 => LocalOK(r, E, t, d)
         /\ r[1].op = "etrunc" => r[1].e = e /\ \A E, t, d : E[e].valid = -1 /\ Shaped(r[1]) => LocalOK(r, E, t, d)
<1>1. Fits(r, e)
  BY FormFits
<1>2. e \in File /\ e # Root
  BY FileEntry DEF LastPutForm
<1>3. ASSUME r[1].op # "etrunc", NEW E, NEW t, NEW d, E[e].valid = 1 PROVE NoHead(r) /\ LocalOK(r, E, t, d)
  <2>1. r[1].op = "elock" /\ r[2].op = "eupdate" /\ r[2].e = e
    BY <1>3 DEF LastPutForm
  <2>2. \A x : Is(r, 2, "eupdate", x) => x = e
    BY <2>1 DEF Is
  <2> QED BY <2>1, <2>2, <1>3 DEF NoHead, LocalOK, Shaped
<1>4. ASSUME r[1].op = "etrunc", NEW E, NEW t, NEW d, E[e].valid = -1, Shaped(r[1]) PROVE r[1].e = e /\ LocalOK(r, E, t, d)
  <2>1. r[1].e = e
    BY <1>4 DEF LastPutForm
  <2> QED BY <2>1, <1>4 DEF LocalOK
<1>5. ASSUME r[1].op # "etrunc" PROVE NoHead(r)
  <2>1. r[1].op = "elock"
    BY <1>5 DEF LastPutForm
  <2> QED BY <2>1 DEF NoHead
<1>6. ASSUME r[1].op = "etrunc" PROVE r[1].e = e
  BY <1>6 DEF LastPutForm
<1> QED BY <1>1, <1>2, <1>3, <1>4, <1>5, <1>6 DEF Fits

LEMMA DoEputLast ==
  ASSUME FInv, NEW p \in Procs, Eput(p), ent[Now(p).e].ref = 1, ent[Now(p).e].valid # 0
  PROVE  FInv'
<1> DEFINE s == todo[p]
<1> DEFINE e == s[1].e
<1>1. Ctl /\ Disk /\ CtlOK(load, calls, ent, todo, file) /\ DiskOK(load, ent, todo, fat, data, Dir)
  BY DEF FInv, Ctl, Disk
<1>2. At(p, "eput") /\ UNCHANGED <<load, calls, fat, data, file>>
  BY DEF Eput
<1>3. s # <<>> /\ s[1].op = "eput" /\ Now(p) = s[1] /\ SeqOK(s)
  BY <1>1, <1>2, AtIs
<1>4. e \in File /\ Len(s) = 1 /\ e \in Entry /\ ent[e].ref > 0
  BY <1>1, <1>3, PutMade, FileEntry
<1>5. ent[e].lock = NoProc /\ ent' = [ent EXCEPT ![e].lock = p] /\ Push(p, LastPut(e) \o <<[op |-> "drop", e |-> e]>>)
      /\ ent[e].ref = 1 /\ ent[e].valid # 0
  BY <1>3 DEF Eput
<1>6. LockPut(ent, ent', e, p)
  BY <1>5 DEF LockPut
<1>7. EntDom(ent) /\ ent[e].valid \in {-1, 0, 1}
  BY <1>1, <1>4, TodoIs DEF EntDom
<1>8. LockedBy(ent, ent', e, p) /\ \A x \in Entry : ent'[x].cur = ent[x].cur /\ ent'[x].cnt = ent[x].cnt
  BY <1>4, <1>6, <1>7, LockPutIs
<1>9. ent'[e].valid = ent[e].valid /\ ent'[e].first = ent[e].first
  BY <1>4, <1>8 DEF LockedBy, AllAlike, Alike
<1> DEFINE c == LastPut(e)
<1> DEFINE a == c \o <<[op |-> "drop", e |-> e]>>
<1>10. /\ IsSeq(c)
       /\ \/ ent[e].valid = -1 /\ Len(c) = 1 /\ c[1] = etrunc(e, ent[e].first)
          \/ ent[e].valid = 1 /\ Len(c) = 3 /\ c[1] = elock(Root) /\ c[2] = [op |-> "eupdate", e |-> e] /\ c[3] = eunlock(Root)
  <2>1. CASE ent[e].valid = -1
    <3>1. c = <<etrunc(e, ent[e].first)>>
      BY <2>1 DEF LastPut
    <3> HIDE DEF c
    <3> QED BY <2>1, <3>1, Tup1
  <2>2. CASE ent[e].valid # -1
    <3>1. c = <<elock(Root), [op |-> "eupdate", e |-> e], eunlock(Root)>>
      BY <2>2 DEF LastPut, Flush
    <3> HIDE DEF c
    <3>2. ent[e].valid = 1
      BY <1>5, <1>7, <2>2
    <3> QED BY <3>1, <3>2, Tup3
  <2> QED BY <2>1, <2>2
<1> HIDE DEF c
<1>11. /\ IsSeq(a) /\ Len(a) = Len(c) + 1 /\ a[Len(c) + 1] = [op |-> "drop", e |-> e]
       /\ \A k \in 1..Len(c) : a[k] = c[k]
  BY <1>10, AddLast
<1> HIDE DEF a
<1>12. /\ LastPutForm(a, e)
       /\ a[1].op = "etrunc" => ent[e].valid = -1 /\ a[1].c = ent[e].first /\ Shaped(a[1])
       /\ a[1].op # "etrunc" => ent[e].valid = 1
  <2>1. CASE Len(c) = 1
    <3>1. ent[e].valid = -1 /\ c[1] = etrunc(e, ent[e].first)
      BY <1>10, <2>1
    <3>2. Len(a) = 2 /\ a[1] = c[1] /\ a[2] = [op |-> "drop", e |-> e]
      BY <1>11, <2>1
    <3>3. a[1].op = "etrunc" /\ a[1].e = e /\ a[1].c = ent[e].first /\ a[2].op = "drop" /\ a[2].e = e
      BY ONLY <3>1, <3>2 DEF etrunc
    <3>4. IsSeq(a) /\ e \in File
      BY <1>4, <1>11
    <3>5. LastPutForm(a, e)
      BY ONLY <3>2, <3>3, <3>4 DEF LastPutForm
    <3>6. Shaped(etrunc(e, ent[e].first)) /\ a[1] = etrunc(e, ent[e].first)
      BY <3>1, <3>2, ShapedTrunc
    <3>7. Shaped(a[1])
      BY ONLY <3>6
    <3> QED BY ONLY <3>1, <3>3, <3>5, <3>7
  <2>2. CASE Len(c) = 3
    <3>1. ent[e].valid = 1 /\ c[1] = elock(Root) /\ c[2] = [op |-> "eupdate", e |-> e] /\ c[3] = eunlock(Root)
      BY <1>10, <2>2
    <3>2. Len(a) = 4 /\ a[1] = c[1] /\ a[2] = c[2] /\ a[3] = c[3] /\ a[4] = [op |-> "drop", e |-> e]
      BY <1>11, <2>2
    <3>3. /\ a[1].op = "elock" /\ a[1].e = Root /\ a[2].op = "eupdate" /\ a[2].e = e
          /\ a[3].op = "eunlock" /\ a[3].e = Root /\ a[4].op = "drop" /\ a[4].e = e
      BY ONLY <3>1, <3>2 DEF elock, eunlock
    <3>4. IsSeq(a) /\ e \in File
      BY <1>4, <1>11
    <3>5. LastPutForm(a, e)
      BY ONLY <3>2, <3>3, <3>4 DEF LastPutForm
    <3> QED BY ONLY <3>1, <3>3, <3>5
  <2> QED BY <1>10, <2>1, <2>2
<1>13. Push(p, a)
  BY <1>5 DEF a, c
<1>14. PICK r : Puts(r, a, s) /\ Becomes(todo, todo', p, r)
  BY <1>1, <1>3, <1>11, <1>13, DoPush
<1>15. LastPutForm(r, e) /\ r[1] = a[1]
  BY <1>4, <1>11, <1>12, <1>14, PutsLast, FormsSame
<1>16. CtlOK(load, calls, ent', todo', file)
  <2>1. s # <<>> /\ s[1].op = "eput" /\ LastPutForm(r, s[1].e) /\ ent[s[1].e].lock = NoProc
        /\ LockedBy(ent, ent', s[1].e, p) /\ Becomes(todo, todo', p, r) /\ p \in Procs
    BY <1>3, <1>5, <1>8, <1>14, <1>15
  <2> QED BY ONLY <1>1, <2>1, CtlLastPut
<1>17. r # <<>> /\ \A x \in File : ~Creating(r, x)
  BY <1>15, LastPutQuiet
<1>18. NoHead(s) /\ \A x \in File : ~Creating(s, x)
  BY <1>3, NoValid DEF MakeOps, NoHead
<1>19. SameMaking(s, r, ent)
  BY <1>17, <1>18, NoneMakes
<1>20. CtlOK(load, calls', ent', todo', file')
  BY <1>2, <1>16
<1> HIDE DEF e
<1>21. AllAlike(ent, ent') /\ CurMoves(ent, ent', todo, fat, p)
  BY <1>4, <1>8, LockedMoves
<1>22. CASE r[1].op # "etrunc"
  <2>1. ent'[e].valid = 1
    BY <1>9, <1>12, <1>15, <1>22
  <2>2. NoHead(r) /\ LocalOK(r, ent', fat, data)
    BY <1>15, <1>22, <2>1, LastPutQuiet
  <2> QED BY <1>2, <1>14, <1>18, <1>19, <1>20, <1>21, <2>2, QuietInv
<1>23. CASE r[1].op = "etrunc"
  <2>1. ent'[e].valid = -1 /\ r[1].c = ent[e].first /\ Shaped(r[1])
    BY <1>9, <1>12, <1>15, <1>23
  <2>2. r[1].e = e /\ LocalOK(r, ent', fat, data)
    BY <1>15, <1>23, <2>1, LastPutQuiet
  <2>3. ent[e].lock \in {p, NoProc}
    BY <1>5 DEF e
  <2>4. DiskOK(load, ent', todo', fat, data, Dir)
    BY <1>1, <1>4, <1>8, <1>14, <1>17, <1>18, <1>21, <1>23, <2>1, <2>2, <2>3, DiskTrunc
  <2>5. fat' = fat /\ data' = data /\ load' = load /\ Dir' = Dir
    BY <1>2, DirSame
  <2> QED BY <1>20, <2>4, <2>5, NextInv
<1> QED BY <1>22, <1>23

RefPut1(E, E2, e, n) == E2 = [E EXCEPT ![e].ref = n]
LEMMA RefPut1Is ==
  ASSUME NEW E, EntDom(E), NEW e \in Entry, NEW n \in Nat, NEW E2, RefPut1(E, E2, e, n)
  PROVE  /\ EntDom(E2) /\ E2[e].ref = n /\ E2[e].lock = E[e].lock /\ (\A d \in Entry : d # e => E2[d] = E[d])
         /\ \A d \in Entry : Steady(E[d], E2[d])
<1> DEFINE x == E[e]
<1> DEFINE y == [x EXCEPT !.ref = n]
<1>1. IsEntry(x)
  BY EntIs
<1>4. Puts1(E, e, y, E2)
  BY DEF Puts1, RefPut1
<1> HIDE DEF x
<1>2. y = [name |-> x.name, dir |-> x.dir, first |-> x.first, size |-> x.size, cur |-> x.cur, cnt |-> x.cnt,
           dirty |-> x.dirty, valid |-> x.valid, ref |-> n, off |-> x.off, lock |-> x.lock]
  BY <1>1 DEF IsEntry, IsEnt
<1>3. /\ y.ref = n /\ y.lock = x.lock /\ y.valid = x.valid /\ y.dirty = x.dirty /\ y.name = x.name /\ y.off = x.off
      /\ y.first = x.first /\ y.size = x.size /\ y.dir = x.dir /\ y.cur = x.cur /\ y.cnt = x.cnt /\ IsEnt(y)
  BY <1>2 DEF IsEnt
<1> HIDE DEF y
<1>5. IsEntry(y)
  BY <1>1, <1>3 DEF IsEntry
<1>6. EntDom(E2) /\ E2[e] = y /\ \A d \in Entry : d # e => E2[d] = E[d]
  BY <1>4, <1>5, EntSet
<1>7. \A d \in Entry : Steady(E[d], E2[d])
  BY <1>3, <1>6 DEF Steady, x
<1> QED BY <1>3, <1>6, <1>7 DEF x
LEMMA LastPops ==
  ASSUME NEW s, SeqOK(s), s # <<>>, Len(s) = 1, NEW r, Pops(r, s)
  PROVE  r = <<>>
<1>1. IsSeq(r) /\ Len(r) = Len(s) - 1
  BY PopIs
<1>2. Len(r) = 0
  BY <1>1
<1> QED BY <1>1, <1>2, SeqEmpty

LEMMA DoGive ==
  ASSUME FInv, NEW p \in Procs, todo[p] # <<>>, todo[p][1].op \in {"eput", "drop"}, Pop(p),
         UNCHANGED <<load, calls, fat, data, file>>,
         NEW e, e = todo[p][1].e, NEW n, ent[e].ref > 0 => n = ent[e].ref - 1,
         \/ todo[p][1].op = "eput" /\ RefPut1(ent, ent', e, n) /\ ent[e].ref # 1
         \/ todo[p][1].op = "drop" /\ RefPut(ent, ent', e, n, NoProc)
  PROVE  FInv'
<1> DEFINE s == todo[p]
<1>1. Ctl /\ Disk /\ CtlOK(load, calls, ent, todo, file) /\ DiskOK(load, ent, todo, fat, data, Dir)
  BY DEF FInv, Ctl, Disk
<1>2. SeqOK(s) /\ EntDom(ent)
  BY <1>1, Ready
<1>3. e \in File /\ ent[e].valid # 0 /\ ent[e].ref > 0 /\ Len(s) = 1 /\ e \in Entry
  BY <1>1, PutMade, FileEntry
<1>4. ent[e].ref \in Nat /\ ent[e].valid \in {-1, 0, 1}
  BY <1>2, <1>3 DEF EntDom
<1>5. n \in Nat /\ n = ent[e].ref - 1
  BY <1>3, <1>4
<1>6. PICK r : Pops(r, s) /\ Becomes(todo, todo', p, r)
  BY <1>1, DoPop
<1>7. r = <<>>
  BY <1>2, <1>3, <1>6, LastPops
<1>8. /\ EntDom(ent') /\ ent'[e].ref = ent[e].ref - 1 /\ (\A d \in Entry : d # e => ent'[d] = ent[d])
      /\ (s[1].op = "eput" /\ ent'[e].lock = ent[e].lock) \/ (s[1].op = "drop" /\ ent'[e].lock = NoProc)
      /\ \A d \in Entry : Steady(ent[d], ent'[d])
  <2>1. CASE s[1].op = "eput" /\ RefPut1(ent, ent', e, n)
    BY <2>1, <1>2, <1>3, <1>5, RefPut1Is
  <2>2. CASE s[1].op = "drop" /\ RefPut(ent, ent', e, n, NoProc)
    <3>1. NoProc \in Procs \cup {NoProc} /\ RefPut(ent, ent', e, n, NoProc) /\ EntDom(ent) /\ e \in Entry /\ n \in Nat
      BY <2>2, <1>2, <1>3, <1>5
    <3>2. /\ EntDom(ent') /\ ent'[e].ref = n /\ ent'[e].lock = NoProc /\ (\A d \in Entry : d # e => ent'[d] = ent[d])
          /\ \A d \in Entry : Steady(ent[d], ent'[d])
      BY ONLY <3>1, RefPutIs
    <3> QED BY ONLY <2>2, <3>2, <1>5
  <2> QED BY <2>1, <2>2
<1>9. Decs(ent, ent', e)
  BY <1>3, <1>8 DEF Decs, Steady
<1>10. CtlOK(load, calls, ent', todo', file)
  BY <1>1, <1>6, <1>7, <1>8, <1>9, CtlGive
<1>11. s[1].op = "drop" => (ent[e].valid = 1 => Clean(ent[e])) /\ (ent[e].valid = -1 => ent[e].first = 0)
  <2>1. LocalOK(s, ent, fat, data)
    BY <1>1, DiskParts
  <2> QED BY <2>1, <1>3 DEF LocalOK
<1>12. RefMoves(ent, ent')
  <2>1. \A d \in Entry : Steady(ent[d], ent'[d])
    BY <1>8
  <2>2. \A d \in Entry : d # e => (InMem(ent[d]) <=> InMem(ent'[d])) /\ (ent'[d].ref = 0 => ent[d].ref = 0)
    BY <1>8
  <2>3. ent'[e].valid = ent[e].valid
    BY <1>3, <1>8 DEF Steady
  <2>4. CASE s[1].op = "eput" /\ ent[e].ref # 1
    <3>1. ent'[e].ref > 0 /\ ent'[e].ref # 0
      BY <1>3, <1>4, <1>8, <2>4
    <3>2. InMem(ent[e]) /\ InMem(ent'[e])
      BY <3>1, <1>3 DEF InMem
    <3> QED BY <2>1, <2>2, <3>1, <3>2 DEF RefMoves
  <2>5. CASE s[1].op = "drop"
    <3>1. CASE ent[e].valid = 1
      <4>1. InMem(ent[e]) /\ InMem(ent'[e]) /\ Clean(ent[e])
        BY <3>1, <2>3, <2>5, <1>11 DEF InMem
      <4> QED BY <2>1, <2>2, <4>1 DEF RefMoves
    <3>2. CASE ent[e].valid = -1
      <4>1. ent[e].first = 0 /\ ent[e].valid # 1
        BY <3>2, <2>5, <1>11
      <4> QED BY <2>1, <2>2, <4>1 DEF RefMoves
    <3> QED BY <3>1, <3>2, <1>3, <1>4
  <2> QED BY <2>4, <2>5
<1>13. NoHead(s) /\ \A x \in File : ~Creating(s, x)
  BY <1>2, NoValid DEF MakeOps, NoHead
<1>14. NoHead(r) /\ LocalOK(r, ent', fat, data) /\ SameMaking(s, r, ent)
  <2>1. \A x \in File : ~Creating(r, x)
    BY <1>7, Tup0 DEF Creating, Has
  <2>2. SameMaking(s, r, ent)
    BY <1>13, <2>1, NoneMakes
  <2> QED BY <1>7, <2>2 DEF NoHead, LocalOK
<1>15. DiskOK(load, ent', todo', fat, data, Dir)
  BY <1>1, <1>6, <1>12, <1>13, <1>14, DiskRef
<1>16. fat' = fat /\ data' = data /\ load' = load /\ Dir' = Dir /\ calls' = calls /\ file' = file
  BY DirSame
<1> QED BY <1>10, <1>15, <1>16, NextInv

LEMMA DoEput == ASSUME FInv, NEW p \in Procs, Eput(p) PROVE FInv'
<1> DEFINE e == Now(p).e
<1>1. Ctl
  BY DEF FInv
<1>2. todo[p] # <<>> /\ todo[p][1].op = "eput" /\ Now(p) = todo[p][1]
  BY <1>1, AtIs DEF Eput
<1>3. CASE ent[e].ref = 1 /\ ent[e].valid # 0
  BY <1>3, DoEputLast
<1>4. CASE ~(ent[e].ref = 1 /\ ent[e].valid # 0)
  <2>1. ent' = [ent EXCEPT ![e].ref = @ - 1] /\ Pop(p) /\ UNCHANGED <<load, calls, fat, data, file>>
    BY <1>4 DEF Eput
  <2>2. RefPut1(ent, ent', e, ent[e].ref - 1)
    BY <2>1 DEF RefPut1
  <2>3. ent[e].valid # 0 /\ e = todo[p][1].e
    BY <1>1, <1>2, PutMade DEF Ctl
  <2>4. ent[e].ref # 1
    BY <1>4, <2>3
  <2> HIDE DEF e
  <2> QED BY <1>2, <2>1, <2>2, <2>3, <2>4, DoGive
<1> QED BY <1>3, <1>4
LEMMA DoDrop == ASSUME FInv, NEW p \in Procs, Drop(p) PROVE FInv'
<1> DEFINE e == Now(p).e
<1>1. Ctl
  BY DEF FInv
<1>2. todo[p] # <<>> /\ todo[p][1].op = "drop" /\ Now(p) = todo[p][1]
  BY <1>1, AtIs DEF Drop
<1>3. ent' = [ent EXCEPT ![e].lock = NoProc, ![e].ref = @ - 1] /\ Pop(p) /\ UNCHANGED <<load, calls, fat, data, file>>
  BY DEF Drop
<1>4. e \in Entry /\ EntDom(ent)
  BY <1>1, <1>2, PutMade, FileEntry, TodoIs DEF Ctl
<1>5. RefPut(ent, ent', e, ent[e].ref - 1, NoProc)
  <2> DEFINE x == ent[e]
  <2>1. ent = [d \in Entry |-> ent[d]] /\ IsEnt(x)
    BY <1>4 DEF EntDom
  <2>2. ent' = [ent EXCEPT ![e] = [[x EXCEPT !.lock = NoProc] EXCEPT !.ref = x.ref - 1]]
    BY <1>3, <1>4, <2>1 DEF IsEnt
  <2> HIDE DEF x
  <2>3. [[x EXCEPT !.lock = NoProc] EXCEPT !.ref = x.ref - 1] = [x EXCEPT !.ref = x.ref - 1, !.lock = NoProc]
    BY <2>1 DEF IsEnt
  <2> QED BY <2>2, <2>3 DEF RefPut, x
<1>6. e = todo[p][1].e
  BY <1>2
<1> HIDE DEF e
<1> QED BY <1>2, <1>3, <1>5, <1>6, DoGive

\* the process that has the lock of e changes its size, or leaves it without clusters
Resized(x, y) ==
  /\ y.valid = x.valid /\ y.ref = x.ref /\ y.name = x.name /\ y.off = x.off /\ y.dir = x.dir /\ y.lock = x.lock
  /\ y.cur = x.cur /\ y.cnt = x.cnt /\ y.dirty \in BOOLEAN /\ IsEnt(y)
  /\ Clean(y) => Clean(x) /\ y.first = x.first /\ y.size = x.size
SizeOK(y) == y.size \in Nat /\ (y.size > 0 => y.first # 0)
ResizedOne(E, E2, e) == EntDom(E2) /\ Resized(E[e], E2[e]) /\ \A d \in Entry : d # e => E2[d] = E[d]
LEMMA ResizeSet ==
  ASSUME NEW E, EntDom(E), NEW e \in Entry, NEW y, Resized(E[e], y), NEW E2, Puts1(E, e, y, E2)
  PROVE  ResizedOne(E, E2, e) /\ E2[e] = y
<1>1. IsEntry(E[e])
  BY EntIs
<1>2. IsEntry(y)
  BY <1>1 DEF IsEntry, Resized
<1>3. EntDom(E2) /\ E2[e] = y /\ \A d \in Entry : d # e => E2[d] = E[d]
  BY <1>2, EntSet
<1> QED BY <1>3 DEF ResizedOne
LEMMA ResizedWorks ==
  ASSUME NEW E, NEW E2, NEW e, ResizedOne(E, E2, e)
  PROVE  Works(E, E2, e)
<1>1. \A d \in Entry : d # e => E2[d] = E[d]
  BY DEF ResizedOne
<1>2. \A d \in Entry : E2[d].lock = E[d].lock /\ (d # e => Alike(E[d], E2[d]))
  BY <1>1 DEF ResizedOne, Resized, Alike
<1> QED BY <1>2 DEF Works, ResizedOne, Resized

LEMMA DiskResize ==
  ASSUME NEW l, NEW K, NEW E, NEW T, NEW F, CtlOK(l, K, E, T, F), NEW t, NEW d, NEW D, DiskOK(l, E, T, t, d, D),
         NEW p \in Procs, NEW r, NEW T2, Becomes(T, T2, p, r), NEW E2, NEW e \in File, ResizedOne(E, E2, e),
         E[e].lock = p, SizeOK(E2[e]), NoHead(r), \A x \in File : ~Creating(T[p], x) /\ ~Creating(r, x),
         \/ NoHead(T[p]) /\ E2[e].first = E[e].first
         \/ OnEntry(T[p], {"etrunc"}, e) /\ ~Cl(T[p][1].c) /\ E2[e].first = 0,
         LocalOK(r, E2, t, d)
  PROVE  DiskOK(l, E2, T2, t, d, D)
<1>0. p \in Procs /\ Becomes(T, T2, p, r)
  OBVIOUS
<1>1. (\A x \in Entry : x # e => E2[x] = E[x]) /\ Resized(E[e], E2[e]) /\ e \in Entry /\ e # Root
  BY FileEntry DEF ResizedOne
<1>2. InMem(E[e]) /\ (Cut(T, e) => OnEntry(T[p], {"etrunc"}, e)) /\ E[e].ref > 0
  <2>1. RootOK(E)
    BY DiskParts
  <2>2. E[e].ref # 0
    BY <1>0, UnusedFree, ProcsAssumption
  <2>3. E[e].ref \in Nat
    BY <1>1 DEF CtlOK, EntDom
  <2> QED BY <1>1, <2>1, <2>2, <2>3, LockedIs
<1>3. \A x : x # e => (Cut(T, x) <=> Cut(T2, x))
  BY CutSame DEF NoHead, OnEntry
<1>4. ~Cut(T2, e)
  <2>1. SUFFICES ASSUME NEW q \in Procs, OnEntry(T2[q], {"etrunc"}, e) PROVE FALSE
    BY DEF Cut
  <2>2. CASE q = p
    BY <2>1, <2>2 DEF Becomes, NoHead, OnEntry
  <2>3. CASE q # p
    <3>1. OnEntry(T[q], {"etrunc"}, e)
      BY <2>1, <2>3 DEF Becomes
    <3>2. T[q] # <<>> /\ T[q][1].op = "etrunc" /\ T[q][1].e = e
      BY <3>1 DEF OnEntry
    <3>3. E[e].lock = q
      BY <3>2, HeadLocked DEF NeedsLock
    <3> QED BY <2>3, <3>3
  <2> QED BY <2>2, <2>3
<1>5. \A x \in File : (Made(T, x) <=> Made(T2, x)) /\ (Made(T, x) => x # e)
  <2>1. ASSUME NEW x \in File PROVE Made(T, x) <=> Made(T2, x)
    <3>1. Creating(T[p], x) <=> Creating(r, x)
      OBVIOUS
    <3> QED BY ONLY <1>0, <3>1, MadeSame
  <2>2. ASSUME NEW q \in Procs, Creating(T[q], e) PROVE FALSE
    <3>1. E[e].lock = q
      BY <2>2, MakerIs
    <3> QED BY <2>2, <3>1
  <2> QED BY <2>1, <2>2 DEF Made
<1>6. SameBound(E, T, E2, T2)
  BY <1>1, <1>5, FileEntry DEF SameBound, Bound, Resized
<1>7. Mine(E, E2, p)
  BY <1>1 DEF Mine, Steady
<1>8. Untouched(E, T, t, t, d, d, p)
  BY KeepsSame
<1>9. FatOK(l, Heads(E2, T2, D), t)
  <2> DEFINE h == Heads(E, T, D) h2 == Heads(E2, T2, D)
  <2>1. /\ \A g \in Nat : h2[Ig(g)] = h[Ig(g)]
        /\ \A q \in Procs : q # p => h2[Ip(q)] = h[Ip(q)]
        /\ h2[Ip(p)] = Held(r) /\ h[Ip(p)] = Held(T[p])
        /\ \A x \in Entry : h2[Ie(x)] = EntryHead(E2, T2, x) /\ h[Ie(x)] = EntryHead(E, T, x)
    BY ONLY <1>0, <1>6, HeadsChange
  <2>2. Held(r) = 0
    BY DEF NoHead, Held
  <2>3. \A x \in Entry : x # e => EntryHead(E2, T2, x) = EntryHead(E, T, x)
    BY <1>1, <1>3 DEF EntryHead
  <2>4. InMem(E2[e]) /\ EntryHead(E2, T2, e) = E2[e].first
    BY <1>1, <1>2, <1>4 DEF EntryHead, Resized, InMem
  <2>5. FatOK(l, h, t)
    BY DiskParts
  <2>6. CASE NoHead(T[p]) /\ E2[e].first = E[e].first
    <3>1. Held(T[p]) = 0 /\ ~Cut(T, e)
      BY <2>6, <1>2 DEF NoHead, Held, OnEntry
    <3>2. EntryHead(E, T, e) = EntryHead(E2, T2, e)
      BY <3>1, <2>4, <2>6, <1>2 DEF EntryHead
    <3> HIDE DEF h, h2
    <3>3. \A z \in Idx : h2[z] = h[z]
      BY <2>1, <2>2, <2>3, <3>1, <3>2, IdxIs
    <3>4. Alikes(h, h2)
      BY <3>3 DEF Alikes
    <3>5. FatOK(l, h2, t)
      BY <2>5, <3>4, FatAlike
    <3> QED BY <3>5 DEF h2
  <2>7. CASE OnEntry(T[p], {"etrunc"}, e) /\ ~Cl(T[p][1].c) /\ E2[e].first = 0
    <3>1. Held(T[p]) = T[p][1].c /\ Cut(T, e)
      BY <2>7 DEF Held, OnEntry, Cut
    <3>2. EntryHead(E, T, e) = 0 /\ EntryHead(E2, T2, e) = 0
      BY <3>1, <2>4, <2>7 DEF EntryHead
    <3>3. ~Cl(Held(T[p])) /\ ~Cl(0)
      BY <3>1, <2>7, ClNot
    <3> HIDE DEF h, h2
    <3>4. \A z \in Idx : h2[z] = h[z] \/ (~Cl(h[z]) /\ h2[z] = 0)
      BY <2>1, <2>2, <2>3, <3>2, <3>3, IdxIs
    <3>5. Alikes(h, h2)
      BY <3>4 DEF Alikes
    <3>6. FatOK(l, h2, t)
      BY <2>5, <3>5, FatAlike
    <3> QED BY <3>6 DEF h2
  <2> QED BY <2>6, <2>7
<1>10. CurOK(E2, T2, t)
  <2>1. CurOK(E, T, t)
    BY DiskParts
  <2> SUFFICES ASSUME NEW x \in Entry, InMem(E2[x]), Cl(E2[x].first), ~Cut(T2, x)
               PROVE  At1(t, E2[x].first, E2[x].cur, E2[x].cnt)
    BY DEF CurOK
  <2>2. CASE x # e
    BY <1>1, <1>3, <2>1, <2>2 DEF CurOK
  <2>3. CASE x = e
    <3>1. NoHead(T[p]) /\ E2[e].first = E[e].first
      BY <2>3, ClNot
    <3>2. ~Cut(T, e)
      BY <3>1, <1>2 DEF NoHead, OnEntry
    <3>3. At1(t, E[e].first, E[e].cur, E[e].cnt)
      BY <1>1, <1>2, <2>1, <2>3, <3>1, <3>2 DEF CurOK
    <3> QED BY <1>1, <2>3, <3>1, <3>3 DEF Resized
  <2> QED BY <2>2, <2>3
<1>11. Sizes(E2) /\ RootOK(E2)
  <2>1. Sizes(E) /\ RootOK(E)
    BY DiskParts
  <2>2. RootOK(E2)
    BY <1>1, <2>1, FileEntry DEF RootOK
  <2>3. (E2[e].first = 0 \/ Cl(E2[e].first)) /\ E2[e].off \in Nat
    BY <1>1, <2>1 DEF Sizes, Resized
  <2> QED BY <1>1, <2>1, <2>2, <2>3 DEF Sizes, SizeOK
<1>12. DirOK(E2, T2, D)
  <2>1. \A x \in File : Made(T, x) => AlikeShort(E[x], E2[x])
    BY <1>1, <1>5, FileEntry DEF AlikeShort
  <2> QED BY <2>1, DiskParts, DirKept
<1>13. CacheOK(E2, T2, D)
  <2>1. CacheOK(E, T, D)
    BY DiskParts
  <2>2. ASSUME NEW x \in File, E2[x].valid = 1 PROVE InStep(E2[x], D)
    <3>1. CASE x # e
      BY <1>1, <2>1, <2>2, <3>1, FileEntry DEF CacheOK
    <3>2. CASE x = e
      <4>1. InStep(E[e], D)
        BY <1>1, <2>1, <2>2, <3>2 DEF CacheOK, Resized
      <4>2. E2[e].ref # 0
        BY <1>1, <1>2 DEF Resized
      <4> QED BY <1>1, <3>2, <4>1, <4>2 DEF InStep, Resized
    <3> QED BY <3>1, <3>2
  <2> QED BY <2>1, <2>2, <1>6, CacheKept
<1>14. DatDom(d) /\ NamesOK(l, D)
  BY DiskParts
<1> QED BY <1>7, <1>8, <1>9, <1>10, <1>11, <1>12, <1>13, <1>14, DiskStep

LEMMA GrownIs ==
  ASSUME NEW x, IsEntry(x), x.size \in Nat, NEW o \in Nat, x.first # 0 \/ o <= x.size, x.size > 0 => x.first # 0
  PROVE  Resized(x, Grown(x, o)) /\ SizeOK(Grown(x, o)) /\ Grown(x, o).first = x.first
<1> DEFINE y == [x EXCEPT !.size = o, !.dirty = TRUE]
<1>1. CASE o > x.size
  <2>1. Grown(x, o) = y
    BY <1>1 DEF Grown
  <2>2. y = [name |-> x.name, dir |-> x.dir, first |-> x.first, size |-> o, cur |-> x.cur, cnt |-> x.cnt,
             dirty |-> TRUE, valid |-> x.valid, ref |-> x.ref, off |-> x.off, lock |-> x.lock]
    <3> DEFINE z == [x EXCEPT !.size = o]
    <3>1. z = [name |-> x.name, dir |-> x.dir, first |-> x.first, size |-> o, cur |-> x.cur, cnt |-> x.cnt,
               dirty |-> x.dirty, valid |-> x.valid, ref |-> x.ref, off |-> x.off, lock |-> x.lock]
      BY DEF IsEntry, IsEnt
    <3>2. y = [z EXCEPT !.dirty = TRUE]
      OBVIOUS
    <3> HIDE DEF y, z
    <3> QED BY <3>1, <3>2
  <2> HIDE DEF y
  <2>3. Resized(x, y) /\ y.size = o /\ y.first = x.first
    BY <2>2 DEF Resized, IsEnt, Clean
  <2>4. x.first # 0
    BY <1>1
  <2> QED BY <2>1, <2>3, <2>4 DEF SizeOK
<1>2. CASE ~(o > x.size)
  <2>1. Grown(x, o) = x
    BY <1>2 DEF Grown
  <2> QED BY <2>1 DEF Resized, SizeOK, IsEntry
<1> QED BY <1>1, <1>2
LEMMA EtruncEndIs ==
  ASSUME NEW x, IsEntry(x)
  PROVE  Resized(x, EtruncEnd(x)) /\ SizeOK(EtruncEnd(x)) /\ EtruncEnd(x).first = 0
<1> DEFINE z == [x EXCEPT !.size = 0]
<1> DEFINE w == [z EXCEPT !.first = 0]
<1> DEFINE y == [w EXCEPT !.dirty = TRUE]
<1>1. z = [name |-> x.name, dir |-> x.dir, first |-> x.first, size |-> 0, cur |-> x.cur, cnt |-> x.cnt,
               dirty |-> x.dirty, valid |-> x.valid, ref |-> x.ref, off |-> x.off, lock |-> x.lock]
  BY DEF IsEntry, IsEnt
<1>2. EtruncEnd(x) = y
  BY DEF EtruncEnd
<1> HIDE DEF z
<1>3. w = [name |-> x.name, dir |-> x.dir, first |-> 0, size |-> 0, cur |-> x.cur, cnt |-> x.cnt,
               dirty |-> x.dirty, valid |-> x.valid, ref |-> x.ref, off |-> x.off, lock |-> x.lock]
  BY <1>1
<1>6. y = [w EXCEPT !.dirty = TRUE]
  OBVIOUS
<1> HIDE DEF w, y
<1>4. y = [name |-> x.name, dir |-> x.dir, first |-> 0, size |-> 0, cur |-> x.cur, cnt |-> x.cnt,
               dirty |-> TRUE, valid |-> x.valid, ref |-> x.ref, off |-> x.off, lock |-> x.lock]
  BY ONLY <1>3, <1>6
<1>5. Resized(x, y) /\ y.size = 0 /\ y.first = 0
  BY <1>4 DEF Resized, IsEnt, Clean
<1> QED BY <1>2, <1>5 DEF SizeOK

LEMMA DoWrote == ASSUME FInv, NEW p \in Procs, Wrote(p) PROVE FInv'
<1> DEFINE s == todo[p]
<1> DEFINE i == s[1]
<1> DEFINE e == i.e
<1>1. Ctl /\ Disk /\ CtlOK(load, calls, ent, todo, file) /\ DiskOK(load, ent, todo, fat, data, Dir)
  BY DEF FInv, Ctl, Disk
<1>2. At(p, "wrote") /\ Pop(p) /\ UNCHANGED <<load, calls, fat, data>>
  BY DEF Wrote
<1>3. s # <<>> /\ i.op = "wrote" /\ Now(p) = i /\ SeqOK(s)
  BY <1>1, <1>2, AtIs
<1>4. ent' = [ent EXCEPT ![e] = Grown(@, i.off)] /\ file' = IF i.ok THEN [file EXCEPT ![p].off = i.off] ELSE file
  BY <1>3 DEF Wrote
<1>5. Whole(s, 1) /\ Goes1(s, 1)
  BY <1>3, FirstIs
<1>6. e \in File /\ e \in Entry /\ e # Root /\ i.off \in Nat
  BY <1>3, <1>5 DEF Whole, OnFile, File
<1>7. PICK r : Pops(r, s) /\ Becomes(todo, todo', p, r)
  BY <1>1, <1>2, <1>3, DoPop
<1> HIDE DEF i
<1>8. IsEntry(ent[e]) /\ EntDom(ent)
  BY <1>1, <1>6, TodoIs, EntIs
<1>9. ent[e].size \in Nat /\ (ent[e].size > 0 => ent[e].first # 0) /\ (ent[e].first # 0 \/ i.off <= ent[e].size)
  <2>1. Sizes(ent) /\ LocalOK(s, ent, fat, data)
    BY <1>1, DiskParts
  <2>2. i.op = "wrote" => ent[i.e].first # 0 \/ i.off <= ent[i.e].size
    BY <1>3, <2>1 DEF LocalOK, i
  <2> QED BY <1>3, <1>6, <2>1, <2>2 DEF Sizes
<1> HIDE DEF e
<1> DEFINE y == Grown(ent[e], i.off)
<1>10. Resized(ent[e], y) /\ SizeOK(y) /\ y.first = ent[e].first
  BY <1>6, <1>8, <1>9, GrownIs
<1>11. Puts1(ent, e, y, ent')
  BY <1>4 DEF Puts1
<1> HIDE DEF y
<1>12. ResizedOne(ent, ent', e) /\ ent'[e] = y
  BY <1>6, <1>8, <1>10, <1>11, ResizeSet
<1>13. Works(ent, ent', e)
  BY <1>12, ResizedWorks
<1>14. PICK f2 : Becomes(file, file', p, f2) /\ IsFile(f2) /\ SameOpen(file[p], f2)
  <2>1. IsFile(file[p]) /\ Becomes(file, file, p, file[p])
    BY <1>1, Ready
  <2>2. FileIs(file[p], e)
    <3>1. UsesOK(s, file[p]) /\ 1 \in 1..Len(s)
      BY <1>1, <1>3, Ready, FirstIs
    <3> QED BY <1>3, <3>1 DEF UsesOK, e, i
  <2>3. CASE ~i.ok
    <3>1. file' = file
      BY <2>3, <1>4
    <3> QED BY <2>1, <3>1 DEF SameOpen
  <2>4. CASE i.ok
    <3> DEFINE f == file[p] f2 == [f EXCEPT !.off = i.off]
    <3>1. f = [e |-> f.e, off |-> f.off] /\ f.e = e /\ f # None
      BY <2>1, <2>2 DEF IsFile, FileIs
    <3>2. f2 = [e |-> e, off |-> i.off]
      BY <3>1
    <3>3. f2 # None
      BY <3>2, <1>6, NoneAssumption DEF Entry
    <3>4. IsFile(f2) /\ SameOpen(f, f2)
      BY <3>1, <3>2, <3>3, <1>6 DEF IsFile, SameOpen, FileIs
    <3>5. Becomes(file, [file EXCEPT ![p] = f2], p, f2)
      BY <1>1, TodoIs, BecomesIs
    <3>6. file' = [file EXCEPT ![p] = f2]
      BY <2>4, <1>4
    <3> QED BY <3>4, <3>5, <3>6
  <2> QED BY <2>3, <2>4
<1>15. CtlOK(load, calls, ent', todo', file')
  BY <1>1, <1>3, <1>7, <1>13, <1>14, CtlWork DEF WorkOps, e, i
<1>16. NoHead(s) /\ (\A x \in File : ~Creating(s, x) /\ ~Creating(r, x)) /\ (r # <<>> => r[1] = s[2])
  BY <1>3, <1>7, PopMore, PopQuiet DEF MakeOps, NoHead, i
<1>17. NoHead(r) /\ LocalOK(r, ent', fat, data)
  <2>1. Is(s, 2, "eunlock", e)
    BY <1>3, <1>5 DEF Goes1, e, i
  <2>2. s[2].op = "eunlock" /\ s[2].e # Root
    BY <2>1, <1>6 DEF Is
  <2> QED BY <1>16, <2>2 DEF NoHead, LocalOK, Shaped
<1>18. ent[e].lock = p
  BY <1>1, <1>3, HeadLocked DEF NeedsLock, e, i
<1>19. DiskOK(load, ent', todo', fat, data, Dir)
  BY <1>1, <1>6, <1>7, <1>10, <1>12, <1>16, <1>17, <1>18, DiskResize
<1>20. fat' = fat /\ data' = data /\ load' = load /\ Dir' = Dir /\ calls' = calls
  BY <1>2, DirSame
<1> QED BY <1>15, <1>19, <1>20, NextInv

\* heads are on different chains
LEMMA FileHead ==
  ASSUME NEW l, NEW E, NEW T, NEW t, NEW d, NEW D, DiskOK(l, E, T, t, d, D), NEW e \in Entry,
         InMem(E[e]), ~Cut(T, e), Cl(E[e].first)
  PROVE  /\ Heads(E, T, D)[Ie(e)] = E[e].first /\ IsHead(t, E[e].first)
         /\ \A y \in Idx : y # Ie(e) => Heads(E, T, D)[y] # E[e].first
<1>1. Heads(E, T, D)[Ie(e)] = E[e].first /\ Ie(e) \in Idx
  BY HeadsIs, IdxIs DEF EntryHead
<1>2. HeadsOK(Heads(E, T, D), t)
  BY DiskParts DEF FatOK
<1> QED BY <1>1, <1>2 DEF HeadsOK
LEMMA HeldHead ==
  ASSUME NEW l, NEW E, NEW T, NEW t, NEW d, NEW D, DiskOK(l, E, T, t, d, D), NEW q \in Procs, Cl(Held(T[q]))
  PROVE  /\ Heads(E, T, D)[Ip(q)] = Held(T[q]) /\ IsHead(t, Held(T[q]))
         /\ \A y \in Idx : y # Ip(q) => Heads(E, T, D)[y] # Held(T[q])
<1>1. Heads(E, T, D)[Ip(q)] = Held(T[q]) /\ Ip(q) \in Idx
  BY HeadsIs, IdxIs
<1>2. HeadsOK(Heads(E, T, D), t)
  BY DiskParts DEF FatOK
<1> QED BY <1>1, <1>2 DEF HeadsOK
LEMMA RootHead ==
  ASSUME NEW l, NEW K, NEW E, NEW T, NEW F, CtlOK(l, K, E, T, F), NEW t, NEW d, NEW D, DiskOK(l, E, T, t, d, D)
  PROVE  /\ E[Root].first = 2 /\ Cl(2) /\ InMem(E[Root]) /\ ~Cut(T, Root) /\ IsHead(t, 2) /\ TableOK(t)
         /\ Heads(E, T, D)[Ie(Root)] = 2 /\ t \in [Cluster -> Nat]
         /\ \A y \in Idx : y # Ie(Root) => Heads(E, T, D)[y] # 2
<1>1. RootOK(E) /\ FatOK(l, Heads(E, T, D), t)
  BY DiskParts
<1>2. E[Root].first = 2 /\ InMem(E[Root])
  BY <1>1 DEF RootOK, InMem
<1>3. Cl(2)
  BY Bounds DEF Cl
<1>4. ~Cut(T, Root)
  <2>1. SUFFICES ASSUME NEW q \in Procs, OnEntry(T[q], {"etrunc"}, Root) PROVE FALSE
    BY DEF Cut
  <2>2. T[q] # <<>> /\ T[q][1].op = "etrunc" /\ T[q][1].e = Root
    BY <2>1 DEF OnEntry
  <2>3. Whole(T[q], 1)
    BY <2>2, Ready, FirstIs
  <2> QED BY <2>2, <2>3 DEF Whole, OnFile
<1>5. Root \in Entry
  BY FileEntry
<1>6. /\ Heads(E, T, D)[Ie(Root)] = E[Root].first /\ IsHead(t, E[Root].first)
      /\ \A y \in Idx : y # Ie(Root) => Heads(E, T, D)[y] # E[Root].first
  BY <1>2, <1>3, <1>4, <1>5, FileHead
<1> QED BY <1>1, <1>2, <1>3, <1>4, <1>6 DEF FatOK, TabDom
\* the directory when its chain is untouched
LEMMA DirStill ==
  ASSUME NEW l, NEW K, NEW E, NEW T, NEW F, CtlOK(l, K, E, T, F), NEW t, NEW d, NEW D, DiskOK(l, E, T, t, d, D),
         NEW t2, NEW d2, Keeps(t, t2, 2), \A n \in Nat : Live(t, To(t, 2, n)) => d2[To(t, 2, n)] = d[To(t, 2, n)]
  PROVE  DirOf(t2, d2) = DirOf(t, d)
<1>1. TableOK(t) /\ IsHead(t, 2)
  BY RootHead
<1>2. \A n \in Nat : To(t2, 2, n) = To(t, 2, n)
  BY DEF Keeps
<1> QED BY <1>1, <1>2, DirFrame

\* one turn of etrunc()
LEMMA DiskCut ==
  ASSUME NEW l, NEW K, NEW E, NEW T, NEW F, CtlOK(l, K, E, T, F), NEW t, NEW d, NEW D, DiskOK(l, E, T, t, d, D),
         NEW p \in Procs, NEW r, NEW T2, Becomes(T, T2, p, r), NEW e \in File, NEW c,
         OnEntry(T[p], {"etrunc"}, e), T[p][1].c = c, IsCluster(c),
         NEW t2, Puts1(t, c, 0, t2), OnEntry(r, {"etrunc"}, e), r[1].c = t[c],
         \A x \in File : ~Creating(T[p], x) /\ ~Creating(r, x), LocalOK(r, E, t2, d)
  PROVE  DiskOK(l, E, T2, t2, d, D) /\ (D = DirOf(t, d) => DirOf(t2, d) = D)
<1> DEFINE h == Heads(E, T, D) h2 == Heads(E, T2, D)
<1>0. p \in Procs /\ Becomes(T, T2, p, r) /\ e \in Entry
  BY FileEntry
<1>1. \A x : Cut(T, x) <=> Cut(T2, x)
  BY CutSame DEF OnEntry
<1>2. \A x \in File : Made(T, x) <=> Made(T2, x)
  BY MadeSame
<1>3. SameBound(E, T, E, T2)
  BY <1>2 DEF SameBound, Bound
<1>4. /\ \A g \in Nat : h2[Ig(g)] = h[Ig(g)]
      /\ \A q \in Procs : q # p => h2[Ip(q)] = h[Ip(q)]
      /\ h2[Ip(p)] = Held(r) /\ h[Ip(p)] = Held(T[p])
      /\ \A x \in Entry : h2[Ie(x)] = EntryHead(E, T2, x) /\ h[Ie(x)] = EntryHead(E, T, x)
  BY ONLY <1>0, <1>3, HeadsChange
<1>5. Held(T[p]) = c /\ Held(r) = t[c]
  BY DEF OnEntry, Held
<1>6. \A x \in Entry : EntryHead(E, T2, x) = EntryHead(E, T, x)
  BY <1>1 DEF EntryHead
<1>7. FatOK(l, h, t)
  BY DiskParts
<1>8. Ip(p) \in Idx /\ \A x \in Entry : Ie(x) # Ip(p) /\ Ie(x) \in Idx
  BY IdxIs, IdxApart
<1>9. Cl(c)
  <2>1. h[Ip(p)] \in {0, EOC} \cup (2..LAST)
    BY <1>7, <1>8 DEF FatOK, NumsOK
  <2>2. c \in {0, EOC} \cup (2..LAST)
    BY <2>1, <1>4, <1>5
  <2> QED BY <2>2, Bounds DEF Cl, IsCluster
<1>10. \A y \in Idx : y # Ip(p) => h[y] # c
  BY <1>5, <1>9, HeldHead
<1> HIDE DEF h, h2
<1>11. But(h, h2, Ip(p)) /\ h2[Ip(p)] = t[h[Ip(p)]] /\ h[Ip(p)] = c
  <2>1. But(h, h2, Ip(p))
    <3> SUFFICES ASSUME NEW z \in Idx, z # Ip(p) PROVE h2[z] = h[z]
      BY DEF But
    <3> QED BY <1>4, <1>6, IdxIs
  <2> QED BY <2>1, <1>4, <1>5
<1>12. /\ FatOK(l, h2, t2)
       /\ \A g : IsHead(t, g) /\ g # c => Keeps(t, t2, g)
  <2>1. Cl(h[Ip(p)]) /\ Puts1(t, h[Ip(p)], 0, t2)
    BY <1>9, <1>11
  <2>2. /\ FatOK(l, h2, t2)
        /\ \A g : IsHead(t, g) /\ g # h[Ip(p)] =>
              IsHead(t2, g) /\ \A n \in Nat : /\ To(t2, g, n) = To(t, g, n) /\ To(t, g, n) # h[Ip(p)]
                                              /\ Live(t, To(t, g, n)) => t2[To(t, g, n)] = t[To(t, g, n)]
    BY <1>7, <1>8, <1>11, <2>1, FatCut
  <2> QED BY <1>11, <2>2 DEF Keeps
<1>13. \A x \in Entry : InMem(E[x]) /\ ~Cut(T, x) /\ Cl(E[x].first) => Keeps(t, t2, E[x].first)
  <2> SUFFICES ASSUME NEW x \in Entry, InMem(E[x]), ~Cut(T, x), Cl(E[x].first) PROVE Keeps(t, t2, E[x].first)
    OBVIOUS
  <2>1. h[Ie(x)] = E[x].first /\ IsHead(t, E[x].first)
    BY FileHead DEF h
  <2>2. E[x].first # c
    BY <1>8, <1>10, <2>1
  <2> QED BY <1>12, <2>1, <2>2
<1>14. Untouched(E, T, t, t2, d, d, p)
  <2>1. ASSUME NEW q \in Procs, q # p, Cl(Held(T[q])) PROVE t2[Held(T[q])] = t[Held(T[q])]
    <3>1. h[Ip(q)] = Held(T[q]) /\ IsHead(t, Held(T[q]))
      BY <2>1, HeldHead DEF h
    <3>2. Ip(q) \in Idx /\ Ip(q) # Ip(p)
      BY <2>1, IdxIs, IdxApart
    <3>3. Held(T[q]) # c
      BY <3>1, <3>2, <1>10
    <3> QED BY <3>3, <1>7, <2>1, ClNot DEF Puts1, FatOK, TabDom
  <2> QED BY <1>13, <2>1 DEF Untouched
<1>15. CurOK(E, T2, t2)
  <2>1. CurOK(E, T, t)
    BY DiskParts
  <2> SUFFICES ASSUME NEW x \in Entry, InMem(E[x]), Cl(E[x].first), ~Cut(T2, x)
               PROVE  At1(t2, E[x].first, E[x].cur, E[x].cnt)
    BY DEF CurOK
  <2>2. ~Cut(T, x)
    BY <1>1
  <2>3. Keeps(t, t2, E[x].first)
    BY <1>13, <2>2
  <2> QED BY <2>1, <2>2, <2>3, CurKept
<1>16. Mine(E, E, p)
  BY DEF Mine, Steady
<1>17. DirOK(E, T2, D)
  <2>1. \A x \in File : AlikeShort(E[x], E[x])
    BY DEF AlikeShort
  <2> QED BY <2>1, DiskParts, DirKept
<1>18. CacheOK(E, T2, D)
  <2>1. CacheOK(E, T, D)
    BY DiskParts
  <2> QED BY <1>3, <2>1, CacheKept DEF CacheOK
<1>19. DatDom(d) /\ NamesOK(l, D) /\ Sizes(E) /\ RootOK(E)
  BY DiskParts
<1>20. DiskOK(l, E, T2, t2, d, D)
  BY <1>12, <1>14, <1>15, <1>16, <1>17, <1>18, <1>19, DiskStep DEF h2
<1>21. Keeps(t, t2, 2)
  <2>1. E[Root].first = 2 /\ Cl(2) /\ InMem(E[Root]) /\ ~Cut(T, Root) /\ Root \in Entry
    BY RootHead, FileEntry
  <2> QED BY <1>13, <2>1
<1>22. DirOf(t2, d) = DirOf(t, d)
  BY <1>21, DirStill
<1> QED BY <1>20, <1>22

LEMMA NextMoved ==
  ASSUME FInv, load' = load, CtlOK(load, calls', ent', todo', file'), NEW D,
         DiskOK(load, ent', todo', fat', data', D), Dir' = D
  PROVE  FInv'
  BY NextInv

LEMMA DoEtruncEnd == ASSUME FInv, NEW p \in Procs, Etrunc(p), ~IsCluster(Now(p).c) PROVE FInv'
<1> DEFINE s == todo[p]
<1> DEFINE i == s[1]
<1> DEFINE e == i.e
<1>1. Ctl /\ Disk /\ CtlOK(load, calls, ent, todo, file) /\ DiskOK(load, ent, todo, fat, data, Dir)
  BY DEF FInv, Ctl, Disk
<1>2. At(p, "etrunc") /\ UNCHANGED <<load, calls, data, file>>
  BY DEF Etrunc
<1>3. s # <<>> /\ i.op = "etrunc" /\ Now(p) = i /\ SeqOK(s)
  BY <1>1, <1>2, AtIs
<1>4. ent' = [ent EXCEPT ![e] = EtruncEnd(@)] /\ Pop(p) /\ UNCHANGED fat /\ ~IsCluster(i.c)
  BY <1>3 DEF Etrunc
<1>5. Whole(s, 1) /\ Goes1(s, 1)
  BY <1>3, FirstIs
<1>6. e \in File /\ e \in Entry /\ e # Root
  BY <1>3, <1>5 DEF Whole, OnFile, File
<1>7. PICK r : Pops(r, s) /\ Becomes(todo, todo', p, r)
  BY <1>1, <1>3, <1>4, DoPop
<1> HIDE DEF i
<1>8. IsEntry(ent[e]) /\ EntDom(ent)
  BY <1>1, <1>6, TodoIs, EntIs
<1> HIDE DEF e
<1> DEFINE y == EtruncEnd(ent[e])
<1>10. Resized(ent[e], y) /\ SizeOK(y) /\ y.first = 0
  BY <1>8, EtruncEndIs
<1>11. Puts1(ent, e, y, ent')
  BY <1>4 DEF Puts1
<1> HIDE DEF y
<1>12. ResizedOne(ent, ent', e) /\ ent'[e] = y
  BY <1>6, <1>8, <1>10, <1>11, ResizeSet
<1>13. Works(ent, ent', e)
  BY <1>12, ResizedWorks
<1>14. IsFile(file[p]) /\ Becomes(file, file, p, file[p]) /\ SameOpen(file[p], file[p])
  BY <1>1, Ready DEF SameOpen
<1>15. CtlOK(load, calls, ent', todo', file)
  BY <1>1, <1>3, <1>7, <1>13, <1>14, CtlWork DEF WorkOps, e, i
<1>16. (\A x \in File : ~Creating(s, x) /\ ~Creating(r, x)) /\ Whole(s, 1) /\ Goes1(s, 1)
       /\ (Len(s) >= 2 => r[1] = s[2])
  BY <1>3, <1>7, PopMore DEF MakeOps, i
<1>17. NoHead(r) /\ LocalOK(r, ent', fat, data)
  <2>1. Is(s, 2, "setfile", e) \/ Is(s, 2, "drop", e)
    BY <1>3, <1>5 DEF Goes1, e, i
  <2>2. r[1] = s[2] /\ s[2].e = e
    <3>1. Len(s) \in Nat
      BY <1>3, FirstIs
    <3>2. Len(s) >= 2
      BY <2>1, <3>1 DEF Is
    <3> QED BY <2>1, <3>2, <1>16 DEF Is
  <2>3. CASE Is(s, 2, "setfile", e)
    BY <2>2, <2>3 DEF NoHead, LocalOK, Shaped, Is
  <2>4. CASE Is(s, 2, "drop", e)
    <3>1. ent[e].valid = -1
      <4>1. LocalOK(s, ent, fat, data)
        BY <1>1, DiskParts
      <4> QED BY <1>3, <2>4, <4>1 DEF LocalOK, e, i
    <3>2. ent'[e].valid = -1 /\ ent'[e].first = 0
      BY <3>1, <1>10, <1>12 DEF ResizedOne, Resized
    <3>3. s[2].op = "drop"
      BY <2>4 DEF Is
    <3> QED BY <2>2, <3>2, <3>3, <1>6 DEF NoHead, LocalOK, Shaped
  <2> QED BY <2>1, <2>3, <2>4
<1>18. ent[e].lock = p
  BY <1>1, <1>3, HeadLocked DEF NeedsLock, e, i
<1>19. OnEntry(s, {"etrunc"}, e) /\ ~Cl(s[1].c)
  BY <1>3, <1>4, ClNot DEF OnEntry, e, i
<1>20. DiskOK(load, ent', todo', fat, data, Dir)
  BY <1>1, <1>6, <1>7, <1>10, <1>12, <1>16, <1>17, <1>18, <1>19, DiskResize
<1>21. fat' = fat /\ data' = data /\ load' = load /\ Dir' = Dir /\ calls' = calls /\ file' = file
  BY <1>2, <1>4, DirSame
<1> QED BY <1>15, <1>20, <1>21, NextInv

\* what such a step goes on with
SetC(i, v, y) == y = [i EXCEPT !.c = v]
SetSec(i, v, y) == y = [i EXCEPT !.sec = v]
SetLink(i, v, y) == y = [i EXCEPT !.op = "link", !.sec = v]
LEMMA SetCIs ==
  ASSUME NEW i, Shaped(i), i.op = "etrunc", NEW v, NEW y, SetC(i, v, y)
  PROVE  y.op = "etrunc" /\ y.e = i.e /\ y.c = v /\ Shaped(y)
<1>1. i = [op |-> "etrunc", e |-> i.e, c |-> i.c]
  BY DEF Shaped
<1> DEFINE a == i.e
<1> DEFINE b == i.c
<1>2. i = [op |-> "etrunc", e |-> a, c |-> b]
  BY <1>1
<1>3. a = i.e
  OBVIOUS
<1> HIDE DEF a, b
<1>4. y = [op |-> "etrunc", e |-> a, c |-> v]
  BY ONLY <1>2, SetC(i, v, y) DEF SetC
<1> QED BY ONLY <1>3, <1>4 DEF Shaped
LEMMA SetSecIs ==
  ASSUME NEW i, Shaped(i), i.op = "alloc", NEW v, NEW y
  PROVE  /\ SetSec(i, v, y) => y.op = "alloc" /\ y.e = i.e /\ y.sec = v /\ y.how = i.how /\ Shaped(y)
         /\ SetLink(i, v, y) => y.op = "link" /\ y.e = i.e /\ y.sec = v /\ y.how = i.how /\ Shaped(y)
<1>1. i = [op |-> "alloc", e |-> i.e, sec |-> i.sec, how |-> i.how]
  BY DEF Shaped
<1> DEFINE a == i.e
<1> DEFINE b == i.sec
<1> DEFINE h == i.how
<1>2. i = [op |-> "alloc", e |-> a, sec |-> b, how |-> h]
  BY <1>1
<1>3. a = i.e /\ h = i.how
  OBVIOUS
<1> HIDE DEF a, b, h
<1>4. ASSUME SetSec(i, v, y) PROVE y = [op |-> "alloc", e |-> a, sec |-> v, how |-> h]
  BY ONLY <1>2, <1>4 DEF SetSec
<1>5. ASSUME SetLink(i, v, y) PROVE y = [op |-> "link", e |-> a, sec |-> v, how |-> h]
  BY ONLY <1>2, <1>5 DEF SetLink
<1>6. SetSec(i, v, y) => y.op = "alloc" /\ y.e = i.e /\ y.sec = v /\ y.how = i.how /\ Shaped(y)
  BY ONLY <1>3, <1>4 DEF Shaped
<1> QED BY ONLY <1>3, <1>5, <1>6 DEF Shaped

LEMMA DoEtruncTurn == ASSUME FInv, NEW p \in Procs, Etrunc(p), IsCluster(Now(p).c) PROVE FInv'
<1> DEFINE s == todo[p]
<1> DEFINE i == s[1]
<1> DEFINE e == i.e
<1>1. Ctl /\ Disk /\ CtlOK(load, calls, ent, todo, file) /\ DiskOK(load, ent, todo, fat, data, Dir)
  BY DEF FInv, Ctl, Disk
<1>2. At(p, "etrunc") /\ UNCHANGED <<load, calls, data, file>>
  BY DEF Etrunc
<1>3. s # <<>> /\ i.op = "etrunc" /\ Now(p) = i /\ SeqOK(s)
  BY <1>1, <1>2, AtIs
<1> DEFINE y == [i EXCEPT !.c = read_fat(i.c)]
<1>4. Push(p, <<y>>) /\ fat' = [fat EXCEPT ![i.c] = 0] /\ UNCHANGED ent /\ IsCluster(i.c)
  BY <1>3 DEF Etrunc
<1>5. Whole(s, 1) /\ Goes1(s, 1) /\ Len(s) \in Nat
  BY <1>3, FirstIs
<1>6. e \in File /\ e \in Entry /\ e # Root
  BY <1>3, <1>5 DEF Whole, OnFile, File
<1>7. Cl(i.c)
  <2>1. NumsOK(Heads(ent, todo, Dir))
    BY <1>1, DiskParts DEF FatOK
  <2>2. Heads(ent, todo, Dir)[Ip(p)] = Held(s) /\ Ip(p) \in Idx
    BY HeadsIs, IdxIs
  <2>3. Held(s) = i.c
    BY <1>3 DEF Held
  <2>4. i.c \in {0, EOC} \cup (2..LAST)
    BY <2>1, <2>2, <2>3 DEF NumsOK
  <2> QED BY <2>4, <1>4, Bounds DEF Cl, IsCluster
<1>8. read_fat(i.c) = fat[i.c]
  BY <1>7, Bounds DEF Cl, read_fat
<1>9. SetC(i, fat[i.c], y)
  BY <1>8 DEF SetC
<1> HIDE DEF y
<1>10. LocalOK(s, ent, fat, data) /\ Shaped(i)
  <2>1. LocalOK(s, ent, fat, data)
    BY <1>1, DiskParts
  <2> QED BY <2>1, <1>3 DEF LocalOK
<1>11. y.op = "etrunc" /\ y.e = e /\ y.c = fat[i.c] /\ Shaped(y)
  BY <1>3, <1>9, <1>10, SetCIs
<1> DEFINE a == <<y>>
<1>12. IsSeq(a) /\ Len(a) = 1 /\ a[1] = y
  BY Tup1
<1>13. Push(p, a)
  BY <1>4
<1>14. PICK r : Puts(r, a, s) /\ Becomes(todo, todo', p, r)
  BY <1>1, <1>3, <1>12, <1>13, DoPush
<1>15. Turns(i, y)
  BY <1>3, <1>11 DEF Turns
<1>16. CtlOK(load, calls, ent, todo', file)
  <2>1. Puts(r, <<y>>, todo[p]) /\ Turns(todo[p][1], y) /\ todo[p] # <<>>
    BY <1>3, <1>14, <1>15
  <2> HIDE DEF a, s, i, e
  <2> QED BY <1>1, <1>14, <2>1, CtlTurn
<1> HIDE DEF a
<1>17. r # <<>> /\ r[1] = y /\ Len(r) = Len(s) /\ (\A k \in 2..Len(s) : r[k] = s[k]) /\ IsSeq(r)
  <2>1. IsSeq(r) /\ Len(r) = 1 + Len(s) - 1 /\ (\A k \in 1..1 : r[k] = a[k]) /\ \A k \in 2..Len(s) : r[1 + k - 1] = s[k]
    BY ONLY <1>12, <1>14 DEF Puts
  <2>2. Len(s) \in Nat /\ Len(s) >= 1
    BY <1>3, FirstIs
  <2>3. Len(r) = Len(s) /\ (\A k \in 2..Len(s) : r[k] = s[k]) /\ r[1] = y
    BY ONLY <1>12, <2>1, <2>2
  <2> QED BY <2>1, <2>2, <2>3, SeqEmpty
<1>18. CtlOK(load, calls', ent', todo', file')
  BY <1>2, <1>4, <1>16
<1>19. OnEntry(s, {"etrunc"}, e) /\ OnEntry(r, {"etrunc"}, e) /\ r[1].c = fat[i.c] /\ s[1].c = i.c
  BY <1>3, <1>11, <1>17 DEF OnEntry
<1>20. \A x \in File : ~Creating(s, x) /\ ~Creating(r, x)
  <2>1. SeqOK(r)
    BY <1>16, <1>14, Ready DEF Becomes
  <2> QED BY <2>1, <1>3, <1>11, <1>17, NoValid DEF MakeOps
<1>21. LocalOK(r, ent, fat', data)
  <2>1. Is(r, 2, "drop", e) => Is(s, 2, "drop", e)
    BY <1>5, <1>17 DEF Is
  <2>2. Is(s, 2, "drop", e) => ent[e].valid = -1
    BY <1>3, <1>10 DEF LocalOK
  <2> QED BY <1>11, <1>17, <2>1, <2>2 DEF LocalOK
<1>22. Puts1(fat, i.c, 0, fat') /\ IsCluster(i.c)
  BY <1>4 DEF Puts1
<1>23. DiskOK(load, ent, todo', fat', data, Dir) /\ (Dir = DirOf(fat, data) => DirOf(fat', data) = Dir)
  <2> HIDE DEF a, s, i, e
  <2>1. todo[p] = s
    BY DEF s
  <2>2. /\ OnEntry(todo[p], {"etrunc"}, e) /\ todo[p][1].c = i.c
        /\ \A x \in File : ~Creating(todo[p], x) /\ ~Creating(r, x)
    BY <1>19, <1>20, <2>1
  <2> QED BY <1>1, <1>6, <1>14, <1>19, <1>21, <1>22, <2>2, DiskCut
<1>24. Dir' = Dir
  BY <1>2, <1>23 DEF Dir
<1>25. DiskOK(load, ent', todo', fat', data', Dir)
  BY <1>2, <1>4, <1>23
<1>26. load' = load
  BY <1>2
<1> QED BY <1>18, <1>24, <1>25, <1>26, NextMoved

LEMMA DoEtrunc == ASSUME FInv, NEW p \in Procs, Etrunc(p) PROVE FInv'
  BY DoEtruncTurn, DoEtruncEnd

\* what a process at the start of a call has
LEMMA StartsCall ==
  ASSUME FInv, NEW p \in Procs, NEW k, Calls(p, k), Return(p)
  PROVE  /\ todo[p] = <<>> /\ Calls1(load, calls') /\ Head(calls[p]) \in CallsOf(load, p)
         /\ CallIs(Head(calls[p])) /\ Head(calls[p]).k \in k
         /\ IsFile(file[p]) /\ EntDom(ent) /\ NoHead(todo[p]) /\ \A d \in File : ~Creating(todo[p], d)
<1>1. CtlOK(load, calls, ent, todo, file)
  BY DEF FInv, Ctl
<1>2. todo[p] = <<>> /\ calls[p] # <<>> /\ Head(calls[p]).k \in k
  BY DEF Calls, Idle
<1>3. Calls1(load, calls) /\ calls = [q \in Procs |-> calls[q]]
  BY <1>1, Ready DEF Calls1
<1>4. Becomes(calls, calls', p, Tail(calls[p]))
  <2>1. calls' = [calls EXCEPT ![p] = Tail(calls[p])]
    BY DEF Return
  <2> QED BY <1>3, <2>1, BecomesIs
<1>5. Calls1(load, calls') /\ Head(calls[p]) \in CallsOf(load, p)
  BY <1>2, <1>3, <1>4, CallsTail
<1>6. CallIs(Head(calls[p]))
  BY <1>5 DEF FInv, CallsAre
<1>7. IsFile(file[p]) /\ EntDom(ent)
  BY <1>1, Ready
<1>8. NoHead(todo[p]) /\ \A d \in File : ~Creating(todo[p], d)
  <2>1. Len(<<>>) = 0
    BY Tup0
  <2> QED BY <1>2, <2>1 DEF NoHead, Creating, Has
<1> QED BY <1>2, <1>5, <1>6, <1>7, <1>8

\* the call has begun
LEMMA CallInv ==
  ASSUME FInv, NEW p \in Procs, NEW k, Calls(p, k), Return(p), UNCHANGED <<load, fat, data>>,
         NEW r, Becomes(todo, todo', p, r), NEW f2, Becomes(file, file', p, f2),
         StartOK(load, p, ent, r, file[p], f2), NoHead(r), LocalOK(r, ent', fat, data),
         EntDom(ent'), AllAlike(ent, ent'), CurMoves(ent, ent', todo, fat, p),
         \A d \in Entry : ent'[d].lock = ent[d].lock
  PROVE  FInv'
<1>1. CtlOK(load, calls, ent, todo, file)
  BY DEF FInv, Ctl
<1>2. todo[p] = <<>> /\ Calls1(load, calls') /\ NoHead(todo[p]) /\ \A d \in File : ~Creating(todo[p], d)
  BY StartsCall
<1>3. CtlOK(load, calls', ent', todo', file')
  BY <1>1, <1>2, CtlCall
<1>4. \A d \in File : ~Creating(r, d)
  BY DEF StartOK
<1>5. SameMaking(todo[p], r, ent)
  BY <1>2, <1>4, NoneMakes
<1> QED BY <1>2, <1>3, <1>5, QuietInv

LEMMA DoCallName == ASSUME FInv, NEW p \in Procs, CallName(p) PROVE FInv'
<1> DEFINE c == Head(calls[p])
<1> DEFINE b == [op |-> "lookup", c |-> c]
<1> DEFINE r == <<elock(Root), b>>
<1>0. CtlOK(load, calls, ent, todo, file)
  BY DEF FInv, Ctl
<1>1. Calls(p, {"open", "mkdir", "remove", "rename"}) /\ Return(p) /\ todo' = [todo EXCEPT ![p] = r]
      /\ UNCHANGED <<load, fat, data, ent, file>>
  BY DEF CallName
<1>2. c \in CallsOf(load, p) /\ CallIs(c) /\ c.k \in {"open", "mkdir", "remove", "rename"} /\ IsFile(file[p]) /\ EntDom(ent)
  BY <1>1, StartsCall
<1>3. c.k \in {"open", "mkdir", "remove"}
  BY <1>2 DEF CallIs
<1>4. IsSeq(r) /\ Len(r) = 2 /\ r[1] = elock(Root) /\ r[2] = b
  BY Tup2
<1>5. b.op = "lookup" /\ b.c = c
  OBVIOUS
<1> HIDE DEF r, b, c
<1>6. Becomes(todo, todo', p, r) /\ Becomes(file, file', p, file[p])
  BY <1>0, <1>1, Ready, BecomesIs, TodoIs DEF FInv
<1>7. r[1].op = "elock" /\ r[1].e = Root /\ r[2].op = "lookup" /\ r[2].c = c
  BY ONLY <1>4, <1>5 DEF elock
<1>8. StartOK(load, p, ent, r, file[p], file[p])
  BY <1>2, <1>3, <1>4, <1>7, StartName
<1>9. NoHead(r) /\ LocalOK(r, ent', fat, data)
  BY <1>7 DEF NoHead, LocalOK, Shaped, Is
<1>10. EntDom(ent') /\ AllAlike(ent, ent') /\ CurMoves(ent, ent', todo, fat, p) /\ \A d \in Entry : ent'[d].lock = ent[d].lock
  BY <1>1, <1>2, StillAlike
<1> QED BY <1>1, <1>6, <1>8, <1>9, <1>10, CallInv

LEMMA DoCallWrite == ASSUME FInv, NEW p \in Procs, CallWrite(p) PROVE FInv'
<1> DEFINE e == file[p].e
<1> DEFINE b == [op |-> "ewrite", e |-> e, bytes |-> Head(calls[p]).bytes]
<1> DEFINE w == <<elock(e), b>>
<1> DEFINE r == IF file[p] = None THEN <<>> ELSE w
<1>0. CtlOK(load, calls, ent, todo, file)
  BY DEF FInv, Ctl
<1>1. Calls(p, {"write"}) /\ Return(p) /\ todo' = [todo EXCEPT ![p] = r]
      /\ UNCHANGED <<load, fat, data, ent, file>>
  BY DEF CallWrite
<1>2. IsFile(file[p]) /\ EntDom(ent)
  BY <1>1, StartsCall
<1>4. IsSeq(w) /\ Len(w) = 2 /\ w[1] = elock(e) /\ w[2] = b
  BY Tup2
<1>3. IsSeq(Head(calls[p]).bytes)
  BY <1>1, StartsCall DEF CallIs
<1>5. b.op = "ewrite" /\ b.e = e /\ IsSeq(b.bytes)
  BY <1>3
<1> HIDE DEF w, b, e
<1>6. Becomes(todo, todo', p, r) /\ Becomes(file, file', p, file[p])
  <2> HIDE DEF r
  <2> QED BY <1>0, <1>1, Ready, BecomesIs, TodoIs DEF FInv
<1>7. StartOK(load, p, ent, r, file[p], file[p]) /\ NoHead(r) /\ LocalOK(r, ent', fat, data)
  <2>1. CASE file[p] = None
    <3>1. r = <<>>
      BY <2>1
    <3> QED BY <1>2, <3>1, StartNone DEF NoHead, LocalOK
  <2>2. CASE file[p] # None
    <3>1. r = w
      BY <2>2
    <3>2. e \in File /\ FileIs(file[p], e) /\ e # Root
      BY <1>2, <2>2, FileEntry DEF IsFile, FileIs, e
    <3>3. w[1].op = "elock" /\ w[1].e = e /\ w[2].op = "ewrite" /\ w[2].e = e /\ IsSeq(w[2].bytes)
      BY ONLY <1>4, <1>5 DEF elock
    <3>4. StartOK(load, p, ent, w, file[p], file[p])
      BY <1>2, <1>4, <3>2, <3>3, StartWrite
    <3>5. NoHead(w) /\ LocalOK(w, ent', fat, data)
      BY <3>2, <3>3 DEF NoHead, LocalOK, Shaped, Is
    <3> QED BY <3>1, <3>4, <3>5
  <2> QED BY <2>1, <2>2
<1> HIDE DEF r
<1>10. EntDom(ent') /\ AllAlike(ent, ent') /\ CurMoves(ent, ent', todo, fat, p) /\ \A d \in Entry : ent'[d].lock = ent[d].lock
  BY <1>1, <1>2, StillAlike
<1> QED BY <1>1, <1>6, <1>7, <1>10, CallInv

LEMMA DoCallClose == ASSUME FInv, NEW p \in Procs, CallClose(p) PROVE FInv'
<1> DEFINE e == file[p].e
<1> DEFINE w == <<eput(e)>>
<1> DEFINE r == IF file[p] = None THEN <<>> ELSE w
<1>0. CtlOK(load, calls, ent, todo, file)
  BY DEF FInv, Ctl
<1>1. Calls(p, {"close"}) /\ Return(p) /\ todo' = [todo EXCEPT ![p] = r]
      /\ UNCHANGED <<load, fat, data, ent>> /\ file' = [file EXCEPT ![p] = None]
  BY DEF CallClose
<1>2. IsFile(file[p]) /\ EntDom(ent)
  BY <1>1, StartsCall
<1>4. IsSeq(w) /\ Len(w) = 1 /\ w[1] = eput(e)
  BY Tup1
<1> HIDE DEF w, e
<1>6. Becomes(todo, todo', p, r) /\ Becomes(file, file', p, None)
  <2> HIDE DEF r
  <2> QED BY <1>0, <1>1, BecomesIs, TodoIs DEF FInv
<1>7. StartOK(load, p, ent, r, file[p], None) /\ NoHead(r) /\ LocalOK(r, ent', fat, data)
  <2>1. CASE file[p] = None
    <3>1. r = <<>>
      BY <2>1
    <3>2. IsFile(None) /\ \A d \in File : FileIs(None, d) => FileIs(file[p], d)
      BY DEF IsFile, FileIs
    <3> QED BY <1>2, <3>1, <3>2, StartNone DEF NoHead, LocalOK
  <2>2. CASE file[p] # None
    <3>1. r = w
      BY <2>2
    <3>2. e \in File /\ FileIs(file[p], e) /\ e # Root
      BY <1>2, <2>2, FileEntry DEF IsFile, FileIs, e
    <3>3. w[1].op = "eput" /\ w[1].e = e
      BY ONLY <1>4 DEF eput
    <3>4. StartOK(load, p, ent, w, file[p], None)
      BY <1>4, <3>2, <3>3, StartClose
    <3>5. NoHead(w) /\ LocalOK(w, ent', fat, data)
      BY <3>2, <3>3 DEF NoHead, LocalOK, Shaped, Is
    <3> QED BY <3>1, <3>4, <3>5
  <2> QED BY <2>1, <2>2
<1> HIDE DEF r
<1>10. EntDom(ent') /\ AllAlike(ent, ent') /\ CurMoves(ent, ent', todo, fat, p) /\ \A d \in Entry : ent'[d].lock = ent[d].lock
  BY <1>1, <1>2, StillAlike
<1> QED BY <1>1, <1>6, <1>7, <1>10, CallInv

\* reloc_clus() finds another place in the chain
MovesCur(x, y, t) == IsEntry(y) /\ Alike(x, y) /\ y.lock = x.lock /\ At1(t, y.first, y.cur, y.cnt)
IsMoved(x, w, y) == y = MoveTo(x, w)
LEMMA MoveIs ==
  ASSUME NEW x, IsEntry(x), NEW w, NEW y, IsMoved(x, w, y)
  PROVE  IsEntry(y) /\ Alike(x, y) /\ y.lock = x.lock /\ y.cur = w.cur /\ y.cnt = w.cnt
<1> DEFINE u == w.cur
<1> DEFINE v == w.cnt
<1> DEFINE z == [x EXCEPT !.cur = u]
<1>0. IsMoved(x, w, y)
  OBVIOUS
<1>1. z = [name |-> x.name, dir |-> x.dir, first |-> x.first, size |-> x.size, cur |-> u, cnt |-> x.cnt,
           dirty |-> x.dirty, valid |-> x.valid, ref |-> x.ref, off |-> x.off, lock |-> x.lock]
  BY DEF IsEntry, IsEnt
<1>2. y = [z EXCEPT !.cnt = v]
  BY <1>0 DEF IsMoved, MoveTo
<1> HIDE DEF z
<1>3. y = [name |-> x.name, dir |-> x.dir, first |-> x.first, size |-> x.size, cur |-> u, cnt |-> v,
           dirty |-> x.dirty, valid |-> x.valid, ref |-> x.ref, off |-> x.off, lock |-> x.lock]
  BY ONLY <1>1, <1>2
<1>4. IsEntry(x)
  OBVIOUS
<1>5. /\ y.name = x.name /\ y.dir = x.dir /\ y.first = x.first /\ y.size = x.size /\ y.cur = u /\ y.cnt = v
      /\ y.dirty = x.dirty /\ y.valid = x.valid /\ y.ref = x.ref /\ y.off = x.off /\ y.lock = x.lock /\ IsEnt(y)
  BY ONLY <1>3 DEF IsEnt
<1> HIDE DEF u, v
<1>6. IsEntry(y)
  BY ONLY <1>4, <1>5 DEF IsEntry
<1> QED BY <1>5, <1>6 DEF Alike, u, v

LEMMA RelocIs ==
  ASSUME TableOK(fat), NEW x, IsEntry(x), IsHead(fat, x.first), At1(fat, x.first, x.cur, x.cnt), NEW o \in Nat
  PROVE  MovesCur(x, reloc_clus(x, o), fat)
<1> DEFINE w == Seek(x, o \div C)
<1> DEFINE w0 == [cur |-> x.first, cnt |-> 0]
<1> DEFINE y == reloc_clus(x, o)
<1>1. o \div C \in Nat
  BY DivIs
<1>2. At1(fat, x.first, w.cur, w.cnt)
  BY <1>1, SeekIs
<1>3. At1(fat, x.first, w0.cur, w0.cnt)
  <2>1. To(fat, x.first, 0) = x.first
    BY ToIs
  <2>2. At1(fat, x.first, x.first, 0)
    BY <2>1 DEF At1, IsHead
  <2> QED BY <2>2
<1>4. IsMoved(x, w, y) \/ IsMoved(x, w0, y)
  BY DEF reloc_clus, IsMoved
<1> HIDE DEF w, w0, y
<1>5. ASSUME NEW z, At1(fat, x.first, z.cur, z.cnt), IsMoved(x, z, y)
      PROVE  MovesCur(x, y, fat)
  <2>1. IsEntry(y) /\ Alike(x, y) /\ y.lock = x.lock /\ y.cur = z.cur /\ y.cnt = z.cnt
    BY <1>5, MoveIs
  <2> QED BY <2>1, <1>5 DEF MovesCur, Alike
<1>6. MovesCur(x, y, fat)
  BY <1>2, <1>3, <1>4, <1>5
<1> QED BY <1>6 DEF y

\* an entry that is in memory, and that nobody cuts, can be moved
LEMMA CanMove ==
  ASSUME FInv, NEW e \in Entry, InMem(ent[e]), ~Cut(todo, e), Cl(ent[e].first)
  PROVE  /\ TableOK(fat) /\ IsEntry(ent[e]) /\ IsHead(fat, ent[e].first)
         /\ At1(fat, ent[e].first, ent[e].cur, ent[e].cnt)
<1>1. CtlOK(load, calls, ent, todo, file) /\ DiskOK(load, ent, todo, fat, data, Dir)
  BY DEF FInv, Ctl, Disk
<1>2. FatOK(load, Heads(ent, todo, Dir), fat) /\ CurOK(ent, todo, fat)
  BY <1>1, DiskParts
<1>3. IsHead(fat, ent[e].first)
  BY <1>1, FileHead
<1>4. IsEntry(ent[e])
  BY <1>1, EntIs DEF CtlOK
<1> QED BY <1>2, <1>3, <1>4 DEF FatOK, CurOK
LEMMA MovedEnt ==
  ASSUME NEW E, EntDom(E), NEW e \in Entry, NEW p, E[e].lock \in {p, NoProc}, NEW y, NEW t, MovesCur(E[e], y, t),
         NEW E2, Puts1(E, e, y, E2), NEW T
  PROVE  /\ EntDom(E2) /\ AllAlike(E, E2) /\ CurMoves(E, E2, T, t, p) /\ E2[e] = y
         /\ \A d \in Entry : E2[d].lock = E[d].lock /\ (d # e => E2[d] = E[d])
<1>1. EntDom(E2) /\ E2[e] = y /\ \A d \in Entry : d # e => E2[d] = E[d]
  BY EntSet DEF MovesCur
<1>2. Alike(E[e], y) /\ y.lock = E[e].lock /\ At1(t, y.first, y.cur, y.cnt) /\ y.first = E[e].first
  BY DEF MovesCur, Alike
<1>3. AllAlike(E, E2)
  BY <1>1, <1>2 DEF AllAlike, Alike
<1>4. CurMoves(E, E2, T, t, p)
  BY <1>1, <1>2 DEF CurMoves
<1> QED BY <1>1, <1>2, <1>3, <1>4
\* who cuts an entry has its lock
LEMMA NotCut ==
  ASSUME FInv, NEW p \in Procs, NEW e \in Entry, ent[e].lock \in {p, NoProc}, ~OnEntry(todo[p], {"etrunc"}, e)
  PROVE  ~Cut(todo, e)
<1>1. CtlOK(load, calls, ent, todo, file) /\ NoProc \notin Procs
  BY ProcsAssumption DEF FInv, Ctl
<1>2. ASSUME NEW q \in Procs, OnEntry(todo[q], {"etrunc"}, e) PROVE FALSE
  <2>1. todo[q] # <<>> /\ todo[q][1].op = "etrunc" /\ todo[q][1].e = e
    BY <1>2 DEF OnEntry
  <2>2. ent[e].lock = q
    BY <1>1, <2>1, HeadLocked DEF NeedsLock
  <2> QED BY <1>1, <1>2, <2>2
<1> QED BY <1>2 DEF Cut

LEMMA OpenMoves ==
  ASSUME NEW f, f = [e |-> f.e, off |-> f.off], f.e \in File, f.off \in Nat, NEW m \in Nat, f # None,
         NEW g, g = [f EXCEPT !.off = @ + m]
  PROVE  IsFile(g) /\ \A d \in File : FileIs(g, d) => FileIs(f, d)
<1> DEFINE a == f.e
<1> DEFINE b == f.off
<1> DEFINE o == b + m
<1>1. f = [e |-> a, off |-> b] /\ a \in File /\ o \in Nat
  OBVIOUS
<1>2. g = [f EXCEPT !.off = o]
  OBVIOUS
<1> HIDE DEF o
<1>3. g = [e |-> a, off |-> o]
  BY ONLY <1>1, <1>2
<1>4. g.e = a /\ g.off = o /\ g = [e |-> g.e, off |-> g.off]
  BY ONLY <1>3
<1>5. g # None
  <2>1. g \in [e : 0..NENT, off : Nat]
    BY <1>1, <1>3 DEF File, Entry
  <2> QED BY <2>1, NoneAssumption
<1> QED BY <1>1, <1>4, <1>5 DEF IsFile, FileIs

LEMMA ReadLess ==
  ASSUME NEW s \in Nat, NEW off \in Nat, NEW n \in Nat
  PROVE  LET m == IF off > s THEN 0 ELSE IF off + n > s THEN s - off ELSE n IN
         m \in Nat /\ (m # 0 => s > 0 /\ off + m - 1 \in Nat)
<1>1. CASE off > s BY <1>1
<1>2. CASE off <= s /\ off + n > s BY <1>2
<1>3. CASE off <= s /\ off + n <= s BY <1>3
<1> QED BY <1>1, <1>2, <1>3

LEMMA DoCallRead == ASSUME FInv, NEW p \in Procs, CallRead(p) PROVE FInv'
<1> DEFINE f == file[p]
<1> DEFINE e == f.e
<1> DEFINE x == ent[e]
<1> DEFINE n == Head(calls[p]).n
<1> DEFINE off == f.off
<1> DEFINE m == IF off > x.size THEN 0 ELSE IF off + n > x.size THEN x.size - off ELSE n
<1> DEFINE y == reloc_clus(x, off + m - 1)
<1>0. CtlOK(load, calls, ent, todo, file)
  BY DEF FInv, Ctl
<1>1. Calls(p, {"read"}) /\ Return(p) /\ UNCHANGED <<load, fat, data, todo>>
  BY DEF CallRead
<1>2. IsFile(f) /\ EntDom(ent) /\ todo[p] = <<>> /\ CallIs(Head(calls[p])) /\ Head(calls[p]).k = "read"
  BY <1>1, StartsCall
<1>3. Becomes(todo, todo', p, <<>>)
  <2>1. Becomes(todo, todo, p, todo[p])
    BY <1>0, Ready
  <2> QED BY <2>1, <1>1, <1>2
<1>4. NoHead(<<>>) /\ LocalOK(<<>>, ent', fat, data)
  BY DEF NoHead, LocalOK
<1>5. CASE f = None
  <2>1. UNCHANGED <<ent, file>>
    BY <1>5 DEF CallRead
  <2>2. Becomes(file, file', p, f)
    BY <1>0, <2>1, Ready
  <2>3. StartOK(load, p, ent, <<>>, f, f)
    BY <1>2, StartNone
  <2>4. EntDom(ent') /\ AllAlike(ent, ent') /\ CurMoves(ent, ent', todo, fat, p) /\ \A d \in Entry : ent'[d].lock = ent[d].lock
    BY <1>2, <2>1, StillAlike
  <2> QED BY <1>1, <1>3, <1>4, <2>2, <2>3, <2>4, CallInv
<1>6. CASE f # None
  <2>1. /\ x.lock = NoProc /\ file' = [file EXCEPT ![p].off = @ + m]
        /\ ent' = IF m = 0 THEN ent ELSE [ent EXCEPT ![e] = reloc_clus(@, off + m - 1)]
    BY <1>6 DEF CallRead
  <2>2. e \in File /\ e \in Entry /\ e # Root /\ off \in Nat /\ f = [e |-> f.e, off |-> f.off] /\ FileIs(f, e)
    BY <1>2, <1>6, FileEntry DEF IsFile, FileIs
  <2>3. Sizes(ent)
    BY DiskParts DEF FInv, Disk
  <2>4. x.size \in Nat /\ (x.first = 0 \/ Cl(x.first)) /\ (x.size > 0 => x.first # 0)
    BY <2>2, <2>3 DEF Sizes
  <2>5. n \in Nat
    BY <1>2 DEF CallIs
  <2>6. m \in Nat /\ (m # 0 => x.size > 0 /\ off + m - 1 \in Nat)
    BY <2>2, <2>4, <2>5, ReadLess
  <2> HIDE DEF m, n
  <2>7. \E g : Becomes(file, file', p, g) /\ IsFile(g) /\ \A d \in File : FileIs(g, d) => FileIs(f, d)
    <3> DEFINE g == [f EXCEPT !.off = @ + m]
    <3>1. IsFile(g) /\ \A d \in File : FileIs(g, d) => FileIs(f, d)
      BY <1>6, <2>2, <2>6, OpenMoves
    <3>2. file' = [file EXCEPT ![p] = g]
      BY <2>1
    <3> HIDE DEF g
    <3>3. Becomes(file, file', p, g)
      BY <1>0, <3>2, BecomesIs, TodoIs DEF FInv
    <3> QED BY <3>1, <3>3
  <2>8. PICK g : Becomes(file, file', p, g) /\ IsFile(g) /\ \A d \in File : FileIs(g, d) => FileIs(f, d)
    BY <2>7
  <2>9. StartOK(load, p, ent, <<>>, f, g)
    BY <2>8, StartNone
  <2>10. EntDom(ent') /\ AllAlike(ent, ent') /\ CurMoves(ent, ent', todo, fat, p) /\ \A d \in Entry : ent'[d].lock = ent[d].lock
    <3>1. CASE m = 0
      <4>1. ent' = ent
        BY <2>1, <3>1
      <4> QED BY <1>2, <4>1, StillAlike
    <3>2. CASE m # 0
      <4>1. Cl(x.first) /\ off + m - 1 \in Nat
        BY <2>4, <2>6, <3>2
      <4>2. Puts1(ent, e, y, ent')
        BY <2>1, <3>2 DEF Puts1
      <4>3. InMem(x)
        <5>1. x.ref > 0
          BY <1>0, <2>2, InUse
        <5> QED BY <5>1 DEF InMem
      <4>4. ~Cut(todo, e)
        <5>1. ~OnEntry(todo[p], {"etrunc"}, e)
          BY <1>2 DEF OnEntry
        <5> HIDE DEF e
        <5> QED BY <2>1, <2>2, <5>1, NotCut
      <4> HIDE DEF e
      <4>5. TableOK(fat) /\ IsEntry(x) /\ IsHead(fat, x.first) /\ At1(fat, x.first, x.cur, x.cnt)
        BY <2>2, <4>1, <4>3, <4>4, CanMove
      <4> DEFINE o == off + m - 1
      <4>9. o \in Nat
        BY <4>1
      <4>10. y = reloc_clus(x, o)
        OBVIOUS
      <4> HIDE DEF x, off, m, o, y
      <4>6. MovesCur(x, y, fat)
        BY <4>5, <4>9, <4>10, RelocIs
      <4>7. ent[e].lock \in {p, NoProc} /\ MovesCur(ent[e], y, fat)
        BY <2>1, <4>6 DEF x
      <4>11. EntDom(ent) /\ e \in Entry
        BY <1>2, <2>2
      <4>12. /\ EntDom(ent') /\ AllAlike(ent, ent') /\ CurMoves(ent, ent', todo, fat, p)
             /\ \A d \in Entry : ent'[d].lock = ent[d].lock /\ (d # e => ent'[d] = ent[d])
        BY ONLY <4>2, <4>7, <4>11, MovedEnt
      <4> QED BY ONLY <4>12
    <3> QED BY <3>1, <3>2
  <2> HIDE DEF f
  <2>11. StartOK(load, p, ent, <<>>, file[p], g)
    BY <2>9 DEF f
  <2> QED BY <1>1, <1>3, <1>4, <2>8, <2>10, <2>11, CallInv
<1> QED BY <1>5, <1>6

LEMMA SameInv == ASSUME FInv, UNCHANGED <<load, calls, fat, data, ent, todo, file>> PROVE FInv'
<1>1. CtlOK(load, calls', ent', todo', file')
  BY DEF FInv, Ctl
<1>2. DiskOK(load, ent', todo', fat', data', Dir) /\ load' = load
  BY DEF FInv, Disk
<1>3. Dir' = Dir
  BY DirSame
<1> QED BY <1>1, <1>2, <1>3, NextMoved

\* alloc_clus() goes on with the next sector, or with what it found
LEMMA AllocTurns ==
  ASSUME NEW s, SeqOK(s), s # <<>>, s[1].op = "alloc", NEW y, y.op \in {"alloc", "link"}, y.e = s[1].e, y.how = s[1].how,
         NEW r, Puts(r, <<y>>, s)
  PROVE  /\ r # <<>> /\ r[1] = y /\ Len(r) = Len(s) /\ (\A k \in 2..Len(s) : r[k] = s[k]) /\ IsSeq(r)
         /\ Len(s) \in Nat /\ Len(s) >= 2 /\ NoHead(s)
         /\ \A E : SameMaking(s, r, E)
         /\ \A e : ~OnEntry(s, {"etrunc"}, e) /\ ~OnEntry(r, {"etrunc"}, e)
         /\ Held(s) = 0 /\ Held(r) = IF y.op = "link" THEN y.sec ELSE 0
<1>1. Len(s) \in Nat /\ Len(s) >= 1 /\ Begins(s, 1) /\ IsSeq(s)
  BY FirstIs
<1>2. Len(s) >= 2
  <2>1. Is(s, 2, "store", s[1].e) \/ Is(s, 2, "emake", s[1].e) \/ Writes(s, 2, s[1].e)
    BY <1>1 DEF Begins
  <2>2. 2 \in 1..Len(s)
    BY <2>1 DEF Is, Writes
  <2> QED BY <1>1, <2>2
<1> DEFINE a == <<y>>
<1>3. IsSeq(a) /\ Len(a) = 1 /\ a[1] = y
  BY Tup1
<1>4. Puts(r, a, s)
  OBVIOUS
<1> HIDE DEF a
<1>5. IsSeq(r) /\ Len(r) = 1 + Len(s) - 1 /\ (\A k \in 1..1 : r[k] = a[k]) /\ \A k \in 2..Len(s) : r[1 + k - 1] = s[k]
  BY ONLY <1>3, <1>4 DEF Puts
<1>6. Len(r) = Len(s) /\ (\A k \in 2..Len(s) : r[k] = s[k]) /\ r[1] = y
  BY ONLY <1>1, <1>3, <1>5
<1>7. r # <<>>
  BY <1>1, <1>5, <1>6, SeqEmpty
<1>8. \A e : Creating(r, e) <=> Creating(s, e)
  <2>1. ASSUME NEW k \in 1..Len(s) PROVE r[k].op = "valid" <=> s[k].op = "valid"
    BY <1>1, <1>6
  <2>2. ASSUME NEW k \in 1..Len(s) PROVE r[k].e = s[k].e
    BY <1>1, <1>6
  <2> QED BY <1>6, <2>1, <2>2 DEF Creating, Has
<1>9. \A x : WrittenTo(r, x) = WrittenTo(s, x)
  <2>1. r[2] = s[2]
    BY <1>1, <1>2, <1>6
  <2>2. OnEntry(r, {"alloc", "link"}, Root) <=> OnEntry(s, {"alloc", "link"}, Root)
    BY <1>6, <1>7 DEF OnEntry
  <2>3. ~OnEntry(r, {"store"}, Root) /\ ~OnEntry(s, {"store"}, Root) /\ r[1].op # "valid" /\ s[1].op # "valid"
    BY <1>6 DEF OnEntry
  <2> QED BY <2>1, <2>2, <2>3 DEF WrittenTo
<1>10. \A E : SameMaking(s, r, E)
  BY <1>8, <1>9 DEF SameMaking
<1>11. NoHead(s) /\ \A e : ~OnEntry(s, {"etrunc"}, e) /\ ~OnEntry(r, {"etrunc"}, e)
  BY <1>6 DEF NoHead, OnEntry
<1>12. Held(s) = 0 /\ Held(r) = IF y.op = "link" THEN y.sec ELSE 0
  BY <1>6, <1>7 DEF Held
<1> QED BY <1>1, <1>2, <1>5, <1>6, <1>7, <1>10, <1>11, <1>12

LEMMA DoAllocNext ==
  ASSUME FInv, NEW p \in Procs, At(p, "alloc"), Now(p).sec + 1 < FATSZ, NEW y, SetSec(Now(p), Now(p).sec + 1, y),
         Push(p, <<y>>), UNCHANGED <<load, calls, fat, data, ent, file>>
  PROVE  FInv'
<1> DEFINE s == todo[p]
<1> DEFINE i == s[1]
<1>1. Ctl /\ CtlOK(load, calls, ent, todo, file) /\ DiskOK(load, ent, todo, fat, data, Dir)
  BY DEF FInv, Ctl, Disk
<1>3. s # <<>> /\ i.op = "alloc" /\ Now(p) = i /\ SeqOK(s)
  BY <1>1, AtIs
<1>4. LocalOK(s, ent, fat, data) /\ Shaped(i) /\ GrowOK(i, ent, fat)
  <2>1. LocalOK(s, ent, fat, data)
    BY <1>1, DiskParts
  <2> QED BY <2>1, <1>3 DEF LocalOK
<1>5. i.sec \in 0..(FATSZ - 1) /\ i.sec + 1 \in 0..(FATSZ - 1)
  <2>1. i.sec \in 0..(FATSZ - 1)
    BY <1>3, FirstIs DEF Begins
  <2>2. i.sec + 1 < FATSZ /\ FATSZ \in Nat
    BY <1>3, SizesAssumption
  <2> QED BY <2>1, <2>2
<1>6. y.op = "alloc" /\ y.e = i.e /\ y.sec = i.sec + 1 /\ y.how = i.how /\ Shaped(y)
  BY <1>3, <1>4, SetSecIs
<1>7. Turns(i, y)
  BY <1>3, <1>5, <1>6 DEF Turns
<1>8. PICK r : Puts(r, <<y>>, s) /\ Becomes(todo, todo', p, r)
  BY <1>1, <1>3, Tup1, DoPush
<1>9. CtlOK(load, calls, ent, todo', file)
  <2>1. Puts(r, <<y>>, todo[p]) /\ Turns(todo[p][1], y) /\ todo[p] # <<>>
    BY <1>3, <1>7, <1>8
  <2> HIDE DEF s, i
  <2> QED BY <1>1, <1>8, <2>1, CtlTurn
<1>10. r # <<>> /\ r[1] = y /\ SameMaking(s, r, ent) /\ NoHead(s)
  BY <1>3, <1>6, <1>8, AllocTurns
<1>11. NoHead(r) /\ LocalOK(r, ent', fat, data)
  <2>1. GrowOK(y, ent, fat)
    BY <1>4, <1>6 DEF GrowOK
  <2> QED BY <1>6, <1>10, <2>1 DEF NoHead, LocalOK
<1>12. CtlOK(load, calls', ent', todo', file') /\ UNCHANGED <<load, fat, data>>
  BY <1>9
<1>13. AllAlike(ent, ent') /\ CurMoves(ent, ent', todo, fat, p)
  BY StillAlike
<1> QED BY <1>8, <1>10, <1>11, <1>12, <1>13, QuietInv

\* the free cluster that alloc_clus() finds
LEMMA FreeIs ==
  ASSUME TabDom(fat), NEW sec \in 0..(FATSZ - 1), NEW c \in LowestFree(sec)
  PROVE  fat[c] = 0 /\ c \in Cluster /\ c >= 2
<1> DEFINE free == {x \in (sec * PERSEC)..((sec + 1) * PERSEC - 1) : fat[x] = 0}
<1>1. free # {} /\ c = CHOOSE x \in free : \A d \in free : x <= d
  BY DEF LowestFree
<1>2. \E x \in free : \A d \in free : x <= d
  <2>1. sec * PERSEC \in Nat
    BY SizesAssumption
  <2>2. free \in SUBSET Nat
    BY <2>1
  <2> HIDE DEF free
  <2>3. PICK z \in free : TRUE
    BY <1>1
  <2> QED BY <2>2, <2>3, Least
<1>3. c \in free
  BY <1>1, <1>2
<1>4. fat[c] = 0 /\ c \in (sec * PERSEC)..((sec + 1) * PERSEC - 1)
  BY <1>3
<1>5. sec * PERSEC \in Nat /\ (sec + 1) * PERSEC <= FATSZ * PERSEC /\ FATSZ * PERSEC \in Nat /\ (sec + 1) * PERSEC \in Nat
  <2>1. sec \in Nat /\ FATSZ \in Nat /\ PERSEC \in Nat /\ sec + 1 <= FATSZ
    BY SizesAssumption
  <2> DEFINE k == FATSZ - (sec + 1)
  <2>2. k \in Nat /\ FATSZ = (sec + 1) + k
    BY <2>1
  <2> HIDE DEF k
  <2>3. ((sec + 1) + k) * PERSEC = (sec + 1) * PERSEC + k * PERSEC
    BY <2>1, <2>2
  <2>4. sec * PERSEC \in Nat /\ (sec + 1) * PERSEC \in Nat /\ k * PERSEC \in Nat /\ FATSZ * PERSEC \in Nat
    BY <2>1, <2>2
  <2>5. FATSZ * PERSEC = (sec + 1) * PERSEC + k * PERSEC
    BY <2>2, <2>3
  <2> QED BY <2>4, <2>5
<1>6. c \in Cluster
  <2>1. c \in 0..(FATSZ * PERSEC - 1)
    BY <1>4, <1>5
  <2> QED BY <2>1 DEF Cluster
<1>7. c # 0 /\ c # 1
  BY <1>4 DEF TabDom
<1>8. c \in Nat
  BY <1>4, <1>5
<1> QED BY <1>4, <1>6, <1>7, <1>8

\* a step that changes the table, but no chain
KeepsAll(t, t2, d, d2) == \A g : IsHead(t, g) =>
  Keeps(t, t2, g) /\ \A n \in Nat : Live(t, To(t, g, n)) => d2[To(t, g, n)] = d[To(t, g, n)]
LEMMA KeptHeld ==
  ASSUME NEW l, NEW E, NEW T, NEW t, NEW d, NEW D, DiskOK(l, E, T, t, d, D), NEW t2, NEW d2, KeepsAll(t, t2, d, d2),
         NEW q \in Procs, Cl(Held(T[q]))
  PROVE  t2[Held(T[q])] = t[Held(T[q])] /\ d2[Held(T[q])] = d[Held(T[q])]
<1>1. IsHead(t, Held(T[q]))
  BY HeldHead
<1> DEFINE g == Held(T[q])
<1>2. To(t, g, 0) = g /\ Live(t, g)
  BY <1>1, ToIs DEF IsHead
<1> HIDE DEF g
<1>3. Keeps(t, t2, g) /\ \A n \in Nat : Live(t, To(t, g, n)) => d2[To(t, g, n)] = d[To(t, g, n)]
  BY <1>1 DEF KeepsAll, g
<1>4. t2[To(t, g, 0)] = t[To(t, g, 0)] /\ d2[To(t, g, 0)] = d[To(t, g, 0)]
  BY <1>2, <1>3 DEF Keeps
<1>5. t2[g] = t[g] /\ d2[g] = d[g]
  BY <1>2, <1>4
<1> QED BY <1>5 DEF g
LEMMA DiskKeeps ==
  ASSUME NEW l, NEW K, NEW E, NEW T, NEW F, CtlOK(l, K, E, T, F), NEW t, NEW d, NEW D, DiskOK(l, E, T, t, d, D),
         NEW p \in Procs, NEW r, NEW T2, Becomes(T, T2, p, r), SameMaking(T[p], r, E),
         \A e : ~OnEntry(T[p], {"etrunc"}, e) /\ ~OnEntry(r, {"etrunc"}, e),
         NEW t2, NEW d2, FatOK(l, Heads(E, T2, D), t2), DatDom(d2), KeepsAll(t, t2, d, d2), LocalOK(r, E, t2, d2)
  PROVE  DiskOK(l, E, T2, t2, d2, D) /\ DirOf(t2, d2) = DirOf(t, d)
<1>1. \A x : Cut(T, x) <=> Cut(T2, x)
  BY CutSame
<1>2. \A x \in File : Made(T, x) <=> Made(T2, x)
  BY MadeSame DEF SameMaking
<1>3. SameBound(E, T, E, T2)
  BY <1>2 DEF SameBound, Bound
<1>4. \A x \in Entry : InMem(E[x]) /\ ~Cut(T, x) /\ Cl(E[x].first) => Keeps(t, t2, E[x].first)
  BY FileHead DEF KeepsAll
<1>5. Untouched(E, T, t, t2, d, d2, p)
  BY <1>4, KeptHeld DEF Untouched
<1>6. CurOK(E, T2, t2)
  <2>1. CurOK(E, T, t)
    BY DiskParts
  <2> SUFFICES ASSUME NEW x \in Entry, InMem(E[x]), Cl(E[x].first), ~Cut(T2, x)
               PROVE  At1(t2, E[x].first, E[x].cur, E[x].cnt)
    BY DEF CurOK
  <2>2. ~Cut(T, x)
    BY <1>1
  <2>3. Keeps(t, t2, E[x].first)
    BY <1>4, <2>2
  <2> QED BY <2>1, <2>2, <2>3, CurKept
<1>16. Mine(E, E, p)
  BY DEF Mine, Steady
<1>17. DirOK(E, T2, D)
  <2>1. \A x \in File : AlikeShort(E[x], E[x])
    BY DEF AlikeShort
  <2> QED BY <2>1, DiskParts, DirKept DEF SameMaking
<1>18. CacheOK(E, T2, D)
  <2>1. CacheOK(E, T, D)
    BY DiskParts
  <2> QED BY <1>3, <2>1, CacheKept DEF CacheOK
<1>19. NamesOK(l, D) /\ Sizes(E) /\ RootOK(E)
  BY DiskParts
<1>20. DiskOK(l, E, T2, t2, d2, D)
  BY <1>5, <1>6, <1>16, <1>17, <1>18, <1>19, DiskStep
<1>21. Keeps(t, t2, 2) /\ \A n \in Nat : Live(t, To(t, 2, n)) => d2[To(t, 2, n)] = d[To(t, 2, n)]
  BY RootHead DEF KeepsAll
<1>22. DirOf(t2, d2) = DirOf(t, d)
  BY <1>21, DirStill
<1> QED BY <1>20, <1>22

LEMMA DatPut ==
  ASSUME NEW d, DatDom(d), NEW c \in Cluster, NEW v, NEW d2, Puts1(d, c, v, d2)
  PROVE  DatDom(d2) /\ d2[c] = v /\ \A x \in Cluster : x # c => d2[x] = d[x]
<1>1. d = [x \in Cluster |-> d[x]] /\ d2 = [d EXCEPT ![c] = v]
  BY DEF DatDom, Puts1
<1>2. d2 = [x \in Cluster |-> IF x = c THEN v ELSE d[x]]
  BY <1>1
<1>3. d2[c] = v /\ (\A x \in Cluster : x # c => d2[x] = d[x]) /\ d2 = [x \in Cluster |-> d2[x]]
  BY ONLY <1>2, c \in Cluster
<1> QED BY <1>3 DEF DatDom
LEMMA LiveCluster == ASSUME NEW t, NEW c, Live(t, c) PROVE c \in Cluster /\ c \in 2..LAST
  BY Bounds DEF Live
\* the heads when a process gets hold of a chain, or lets it go
LEMMA HeldChange ==
  ASSUME NEW E, NEW T, NEW D, NEW p \in Procs, NEW r, NEW T2, Becomes(T, T2, p, r), SameMaking(T[p], r, E),
         \A e : ~OnEntry(T[p], {"etrunc"}, e) /\ ~OnEntry(r, {"etrunc"}, e)
  PROVE  /\ But(Heads(E, T, D), Heads(E, T2, D), Ip(p)) /\ Ip(p) \in Idx
         /\ Heads(E, T, D)[Ip(p)] = Held(T[p]) /\ Heads(E, T2, D)[Ip(p)] = Held(r)
<1> DEFINE h == Heads(E, T, D) h2 == Heads(E, T2, D)
<1>0. p \in Procs /\ Becomes(T, T2, p, r)
  OBVIOUS
<1>1. \A x : Cut(T, x) <=> Cut(T2, x)
  BY CutSame
<1>2. \A x \in File : Made(T, x) <=> Made(T2, x)
  BY MadeSame DEF SameMaking
<1>3. SameBound(E, T, E, T2)
  BY <1>2 DEF SameBound, Bound
<1>4. /\ \A g \in Nat : h2[Ig(g)] = h[Ig(g)]
      /\ \A q \in Procs : q # p => h2[Ip(q)] = h[Ip(q)]
      /\ h2[Ip(p)] = Held(r) /\ h[Ip(p)] = Held(T[p])
      /\ \A x \in Entry : h2[Ie(x)] = EntryHead(E, T2, x) /\ h[Ie(x)] = EntryHead(E, T, x)
  BY ONLY <1>0, <1>3, HeadsChange
<1>6. \A x \in Entry : EntryHead(E, T2, x) = EntryHead(E, T, x)
  BY <1>1 DEF EntryHead
<1> HIDE DEF h, h2
<1>7. But(h, h2, Ip(p))
  <2> SUFFICES ASSUME NEW z \in Idx, z # Ip(p) PROVE h2[z] = h[z]
    BY DEF But
  <2> QED BY <1>4, <1>6, IdxIs
<1> QED BY <1>4, <1>7, IdxIs DEF h, h2

\* alloc_clus() takes a cluster of the volume
LEMMA DiskTake ==
  ASSUME NEW l, NEW K, NEW E, NEW T, NEW F, CtlOK(l, K, E, T, F), NEW t, NEW d, NEW D, DiskOK(l, E, T, t, d, D),
         NEW p \in Procs, NEW r, NEW T2, Becomes(T, T2, p, r), SameMaking(T[p], r, E),
         \A e : ~OnEntry(T[p], {"etrunc"}, e) /\ ~OnEntry(r, {"etrunc"}, e), Held(T[p]) = 0,
         NEW c \in 2..LAST, t[c] = 0, NEW t2, Puts1(t, c, EOC, t2), NEW d2, Puts1(d, c, Zeros, d2), Held(r) = c,
         (t2[c] = EOC /\ d2[c] = Zeros /\ \A y \in Cluster : y # c => t2[y] = t[y]) => LocalOK(r, E, t2, d2)
  PROVE  DiskOK(l, E, T2, t2, d2, D) /\ DirOf(t2, d2) = DirOf(t, d)
<1> DEFINE h == Heads(E, T, D) h2 == Heads(E, T2, D)
<1>1. But(h, h2, Ip(p)) /\ Ip(p) \in Idx /\ h[Ip(p)] = 0 /\ h2[Ip(p)] = c
  BY HeldChange
<1>2. FatOK(l, h, t) /\ DatDom(d)
  BY DiskParts
<1>3. ~Cl(h[Ip(p)])
  BY <1>1, ClNot
<1> HIDE DEF h, h2
<1>4. /\ FatOK(l, h2, t2) /\ t2[c] = EOC
      /\ \A g : IsHead(t, g) => Keeps(t, t2, g) /\ g # c /\ \A n \in Nat : To(t, g, n) # c
      /\ \A y \in Cluster : y # c => t2[y] = t[y]
  BY <1>1, <1>2, <1>3, FatTake
<1>5. c \in Cluster
  BY Bounds
<1>6. DatDom(d2) /\ d2[c] = Zeros /\ \A x \in Cluster : x # c => d2[x] = d[x]
  BY <1>2, <1>5, DatPut
<1>7. KeepsAll(t, t2, d, d2)
  BY <1>4, <1>6, LiveCluster DEF KeepsAll
<1>8. LocalOK(r, E, t2, d2)
  BY <1>4, <1>6
<1>9. FatOK(l, Heads(E, T2, D), t2)
  BY <1>4 DEF h2
<1> QED BY <1>6, <1>7, <1>8, <1>9, DiskKeeps

\* the entry that gets a cluster
LEMMA GrowsAt ==
  ASSUME FInv, NEW p \in Procs, todo[p] # <<>>, todo[p][1].op \in {"alloc", "link"}
  PROVE  LET i == todo[p][1] IN
         /\ i.e \in Entry /\ ent[i.e].lock = p /\ InMem(ent[i.e]) /\ ~Cut(todo, i.e)
         /\ LocalOK(todo[p], ent, fat, data) /\ Shaped(i) /\ GrowOK(i, ent, fat) /\ SeqOK(todo[p]) /\ Begins(todo[p], 1)
         /\ i.how = "more" => ent[i.e].cur \in 2..LAST /\ At1(fat, ent[i.e].first, ent[i.e].cur, ent[i.e].cnt)
<1> DEFINE i == todo[p][1]
<1>1. CtlOK(load, calls, ent, todo, file) /\ DiskOK(load, ent, todo, fat, data, Dir)
  BY DEF FInv, Ctl, Disk
<1>2. RootOK(ent) /\ CurOK(ent, todo, fat) /\ LocalOK(todo[p], ent, fat, data)
  BY <1>1, DiskParts
<1>3. i.e \in Entry /\ ent[i.e].lock = p
  BY <1>1, HeadLocked DEF NeedsLock
<1>4. InMem(ent[i.e])
  BY <1>1, <1>2, <1>3, LockedIs
<1>5. ~OnEntry(todo[p], {"etrunc"}, i.e)
  BY DEF OnEntry
<1>6. ~Cut(todo, i.e)
  BY <1>3, <1>5, NotCut
<1>7. Shaped(i) /\ GrowOK(i, ent, fat)
  BY <1>2 DEF LocalOK
<1>8. SeqOK(todo[p]) /\ Begins(todo[p], 1)
  BY <1>1, Ready, FirstIs
<1>9. i.how = "more" => ent[i.e].cur \in 2..LAST /\ At1(fat, ent[i.e].first, ent[i.e].cur, ent[i.e].cnt)
  <2>1. i.how = "more" => Cl(ent[i.e].first)
    BY <1>7 DEF GrowOK
  <2>2. i.how = "more" => At1(fat, ent[i.e].first, ent[i.e].cur, ent[i.e].cnt)
    BY <1>2, <1>3, <1>4, <1>6, <2>1 DEF CurOK
  <2> QED BY <2>2 DEF At1, Live
<1> QED BY <1>2, <1>3, <1>4, <1>6, <1>7, <1>8, <1>9

LEMMA DoAllocTake ==
  ASSUME FInv, NEW p \in Procs, At(p, "alloc"), NEW c \in LowestFree(Now(p).sec), c <= LAST,
         NEW y, SetLink(Now(p), c, y), Push(p, <<y>>), Puts1(fat, c, EOC, fat'), Puts1(data, c, Zeros, data'),
         UNCHANGED <<load, calls, ent, file>>
  PROVE  FInv'
<1> DEFINE s == todo[p]
<1> DEFINE i == s[1]
<1>1. Ctl /\ CtlOK(load, calls, ent, todo, file) /\ DiskOK(load, ent, todo, fat, data, Dir)
  BY DEF FInv, Ctl, Disk
<1>3. s # <<>> /\ i.op = "alloc" /\ Now(p) = i /\ SeqOK(s)
  BY <1>1, AtIs
<1>4. /\ i.e \in Entry /\ Shaped(i) /\ GrowOK(i, ent, fat) /\ Begins(s, 1)
      /\ i.how = "more" => ent[i.e].cur \in 2..LAST
  BY <1>3, GrowsAt
<1>5. fat[c] = 0 /\ c \in Cluster /\ c \in 2..LAST
  <2>1. i.sec \in 0..(FATSZ - 1) /\ c \in LowestFree(i.sec)
    BY <1>3, <1>4 DEF Begins
  <2>2. TabDom(fat)
    BY <1>1, DiskParts DEF FatOK
  <2>3. fat[c] = 0 /\ c \in Cluster /\ c >= 2
    BY <2>1, <2>2, FreeIs
  <2>4. c \in Nat /\ LAST \in Nat
    BY <2>3, Bounds
  <2> QED BY <2>3, <2>4
<1>6. y.op = "link" /\ y.e = i.e /\ y.sec = c /\ y.how = i.how /\ Shaped(y)
  BY <1>3, <1>4, SetSecIs
<1>7. Turns(i, y)
  BY <1>3, <1>5, <1>6 DEF Turns
<1>8. PICK r : Puts(r, <<y>>, s) /\ Becomes(todo, todo', p, r)
  BY <1>1, <1>3, Tup1, DoPush
<1>9. CtlOK(load, calls, ent, todo', file)
  <2>1. Puts(r, <<y>>, todo[p]) /\ Turns(todo[p][1], y) /\ todo[p] # <<>>
    BY <1>3, <1>7, <1>8
  <2> HIDE DEF s, i
  <2> QED BY <1>1, <1>8, <2>1, CtlTurn
<1>10. /\ r # <<>> /\ r[1] = y /\ SameMaking(s, r, ent) /\ Held(s) = 0 /\ Held(r) = c
       /\ \A e : ~OnEntry(s, {"etrunc"}, e) /\ ~OnEntry(r, {"etrunc"}, e)
  BY <1>3, <1>6, <1>8, AllocTurns
<1>11. ASSUME fat'[c] = EOC /\ data'[c] = Zeros /\ \A x \in Cluster : x # c => fat'[x] = fat[x]
       PROVE  LocalOK(r, ent, fat', data')
  <2>1. GrowOK(y, ent, fat')
    <3>1. CASE i.how # "more"
      BY <3>1, <1>4, <1>6 DEF GrowOK
    <3>2. CASE i.how = "more"
      <4>1. Cl(ent[i.e].first) /\ fat[ent[i.e].cur] = EOC
        BY <3>2, <1>4 DEF GrowOK
      <4>2. ent[i.e].cur \in Cluster /\ ent[i.e].cur # c
        BY <3>2, <4>1, <1>4, <1>5, Bounds
      <4>3. fat'[ent[i.e].cur] = EOC
        BY <4>1, <4>2, <1>11
      <4> QED BY <3>2, <4>1, <4>3, <1>6 DEF GrowOK
    <3> QED BY <3>1, <3>2
  <2> HIDE DEF s, i
  <2> QED BY <1>6, <1>10, <1>11, <2>1 DEF LocalOK
<1>12. Puts1(fat, c, EOC, fat') /\ Puts1(data, c, Zeros, data')
  OBVIOUS
<1>13. DiskOK(load, ent, todo', fat', data', Dir) /\ DirOf(fat', data') = DirOf(fat, data)
  <2>1. SameMaking(todo[p], r, ent) /\ Held(todo[p]) = 0 /\ \A e : ~OnEntry(todo[p], {"etrunc"}, e) /\ ~OnEntry(r, {"etrunc"}, e)
    BY <1>10
  <2> HIDE DEF s, i
  <2> QED BY <1>1, <1>5, <1>8, <1>10, <1>11, <1>12, <2>1, DiskTake
<1>14. Dir' = Dir
  BY <1>13 DEF Dir
<1>15. load' = load /\ CtlOK(load, calls', ent', todo', file') /\ DiskOK(load, ent', todo', fat', data', Dir)
  BY <1>9, <1>13
<1> QED BY <1>14, <1>15, NextMoved

\* it takes one that the volume has not
LEMMA DoAllocPast ==
  ASSUME FInv, NEW p \in Procs, At(p, "alloc"), NEW c \in LowestFree(Now(p).sec), ~(c <= LAST),
         Puts1(fat, c, EOC, fat'), Puts1(data, c, Zeros, data'), UNCHANGED <<load, calls, ent, file, todo>>
  PROVE  FInv'
<1> DEFINE s == todo[p]
<1> DEFINE i == s[1]
<1>1. Ctl /\ CtlOK(load, calls, ent, todo, file) /\ DiskOK(load, ent, todo, fat, data, Dir)
  BY DEF FInv, Ctl, Disk
<1>3. s # <<>> /\ i.op = "alloc" /\ Now(p) = i /\ SeqOK(s)
  BY <1>1, AtIs
<1>4. /\ i.e \in Entry /\ Shaped(i) /\ GrowOK(i, ent, fat) /\ Begins(s, 1)
      /\ i.how = "more" => ent[i.e].cur \in 2..LAST
  BY <1>3, GrowsAt
<1>5. c \in Cluster /\ c > LAST
  <2>1. i.sec \in 0..(FATSZ - 1) /\ c \in LowestFree(i.sec)
    BY <1>3, <1>4 DEF Begins
  <2>2. TabDom(fat)
    BY <1>1, DiskParts DEF FatOK
  <2>3. c \in Cluster
    BY <2>1, <2>2, FreeIs
  <2>4. c \in Nat /\ LAST \in Nat
    BY <2>3, Bounds
  <2> QED BY <2>3, <2>4
<1>6. FatOK(load, Heads(ent, todo, Dir), fat) /\ DatDom(data)
  BY <1>1, DiskParts
<1>7. /\ FatOK(load, Heads(ent, todo, Dir), fat') /\ (\A x \in 2..LAST : fat'[x] = fat[x])
      /\ \A g : IsHead(fat, g) => Keeps(fat, fat', g)
  BY <1>5, <1>6, FatPast
<1>8. DatDom(data') /\ \A x \in Cluster : x # c => data'[x] = data[x]
  BY <1>5, <1>6, DatPut
<1>9. KeepsAll(fat, fat', data, data')
  <2>1. \A x : Live(fat, x) => x \in Cluster /\ x # c
    BY <1>5, LiveCluster
  <2> QED BY <2>1, <1>7, <1>8 DEF KeepsAll
<1>10. LocalOK(s, ent, fat', data')
  <2>1. GrowOK(i, ent, fat')
    BY <1>4, <1>7 DEF GrowOK
  <2> HIDE DEF i, s
  <2> QED BY <1>3, <1>4, <2>1 DEF LocalOK, i
<1>11. \A e : ~OnEntry(s, {"etrunc"}, e)
  BY <1>3 DEF OnEntry
<1>12. SameMaking(s, s, ent)
  BY DEF SameMaking
<1>13. Becomes(todo, todo, p, s)
  BY <1>1, Ready
<1>14. DiskOK(load, ent, todo, fat', data', Dir) /\ DirOf(fat', data') = DirOf(fat, data)
  <2>1. SameMaking(todo[p], todo[p], ent) /\ Becomes(todo, todo, p, todo[p]) /\ LocalOK(todo[p], ent, fat', data')
        /\ \A e : ~OnEntry(todo[p], {"etrunc"}, e)
    BY <1>10, <1>11, <1>12, <1>13
  <2> HIDE DEF s, i
  <2> QED BY <1>1, <1>7, <1>8, <1>9, <2>1, DiskKeeps
<1>15. Dir' = Dir
  BY <1>14 DEF Dir
<1>16. load' = load /\ CtlOK(load, calls', ent', todo', file') /\ DiskOK(load, ent', todo', fat', data', Dir)
  BY <1>1, <1>14
<1> QED BY <1>15, <1>16, NextMoved

LEMMA DoAlloc == ASSUME FInv, NEW p \in Procs, Alloc(p) PROVE FInv'
<1> DEFINE i == Now(p)
<1>1. At(p, "alloc") /\ UNCHANGED <<load, calls, ent, file>>
  BY DEF Alloc
<1>2. CASE LowestFree(i.sec) # {}
  <2>1. PICK c \in LowestFree(i.sec) :
          /\ fat' = [fat EXCEPT ![c] = EOC] /\ data' = [data EXCEPT ![c] = Zeros]
          /\ IF c <= LAST THEN Push(p, <<[i EXCEPT !.op = "link", !.sec = c]>>) /\ UNCHANGED panicked
             ELSE panicked' = "past the last cluster" /\ UNCHANGED todo
    BY <1>2 DEF Alloc
  <2>2. Puts1(fat, c, EOC, fat') /\ Puts1(data, c, Zeros, data')
    BY <2>1 DEF Puts1
  <2>3. CASE c <= LAST
    <3> DEFINE y == [i EXCEPT !.op = "link", !.sec = c]
    <3>1. SetLink(i, c, y) /\ Push(p, <<y>>)
      BY <2>1, <2>3 DEF SetLink
    <3> HIDE DEF y
    <3> QED BY <1>1, <2>1, <2>2, <2>3, <3>1, DoAllocTake
  <2>4. CASE ~(c <= LAST)
    BY <1>1, <2>1, <2>2, <2>4, DoAllocPast
  <2> QED BY <2>3, <2>4
<1>3. CASE LowestFree(i.sec) = {}
  <2>1. /\ IF i.sec + 1 < FATSZ THEN Push(p, <<[i EXCEPT !.sec = @ + 1]>>) /\ UNCHANGED panicked
           ELSE panicked' = "no clusters" /\ UNCHANGED todo
        /\ UNCHANGED <<fat, data>>
    BY <1>3 DEF Alloc
  <2>2. CASE i.sec + 1 < FATSZ
    <3> DEFINE y == [i EXCEPT !.sec = i.sec + 1]
    <3>1. SetSec(i, i.sec + 1, y) /\ Push(p, <<y>>)
      BY <2>1, <2>2 DEF SetSec
    <3> HIDE DEF y
    <3> QED BY <1>1, <2>1, <2>2, <3>1, DoAllocNext
  <2>3. CASE ~(i.sec + 1 < FATSZ)
    BY <1>1, <2>1, <2>3, SameInv
  <2> QED BY <2>2, <2>3
<1> QED BY <1>2, <1>3
=============================================================================
