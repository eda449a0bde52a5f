------------------------------ MODULE Fat_proof ------------------------------
(***************************************************************************)
(* The volume of Fat.tla, second half: the other steps keep the invariant  *)
(* of FatSteps.tla, the initial states have it, and it says that chains    *)
(* are disjoint, that the directory is right and that no cluster is lost.  *)
(***************************************************************************)
EXTENDS FatSteps

\* the entry x gets its first cluster c
FirstPut(x, c, b, y) == y = [x EXCEPT !.first = c, !.cur = c, !.cnt = 0, !.dirty = b]
HasFirst(x, y, c) ==
  /\ y.first = c /\ y.cur = c /\ y.cnt = 0 /\ y.valid = x.valid /\ y.ref = x.ref /\ y.name = x.name /\ y.off = x.off
  /\ y.size = x.size /\ y.dir = x.dir /\ y.lock = x.lock
LEMMA FirstPutIs ==
  ASSUME NEW x, IsEntry(x), NEW c, NEW b \in BOOLEAN, NEW y, FirstPut(x, c, b, y)
  PROVE  IsEntry(y) /\ HasFirst(x, y, c) /\ (b = FALSE => Clean(y)) /\ (b = TRUE => ~Clean(y))
<1>0. FirstPut(x, c, b, y) /\ IsEntry(x)
  OBVIOUS
<1> DEFINE z1 == [x EXCEPT !.first = c]
<1> DEFINE z2 == [z1 EXCEPT !.cur = c]
<1> DEFINE z3 == [z2 EXCEPT !.cnt = 0]
<1>1. z1 = [name |-> x.name, dir |-> x.dir, first |-> c, size |-> x.size, cur |-> x.cur, cnt |-> x.cnt,
           dirty |-> x.dirty, valid |-> x.valid, ref |-> x.ref, off |-> x.off, lock |-> x.lock]
  BY DEF IsEntry, IsEnt
<1>2. y = [z3 EXCEPT !.dirty = b]
  BY <1>0 DEF FirstPut
<1> HIDE DEF z1
<1>3. z2 = [name |-> x.name, dir |-> x.dir, first |-> c, size |-> x.size, cur |-> c, cnt |-> x.cnt,
           dirty |-> x.dirty, valid |-> x.valid, ref |-> x.ref, off |-> x.off, lock |-> x.lock]
  BY ONLY <1>1
<1> HIDE DEF z2
<1>4. z3 = [name |-> x.name, dir |-> x.dir, first |-> c, size |-> x.size, cur |-> c, cnt |-> 0,
           dirty |-> x.dirty, valid |-> x.valid, ref |-> x.ref, off |-> x.off, lock |-> x.lock]
  BY ONLY <1>3
<1> HIDE DEF z3
<1>5. y = [name |-> x.name, dir |-> x.dir, first |-> c, size |-> x.size, cur |-> c, cnt |-> 0,
           dirty |-> b, valid |-> x.valid, ref |-> x.ref, off |-> x.off, lock |-> x.lock]
  BY ONLY <1>2, <1>4
<1>6. HasFirst(x, y, c) /\ IsEnt(y) /\ y.dirty = b
  BY ONLY <1>5 DEF HasFirst, IsEnt
<1>7. IsEntry(y)
  BY ONLY <1>0, <1>6, b \in BOOLEAN DEF HasFirst, IsEntry
<1>8. (b = FALSE => Clean(y)) /\ (b = TRUE => ~Clean(y))
  BY ONLY <1>6 DEF Clean
<1> QED BY <1>6, <1>7, <1>8

LEMMA DiskFirst ==
  ASSUME NEW l, NEW K, NEW E, NEW T, NEW F, CtlOK(l, K, E, T, F), NEW t, NEW d, NEW D, DiskOK(l, E, T, t, d, D),
         NEW p \in Procs, NEW r, NEW T2, Becomes(T, T2, p, r), \A x \in File : Creating(r, x) <=> Creating(T[p], x),
         \A x : ~OnEntry(T[p], {"etrunc"}, x) /\ ~OnEntry(r, {"etrunc"}, x),
         NEW e \in File, E[e].lock = p, InMem(E[e]), ~Cut(T, e), E[e].first = 0, E[e].ref > 0,
         NEW c, Cl(c), Held(T[p]) = c, Held(r) = 0,
         NEW E2, EntDom(E2), HasFirst(E[e], E2[e], c), \A x \in Entry : x # e => E2[x] = E[x],
         E2[e].valid = 1 => ~Clean(E2[e]), DirOK(E2, T2, D), LocalOK(r, E2, t, d)
  PROVE  DiskOK(l, E2, T2, t, d, D)
<1> DEFINE h == Heads(E, T, D) h2 == Heads(E2, T2, D)
<1>0. p \in Procs /\ Becomes(T, T2, p, r) /\ e \in Entry /\ e # Root
  BY FileEntry
<1>1. \A x : Cut(T, x) <=> Cut(T2, x)
  BY CutSame
<1>2. \A x \in File : Made(T, x) <=> Made(T2, x)
  <2> TAKE x \in File
  <2>1. Creating(T[p], x) <=> Creating(r, x)
    OBVIOUS
  <2> QED BY ONLY <1>0, <2>1, MadeSame
<1>3. SameBound(E, T, E2, T2)
  BY <1>2, FileEntry DEF SameBound, Bound, HasFirst
<1>4. /\ \A g \in Nat : h2[Ig(g)] = h[Ig(g)]
      /\ \A q \in Procs : q # p => h2[Ip(q)] = h[Ip(q)]
      /\ h2[Ip(p)] = Held(r) /\ h[Ip(p)] = Held(T[p])
      /\ \A x \in Entry : h2[Ie(x)] = EntryHead(E2, T2, x) /\ h[Ie(x)] = EntryHead(E, T, x)
  BY ONLY <1>0, <1>3, HeadsChange
<1>5. \A x \in Entry : x # e => EntryHead(E2, T2, x) = EntryHead(E, T, x)
  BY <1>1 DEF EntryHead
<1>6. EntryHead(E, T, e) = 0 /\ EntryHead(E2, T2, e) = c
  BY <1>1 DEF EntryHead, HasFirst, InMem
<1>7. FatOK(l, h, t) /\ IsHead(t, c)
  BY DiskParts, HeldHead
<1>8. FatOK(l, h2, t)
  <2> HIDE DEF h, h2
  <2>1. Moves(h, h2, Ip(p), Ie(e))
    <3> SUFFICES ASSUME NEW z \in Idx, z # Ip(p), z # Ie(e) PROVE h2[z] = h[z]
      BY DEF Moves
    <3> QED BY <1>4, <1>5, IdxIs
  <2>2. Ip(p) \in Idx /\ Ie(e) \in Idx /\ Ip(p) # Ie(e)
    BY <1>0, IdxIs, IdxApart
  <2>3. ~Cl(h[Ie(e)]) /\ h2[Ie(e)] = h[Ip(p)] /\ h2[Ip(p)] \in {0, EOC}
    BY <1>0, <1>4, <1>6, ClNot
  <2> QED BY <1>7, <2>1, <2>2, <2>3, FatMove
<1>9. Mine(E, E2, p)
  BY DEF Mine, Steady
<1>10. Untouched(E, T, t, t, d, d, p)
  BY KeepsSame
<1>11. CurOK(E2, T2, t)
  <2>1. CurOK(E, T, t)
    BY DiskParts
  <2>2. At1(t, c, c, 0)
    <3>1. To(t, c, 0) = c
      BY ToIs
    <3> QED BY <3>1, <1>7 DEF At1, IsHead
  <2> SUFFICES ASSUME NEW x \in Entry, InMem(E2[x]), Cl(E2[x].first), ~Cut(T2, x)
               PROVE  At1(t, E2[x].first, E2[x].cur, E2[x].cnt)
    BY DEF CurOK
  <2>3. CASE x = e
    BY <2>2, <2>3 DEF HasFirst
  <2>4. CASE x # e
    BY <2>1, <2>4, <1>1 DEF CurOK
  <2> QED BY <2>3, <2>4
<1>12. Sizes(E2)
  <2>1. Sizes(E) /\ c # 0
    BY DiskParts, ClNot
  <2> QED BY <2>1, <1>0 DEF Sizes, HasFirst
<1>13. RootOK(E2)
  BY <1>0, FileEntry, DiskParts DEF RootOK
<1>14. CacheOK(E2, T2, D)
  <2>1. CacheOK(E, T, D)
    BY DiskParts
  <2>2. ASSUME NEW x \in File, E2[x].valid = 1 PROVE InStep(E2[x], D)
    <3>1. CASE x = e
      <4>1. E[e].valid = 1 /\ InStep(E[e], D)
        BY <2>1, <2>2, <3>1 DEF CacheOK, HasFirst
      <4> QED BY <4>1, <2>2, <3>1 DEF InStep, HasFirst
    <3>2. CASE x # e
      <4>1. E2[x] = E[x]
        BY <3>2, FileEntry
      <4> QED BY <4>1, <2>1, <2>2 DEF CacheOK
    <3> QED BY <3>1, <3>2
  <2> QED BY <2>1, <2>2, <1>3, CacheKept
<1>15. DatDom(d) /\ NamesOK(l, D)
  BY DiskParts
<1> QED BY <1>8, <1>9, <1>10, <1>11, <1>12, <1>13, <1>14, <1>15, DiskStep DEF h2

\* a process that needs a cluster, or fills one, writes a file or makes one
LEMMA MakesOne ==
  ASSUME NEW s, SeqOK(s), NEW k \in 1..Len(s), MakeStep(s[k]) \/ s[k].op = "emake"
  PROVE  \E e \in File : Creating(s, e)
<1>1. Goes2(s, k)
  BY DEF SeqOK
<1>2. PICK v \in (k+1)..Len(s) : s[v].op = "valid"
  BY <1>1 DEF Goes2
<1>3. v \in 1..Len(s) /\ Whole(s, v)
  <2>1. Len(s) \in Nat
    BY DEF SeqOK, IsSeq
  <2>2. v \in 1..Len(s)
    BY <2>1
  <2> QED BY <2>2 DEF SeqOK
<1>4. s[v].e \in File
  BY <1>2, <1>3 DEF Whole, OnFile, File
<1> QED BY <1>2, <1>3, <1>4 DEF Creating, Has
LEMMA WhoWrites ==
  ASSUME FInv, NEW p \in Procs, todo[p] # <<>>, todo[p][1].op \in {"alloc", "link", "store"}
  PROVE  LET i == todo[p][1] IN
         \/ WritesFile(todo[p], i.e) /\ i.e # Root /\ i.e \in File
         \/ \E e \in File : Creating(todo[p], e) /\ i.e \in {e, Root}
<1> DEFINE s == todo[p]
<1> DEFINE i == s[1]
<1>1. CtlOK(load, calls, ent, todo, file)
  BY DEF FInv, Ctl
<1>2. SeqOK(s) /\ Whole(s, 1) /\ Begins(s, 1) /\ 1 \in 1..Len(s)
  BY <1>1, Ready, FirstIs
<1>3. ASSUME \E e \in File : Creating(s, e) PROVE \E e \in File : Creating(s, e) /\ i.e \in {e, Root}
  BY <1>1, <1>3, MakerIs DEF MakerOK
<1>4. CASE i.op = "store"
  <2>1. CASE UserStep(i)
    <3>1. i.e # Root /\ i.e \in File
      BY <1>2, <1>4, <2>1 DEF Whole, File
    <3> QED BY <3>1, <2>1 DEF WritesFile
  <2>2. CASE MakeStep(i)
    BY <1>2, <1>3, <2>2, MakesOne
  <2> QED BY <1>2, <1>4, <2>1, <2>2 DEF Whole
<1>5. CASE i.op \in {"alloc", "link"}
  <2>0. i.e \in Entry
    BY <1>2, <1>5 DEF Whole
  <2>1. CASE Writes(s, 2, i.e)
    <3>1. i.e # Root
      <4>1. 2 \in 1..Len(s) /\ s[2].e = i.e /\ (s[2].op = "wrote" \/ UserStep(s[2]))
        BY <2>1 DEF Writes, Is
      <4>2. Whole(s, 2)
        BY <4>1, <1>2 DEF SeqOK
      <4> QED BY <4>1, <4>2 DEF Whole, OnFile
    <3> QED BY <2>0, <2>1, <3>1, <1>5 DEF WritesFile, File
  <2>2. CASE ~Writes(s, 2, i.e)
    <3>1. Is(s, 2, "store", i.e) \/ Is(s, 2, "emake", i.e)
      BY <1>2, <1>5, <2>2 DEF Begins
    <3>2. 2 \in 1..Len(s) /\ Whole(s, 2)
      BY <3>1, <1>2 DEF Is, SeqOK
    <3>3. MakeStep(s[2]) \/ s[2].op = "emake"
      BY <2>2, <3>1, <3>2 DEF Is, Writes, Whole
    <3> QED BY <1>2, <1>3, <3>2, <3>3, MakesOne
  <2> QED BY <2>1, <2>2
<1> QED BY <1>4, <1>5

\* what follows when a process pops a step of making
LEMMA PopMaking ==
  ASSUME NEW s, SeqOK(s), s # <<>>, s[1].op # "valid", NEW r, Pops(r, s)
  PROVE  /\ \A x : Creating(r, x) <=> Creating(s, x)
         /\ Len(s) \in Nat /\ Len(s) >= 1 /\ (r # <<>> <=> Len(s) >= 2) /\ (Len(s) >= 2 => r[1] = s[2])
<1>1. Len(s) \in Nat /\ Len(s) >= 1
  BY FirstIs
<1>2. Len(r) = Len(s) - 1 /\ (r # <<>> <=> Len(s) >= 2) /\ \A k \in 1..(Len(s) - 1) : r[k] = s[k + 1]
  BY PopIs
<1>3. Len(s) >= 2 => r[1] = s[2]
  <2>1. Len(s) >= 2 => 1 \in 1..(Len(s) - 1)
    BY <1>1
  <2> QED BY <1>2, <2>1
<1>4. \A x : Creating(r, x) <=> Creating(s, x)
  BY PopHas DEF Creating
<1> QED BY <1>1, <1>2, <1>3, <1>4
LEMMA PartNone ==
  ASSUME NEW D, NEW off, NEW nm, NEW sh, Partly(D, off, off, nm, sh), NEW sh2
  PROVE  Partly(D, off, off, nm, sh2)
<1>1. off..(off - 1) = {}
  BY DEF Partly
<1> QED BY <1>1 DEF Partly

LEMMA DirOKFirst ==
  ASSUME NEW l, NEW K, NEW E, NEW T, NEW F, CtlOK(l, K, E, T, F), NEW D, DirOK(E, T, D),
         NEW p \in Procs, NEW r, NEW T2, Becomes(T, T2, p, r), NEW e \in File, Creating(T[p], e),
         \A x \in File : Creating(r, x) <=> Creating(T[p], x),
         NEW E2, \A x \in Entry : x # e => E2[x] = E[x], E2[e].off = E[e].off, E2[e].name = E[e].name,
         WrittenTo(T[p], E[e]) = E[e].off, WrittenTo(r, E2[e]) = E2[e].off
  PROVE  DirOK(E2, T2, D)
<1>1. /\ \A x \in File : x # e => ~Creating(T[p], x)
      /\ E[e].lock = p
  BY MakerIs DEF MakerOK
<1>2. \A q \in Procs, x \in File : Creating(T2[q], x) <=> Creating(T[q], x)
  <2> TAKE q \in Procs, x \in File
  <2>1. Creating(T[p], x) <=> Creating(r, x)
    OBVIOUS
  <2>2. Becomes(T, T2, p, r)
    OBVIOUS
  <2> QED BY ONLY <2>1, <2>2, p \in Procs, MadeSame
<1>3. ~(\A q \in Procs, x \in File : ~Creating(T2[q], x))
  BY <1>2
<1>4. ASSUME NEW q \in Procs, NEW x \in File, Creating(T2[q], x) PROVE MadeSoFar(D, E2[x], T2[q])
  <2>1. Creating(T[q], x) /\ MadeSoFar(D, E[x], T[q])
    BY <1>2, <1>4 DEF DirOK
  <2>2. CASE x = e
    <3>1. E[e].lock = q
      BY <2>1, <2>2, MakerIs
    <3>2. q = p
      BY <1>1, <3>1
    <3>3. Partly(D, E[e].off, E[e].off, E[e].name, Short(<<>>, E[e])) /\ E[e].off >= 2
          /\ \A g \in Groups(D) : g # E[e].off => GName(D, g) # E[e].name
      BY <2>1, <2>2, <3>2 DEF MadeSoFar
    <3>4. Partly(D, E[e].off, E[e].off, E[e].name, Short(<<>>, E2[e]))
      BY <3>3, PartNone
    <3>5. T2[q] = r
      BY <3>2 DEF Becomes
    <3> QED BY <2>2, <3>3, <3>4, <3>5 DEF MadeSoFar
  <2>3. CASE x # e
    <3>1. q # p
      BY <1>1, <2>1, <2>3
    <3>2. T2[q] = T[q]
      BY <3>1 DEF Becomes
    <3>3. E2[x] = E[x]
      BY <2>3, FileEntry
    <3> QED BY <2>1, <3>2, <3>3
  <2> QED BY <2>2, <2>3
<1> QED BY <1>3, <1>4 DEF DirOK

LEMMA DoLinkFirst ==
  ASSUME FInv, NEW p \in Procs, At(p, "link"), Now(p).how # "more", Link_First(p), Pop(p),
         UNCHANGED <<load, calls, data, file>>
  PROVE  FInv'
<1> DEFINE s == todo[p]
<1> DEFINE i == s[1]
<1> DEFINE e == i.e
<1> DEFINE c == i.sec
<1> DEFINE x == ent[e]
<1> DEFINE b == i.how = "write"
<1> DEFINE y == [x EXCEPT !.first = c, !.cur = c, !.cnt = 0, !.dirty = b]
<1>1. Ctl /\ CtlOK(load, calls, ent, todo, file) /\ DiskOK(load, ent, todo, fat, data, Dir)
  BY DEF FInv, Ctl, Disk
<1>2. s # <<>> /\ i.op = "link" /\ Now(p) = i /\ SeqOK(s)
  BY <1>1, AtIs
<1>3. ent' = [ent EXCEPT ![e] = y] /\ UNCHANGED fat
  BY <1>2 DEF Link_First
<1>4. /\ e \in Entry /\ x.lock = p /\ InMem(x) /\ ~Cut(todo, e) /\ LocalOK(s, ent, fat, data) /\ GrowOK(i, ent, fat)
      /\ Begins(s, 1)
  BY <1>2, GrowsAt
<1>5. i.how \in {"dir", "write"} /\ x.first = 0 /\ e # Root /\ e \in File /\ c \in 2..LAST
      /\ (i.how = "dir" => Is(s, 2, "emake", e)) /\ (i.how = "write" => Writes(s, 2, e))
  <2>1. i.how \in {"dir", "write"}
    BY <1>2, <1>4 DEF Begins
  <2> QED BY <2>1, <1>2, <1>4 DEF Begins, GrowOK, File
<1>6. EntDom(ent) /\ IsEntry(x)
  BY <1>1, <1>4, TodoIs, EntIs
<1>7. b \in BOOLEAN /\ FirstPut(x, c, b, y) /\ Puts1(ent, e, y, ent')
  BY <1>3 DEF FirstPut, Puts1
<1> HIDE DEF y
<1>8. IsEntry(y) /\ HasFirst(x, y, c) /\ (b = FALSE => Clean(y)) /\ (b = TRUE => ~Clean(y))
  <2> HIDE DEF b, x, c
  <2> QED BY <1>6, <1>7, FirstPutIs
<1>9. EntDom(ent') /\ ent'[e] = y /\ \A z \in Entry : z # e => ent'[z] = ent[z]
  <2>1. EntDom(ent) /\ e \in Entry /\ IsEntry(y)
    BY <1>4, <1>6, <1>8
  <2> QED BY ONLY <1>7, <2>1, EntSet
<1>10. PICK r : Pops(r, s) /\ Becomes(todo, todo', p, r)
  BY <1>1, <1>2, DoPop
<1>11. /\ \A z : Creating(r, z) <=> Creating(s, z)
       /\ Len(s) \in Nat /\ (r # <<>> <=> Len(s) >= 2) /\ (Len(s) >= 2 => r[1] = s[2])
  BY <1>2, <1>10, PopMaking
<1>12. 2 \in 1..Len(s) /\ s[2].e = e /\ s[2].op \in {"emake", "wrote", "store"}
       /\ (i.how = "dir" => s[2].op = "emake") /\ (i.how = "write" => s[2].op \in {"wrote", "store"})
  BY <1>5 DEF Is, Writes
<1>13. r # <<>> /\ r[1] = s[2]
  BY <1>11, <1>12
<1>14. Held(s) = c /\ Held(r) = 0 /\ Cl(c) /\ \A z : ~OnEntry(s, {"etrunc"}, z) /\ ~OnEntry(r, {"etrunc"}, z)
  BY <1>2, <1>5, <1>12, <1>13 DEF Held, OnEntry, Cl
<1>15. LocalOK(r, ent', fat, data)
  <2>1. ent'[e].first = c /\ c # 0
    BY <1>8, <1>9, <1>14, ClNot DEF HasFirst
  <2>2. r[1].op \in {"emake", "wrote", "store"} /\ r[1].e = e
    BY <1>12, <1>13
  <2> HIDE DEF e, c
  <2> QED BY <1>13, <1>14, <2>1, <2>2 DEF LocalOK, Shaped
<1>16. CASE i.how = "write"
  <2>1. WritesFile(s, e)
    BY <1>2, <1>5, <1>16 DEF WritesFile
  <2>2. Works(ent, ent', e)
    <3>1. \A z \in Entry : ent'[z].lock = ent[z].lock /\ (z # e => Alike(ent[z], ent'[z]))
      BY <1>8, <1>9 DEF Alike, HasFirst
    <3> QED BY <3>1, <1>8, <1>9 DEF Works, HasFirst
  <2>3. WritesFile(todo[p], e) /\ todo[p][1].op # "ewrite" /\ Pops(r, todo[p])
    BY <2>1, <1>2, <1>10
  <2>4. CtlOK(load, calls, ent', todo', file)
    <3> HIDE DEF s, i, e
    <3> QED BY <1>1, <1>10, <2>2, <2>3, CtlWritePop
  <2>5. (\A d \in File : ~Creating(s, d)) /\ x.valid # 0 /\ x.ref > 0
    <3> HIDE DEF i, e
    <3> QED BY <1>1, <2>3, WriterIs DEF x
  <2>6. DirOK(ent', todo', Dir)
    <3>1. \A z \in File : ~Creating(r, z)
      BY <1>11, <2>5
    <3>2. \A z \in File : Made(todo, z) => AlikeShort(ent[z], ent'[z])
      <4> TAKE z \in File
      <4>1. HAVE Made(todo, z)
      <4>2. ent[z].valid = 0
        BY <4>1, <1>1 DEF Made, CtlOK, States
      <4>3. z # e /\ z \in Entry
        BY <2>5, <4>2, FileEntry
      <4>4. ent'[z] = ent[z]
        BY <4>3, <1>9
      <4> QED BY <4>4 DEF AlikeShort
    <3>3. DirOK(ent, todo, Dir)
      BY <1>1, DiskParts
    <3>4. \A z \in File : Creating(r, z) <=> Creating(todo[p], z)
      BY <1>11
    <3>5. \A z \in File : Creating(r, z) => WrittenTo(r, ent[z]) = WrittenTo(todo[p], ent[z])
      BY <3>1
    <3> HIDE DEF s, i, e
    <3> QED BY ONLY <1>10, <3>2, <3>3, <3>4, <3>5, p \in Procs, DirKept
  <2>7. ent'[e].valid = 1 => ~Clean(ent'[e])
    BY <1>8, <1>9, <1>16
  <2>8. HasFirst(ent[e], ent'[e], c)
    BY <1>8, <1>9
  <2>9. DiskOK(load, ent', todo', fat, data, Dir)
    <3>1. /\ \A z \in File : Creating(r, z) <=> Creating(todo[p], z)
          /\ \A z : ~OnEntry(todo[p], {"etrunc"}, z) /\ ~OnEntry(r, {"etrunc"}, z)
          /\ Held(todo[p]) = c /\ Held(r) = 0 /\ Cl(c)
          /\ ent[e].lock = p /\ InMem(ent[e]) /\ ent[e].first = 0 /\ ent[e].ref > 0 /\ e \in File /\ ~Cut(todo, e)
      BY <1>4, <1>5, <1>11, <1>14, <2>5
    <3> HIDE DEF s, i, e, c, x
    <3> QED BY <1>1, <1>9, <1>10, <1>15, <2>6, <2>7, <2>8, <3>1, DiskFirst
  <2>10. Dir' = Dir /\ load' = load
    BY <1>3, DirSame
  <2> QED BY <1>3, <2>4, <2>9, <2>10, NextInv
<1>17. CASE i.how = "dir"
  <2>1. PICK f \in File : Creating(s, f) /\ e \in {f, Root}
    <3>1. ~WritesFile(s, e)
      <4>1. ~Writes(s, 2, e)
        BY <1>5, <1>17 DEF Writes, Is
      <4> QED BY <4>1, <1>2 DEF WritesFile, UserStep
    <3> QED BY <1>2, <3>1, WhoWrites
  <2>2. Creating(s, e) /\ Creating(todo[p], e)
    BY <1>5, <2>1
  <2>3. Fresh(x)
    <3> HIDE DEF e
    <3> QED BY <1>1, <1>5, <2>2, MakerIs DEF x
  <2>4. Making(ent, ent', e)
    <3>1. Fresh(y)
      BY <1>8, <1>17, <2>3 DEF Fresh, HasFirst
    <3>2. \A z \in Entry : ent'[z].lock = ent[z].lock /\ (z # e => Alike(ent[z], ent'[z]))
      BY <1>8, <1>9 DEF Alike, HasFirst
    <3> QED BY <3>1, <3>2, <1>8, <1>9 DEF Making, HasFirst
  <2>5. CtlOK(load, calls, ent', todo', file)
    <3>1. ent'[e].off = ent[e].off
      BY <1>8, <1>9 DEF HasFirst
    <3>2. todo[p][1].op # "valid" /\ todo[p][1].op = "link" /\ todo[p][1].how = "dir" /\ Pops(r, todo[p])
      BY <1>2, <1>10, <1>17
    <3> HIDE DEF s, i, e
    <3> QED BY <1>1, <1>5, <1>10, <2>2, <2>4, <3>1, <3>2, CtlMakerPop
  <2>6. DirOK(ent', todo', Dir)
    <3>1. WrittenTo(s, ent[e]) = ent[e].off
      BY <1>2, <1>5 DEF WrittenTo, OnEntry
    <3>2. WrittenTo(r, ent'[e]) = ent'[e].off
      <4>1. r[1].op = "emake"
        BY <1>12, <1>13, <1>17
      <4> QED BY <4>1 DEF WrittenTo, OnEntry
    <3>3. ent'[e].off = ent[e].off /\ ent'[e].name = ent[e].name
      BY <1>8, <1>9 DEF HasFirst
    <3>4. DirOK(ent, todo, Dir)
      BY <1>1, DiskParts
    <3>5. WrittenTo(todo[p], ent[e]) = ent[e].off /\ \A z \in File : Creating(r, z) <=> Creating(todo[p], z)
      BY <1>11, <3>1
    <3> HIDE DEF s, i, e
    <3> QED BY <1>1, <1>5, <1>9, <1>10, <2>2, <3>2, <3>3, <3>4, <3>5, DirOKFirst
  <2>7. ent'[e].valid = 1 => ~Clean(ent'[e])
    BY <1>8, <1>9, <2>3 DEF HasFirst, Fresh
  <2>8. HasFirst(ent[e], ent'[e], c)
    BY <1>8, <1>9
  <2>9. DiskOK(load, ent', todo', fat, data, Dir)
    <3>1. /\ \A z \in File : Creating(r, z) <=> Creating(todo[p], z)
          /\ \A z : ~OnEntry(todo[p], {"etrunc"}, z) /\ ~OnEntry(r, {"etrunc"}, z)
          /\ Held(todo[p]) = c /\ Held(r) = 0 /\ Cl(c)
          /\ ent[e].lock = p /\ InMem(ent[e]) /\ ent[e].first = 0 /\ ent[e].ref > 0 /\ e \in File /\ ~Cut(todo, e)
      BY <1>4, <1>5, <1>11, <1>14, <2>3 DEF Fresh
    <3> HIDE DEF s, i, e, c, x
    <3> QED BY <1>1, <1>9, <1>10, <1>15, <2>6, <2>7, <2>8, <3>1, DiskFirst
  <2>10. Dir' = Dir /\ load' = load
    BY <1>3, DirSame
  <2> QED BY <1>3, <2>5, <2>9, <2>10, NextInv
<1> QED BY <1>5, <1>16, <1>17

\* reloc_clus() links the cluster that a process holds to the chain of e
LEMMA DiskLink ==
  ASSUME NEW l, NEW K, NEW E, NEW T, NEW F, CtlOK(l, K, E, T, F), NEW t, NEW d, NEW D, DiskOK(l, E, T, t, d, D),
         NEW p \in Procs, NEW r, NEW T2, Becomes(T, T2, p, r), SameMaking(T[p], r, E),
         \A x : ~OnEntry(T[p], {"etrunc"}, x) /\ ~OnEntry(r, {"etrunc"}, x),
         NEW e \in Entry, E[e].lock = p, InMem(E[e]), ~Cut(T, e), Cl(E[e].first), t[E[e].cur] = EOC,
         NEW c, Cl(c), Held(T[p]) = c, Held(r) = 0, t[c] = EOC, d[c] = Zeros,
         NEW E2, Alike(E[e], E2[e]), E2[e].cur = c, E2[e].cnt = E[e].cnt + 1, \A x \in Entry : x # e => E2[x] = E[x],
         NEW t2, Puts1(t, E[e].cur, c, t2), LocalOK(r, E2, t2, d)
  PROVE  DiskOK(l, E2, T2, t2, d, D) /\ DirOf(t2, d) = DirOf(t, d)
<1> DEFINE h == Heads(E, T, D) h2 == Heads(E2, T2, D)
<1>0. p \in Procs /\ Becomes(T, T2, p, r) /\ e \in Entry
  OBVIOUS
<1>1. \A x \in Entry : Alike(E[x], E2[x]) /\ (InMem(E2[x]) <=> InMem(E[x]))
  BY DEF Alike, InMem
<1>2. \A x : Cut(T, x) <=> Cut(T2, x)
  BY CutSame
<1>3. \A x \in File : Made(T, x) <=> Made(T2, x)
  <2> TAKE x \in File
  <2>1. Creating(T[p], x) <=> Creating(r, x)
    BY DEF SameMaking
  <2> QED BY ONLY <1>0, <2>1, MadeSame
<1>4. SameBound(E, T, E2, T2)
  BY <1>1, <1>3, FileEntry DEF SameBound, Bound, Alike
<1>5. Mine(E, E2, p)
  BY <1>1 DEF Mine, Steady, Alike
<1>6. /\ \A g \in Nat : h2[Ig(g)] = h[Ig(g)]
      /\ \A q \in Procs : q # p => h2[Ip(q)] = h[Ip(q)]
      /\ h2[Ip(p)] = Held(r) /\ h[Ip(p)] = Held(T[p])
      /\ \A x \in Entry : h2[Ie(x)] = EntryHead(E2, T2, x) /\ h[Ie(x)] = EntryHead(E, T, x)
  BY ONLY <1>0, <1>4, HeadsChange
<1>7. \A x \in Entry : EntryHead(E2, T2, x) = EntryHead(E, T, x)
  BY <1>1, <1>2 DEF EntryHead, Alike
<1>8. /\ h[Ie(e)] = E[e].first /\ h[Ip(p)] = c /\ h2[Ip(p)] = 0 /\ Ie(e) # Ip(p)
      /\ Ie(e) \in Idx /\ Ip(p) \in Idx
  BY <1>6, FileHead, IdxIs, IdxApart
<1>9. FatOK(l, h, t) /\ CurOK(E, T, t) /\ TabDom(t) /\ TableOK(t)
  BY DiskParts DEF FatOK
<1>10. At1(t, E[e].first, E[e].cur, E[e].cnt)
  BY <1>9 DEF CurOK
<1> HIDE DEF h, h2
<1>11. But(h, h2, Ip(p))
  BY <1>6, <1>7, IdxIs DEF But
<1>12. /\ FatOK(l, h2, t2)
       /\ \A g : IsHead(t, g) /\ g # h[Ie(e)] /\ g # h[Ip(p)] => Keeps(t, t2, g)
       /\ At1(t2, h[Ie(e)], h[Ip(p)], E[e].cnt + 1) /\ t2[h[Ip(p)]] = EOC
       /\ \A n \in 0..E[e].cnt : To(t2, h[Ie(e)], n) = To(t, h[Ie(e)], n)
       /\ To(t2, h[Ie(e)], E[e].cnt + 1) = h[Ip(p)] /\ E[e].cnt \in Nat
       /\ \A n \in Nat : n > E[e].cnt + 1 => To(t2, h[Ie(e)], n) = EOC
       /\ \A n \in Nat : n > E[e].cnt => To(t, h[Ie(e)], n) = EOC
  <2> DEFINE x == Ie(e) y == Ip(p) cur == E[e].cur cnt == E[e].cnt
  <2>1. /\ x \in Idx /\ y \in Idx /\ x # y /\ But(h, h2, y) /\ FatOK(l, h, t)
        /\ Cl(h[x]) /\ Cl(h[y]) /\ t[h[y]] = EOC /\ h2[y] = 0
        /\ At1(t, h[x], cur, cnt) /\ t[cur] = EOC /\ Puts1(t, cur, h[y], t2)
    BY <1>8, <1>9, <1>10, <1>11
  <2> HIDE DEF x, y, cur, cnt
  <2>2. FatOK(l, h2, t2) /\ Linked(t, t2, h[x], h[y], cnt)
    BY ONLY <2>1, FatLink
  <2> QED BY <2>2 DEF x, y, cur, cnt, Linked
<1>13. \A g : IsHead(t, g) /\ g # E[e].first /\ g # c => Keeps(t, t2, g)
  BY <1>8, <1>12
<1>14. At1(t2, E[e].first, c, E[e].cnt + 1)
  BY <1>8, <1>12
<1>15. ASSUME NEW x \in Entry, x # e, InMem(E[x]), ~Cut(T, x), Cl(E[x].first)
       PROVE  Keeps(t, t2, E[x].first) /\ E[x].first # c /\ E[x].first # E[e].first
  <2>1. IsHead(t, E[x].first) /\ h[Ie(x)] = E[x].first /\ \A y \in Idx : y # Ie(x) => h[y] # E[x].first
    BY <1>15, FileHead DEF h
  <2>2. Ie(x) # Ie(e) /\ Ie(x) # Ip(p)
    BY <1>15, IdxApart
  <2>3. E[x].first # c /\ E[x].first # E[e].first
    BY <1>8, <2>1, <2>2
  <2> QED BY <1>13, <2>1, <2>3
<1>16. ASSUME NEW q \in Procs, q # p, Cl(Held(T[q]))
       PROVE  t2[Held(T[q])] = t[Held(T[q])]
  <2>1. IsHead(t, Held(T[q])) /\ h[Ip(q)] = Held(T[q]) /\ \A y \in Idx : y # Ip(q) => h[y] # Held(T[q])
    BY <1>16, HeldHead DEF h
  <2>2. Ip(q) # Ie(e) /\ Ip(q) # Ip(p)
    BY <1>16, IdxApart
  <2>3. Held(T[q]) # c /\ Held(T[q]) # E[e].first
    BY <1>8, <2>1, <2>2
  <2>4. Keeps(t, t2, Held(T[q]))
    BY <1>13, <2>1, <2>3
  <2>5. To(t, Held(T[q]), 0) = Held(T[q]) /\ Live(t, Held(T[q]))
    BY <2>1, ToIs DEF IsHead
  <2>6. 0 \in Nat
    OBVIOUS
  <2> QED BY <2>4, <2>5, <2>6 DEF Keeps
<1>17. Untouched(E, T, t, t2, d, d, p)
  BY <1>15, <1>16 DEF Untouched
<1>18. CurOK(E2, T2, t2)
  <2> SUFFICES ASSUME NEW x \in Entry, InMem(E2[x]), Cl(E2[x].first), ~Cut(T2, x)
               PROVE  At1(t2, E2[x].first, E2[x].cur, E2[x].cnt)
    BY DEF CurOK
  <2>1. InMem(E[x]) /\ Cl(E[x].first) /\ ~Cut(T, x) /\ E2[x].first = E[x].first
    BY <1>1, <1>2 DEF Alike
  <2>2. CASE x = e
    BY <2>1, <2>2, <1>14
  <2>3. CASE x # e
    <3>1. Keeps(t, t2, E[x].first) /\ E2[x] = E[x]
      BY <2>1, <2>3, <1>15
    <3>2. At1(t2, E[x].first, E[x].cur, E[x].cnt)
      BY <2>1, <3>1, <1>9, CurKept
    <3> QED BY <3>1, <3>2
  <2> QED BY <2>2, <2>3
<1>19. Sizes(E2) /\ RootOK(E2)
  BY <1>1, DiskParts, FileEntry DEF Sizes, RootOK, Alike
<1>20. DirOK(E2, T2, D)
  <2>1. \A x \in File : AlikeShort(E[x], E2[x])
    BY <1>1, FileEntry DEF AlikeShort, Alike
  <2> QED BY <2>1, DiskParts, DirKept DEF SameMaking
<1>21. CacheOK(E2, T2, D)
  <2>1. CacheOK(E, T, D)
    BY DiskParts
  <2>2. ASSUME NEW x \in File, E2[x].valid = 1 PROVE InStep(E2[x], D)
    <3>1. Alike(E[x], E2[x])
      BY <1>1, FileEntry
    <3>2. InStep(E[x], D)
      BY <2>1, <2>2, <3>1 DEF CacheOK, Alike
    <3> QED BY <3>1, <3>2 DEF InStep, Alike, Clean
  <2> QED BY <2>1, <2>2, <1>4, CacheKept
<1>22. DatDom(d) /\ NamesOK(l, D)
  BY DiskParts
<1>23. DiskOK(l, E2, T2, t2, d, D)
  <2>1. FatOK(l, Heads(E2, T2, D), t2)
    BY <1>12 DEF h2
  <2> QED BY <1>5, <1>17, <1>18, <1>19, <1>20, <1>21, <1>22, <2>1, DiskStep
<1>24. DirOf(t2, d) = DirOf(t, d)
  <2>1. E[Root].first = 2 /\ InMem(E[Root]) /\ ~Cut(T, Root) /\ Cl(2) /\ Root \in Entry
    BY RootHead, FileEntry
  <2>2. CASE e = Root
    <3>1. IsCluster(c) /\ d[c] = Zeros
      BY ClNot
    <3>2. /\ \A n \in 0..E[e].cnt : To(t2, 2, n) = To(t, 2, n)
          /\ To(t2, 2, E[e].cnt + 1) = c /\ E[e].cnt \in Nat
          /\ \A n \in Nat : n > E[e].cnt + 1 => To(t2, 2, n) = EOC
          /\ \A n \in Nat : n > E[e].cnt => To(t, 2, n) = EOC
      BY <1>8, <1>12, <2>1, <2>2
    <3> QED BY <3>1, <3>2, DirLink
  <2>3. CASE e # Root
    <3>1. Keeps(t, t2, 2)
      BY <1>15, <2>1, <2>3
    <3> QED BY <3>1, DirStill
  <2> QED BY <2>2, <2>3
<1> QED BY <1>23, <1>24

LEMMA DoLinkMore ==
  ASSUME FInv, NEW p \in Procs, At(p, "link"), Now(p).how = "more", Link_More(p), Pop(p),
         UNCHANGED <<load, calls, data, file>>
  PROVE  FInv'
<1> DEFINE s == todo[p]
<1> DEFINE i == s[1]
<1> DEFINE e == i.e
<1> DEFINE c == i.sec
<1> DEFINE x == ent[e]
<1> DEFINE w == [cur |-> c, cnt |-> x.cnt + 1]
<1> DEFINE y == MoveTo(x, w)
<1>1. Ctl /\ CtlOK(load, calls, ent, todo, file) /\ DiskOK(load, ent, todo, fat, data, Dir)
  BY DEF FInv, Ctl, Disk
<1>2. s # <<>> /\ i.op = "link" /\ Now(p) = i /\ SeqOK(s) /\ i.how = "more"
  BY <1>1, AtIs
<1>3. ent' = [ent EXCEPT ![e] = y] /\ fat' = [fat EXCEPT ![x.cur] = c]
  BY <1>2 DEF Link_More
<1>4. /\ e \in Entry /\ x.lock = p /\ InMem(x) /\ ~Cut(todo, e) /\ LocalOK(s, ent, fat, data) /\ GrowOK(i, ent, fat)
      /\ Begins(s, 1)
  BY <1>2, GrowsAt
<1>5. c \in 2..LAST /\ Is(s, 2, "store", e) /\ Cl(x.first) /\ fat[x.cur] = EOC /\ data[c] = Zeros /\ fat[c] = EOC
  <2>1. c \in 2..LAST /\ Is(s, 2, "store", e)
    BY <1>2, <1>4 DEF Begins
  <2>2. Cl(x.first) /\ fat[x.cur] = EOC
    BY <1>2, <1>4 DEF GrowOK
  <2>3. data[c] = Zeros /\ fat[c] = EOC
    BY <1>2, <1>4 DEF LocalOK
  <2> QED BY ONLY <2>1, <2>2, <2>3
<1>6. EntDom(ent) /\ IsEntry(x)
  BY <1>1, <1>4, TodoIs, EntIs
<1>7. IsMoved(x, w, y) /\ Puts1(ent, e, y, ent') /\ Puts1(fat, x.cur, c, fat')
  BY <1>3 DEF IsMoved, Puts1
<1> HIDE DEF y
<1>8. IsEntry(y) /\ Alike(x, y) /\ y.lock = x.lock /\ y.cur = c /\ y.cnt = x.cnt + 1
  <2>1. IsEntry(y) /\ Alike(x, y) /\ y.lock = x.lock /\ y.cur = w.cur /\ y.cnt = w.cnt
    <3> HIDE DEF x, w
    <3> QED BY <1>6, <1>7, MoveIs
  <2> QED BY <2>1
<1>9. EntDom(ent') /\ ent'[e] = y /\ \A z \in Entry : z # e => ent'[z] = ent[z]
  <2>1. EntDom(ent) /\ e \in Entry /\ IsEntry(y)
    BY <1>4, <1>6, <1>8
  <2> QED BY ONLY <1>7, <2>1, EntSet
<1>10. PICK r : Pops(r, s) /\ Becomes(todo, todo', p, r)
  BY <1>1, <1>2, DoPop
<1>11. /\ \A z : Creating(r, z) <=> Creating(s, z)
       /\ Len(s) \in Nat /\ (r # <<>> <=> Len(s) >= 2) /\ (Len(s) >= 2 => r[1] = s[2])
  BY <1>2, <1>10, PopMaking
<1>12. r # <<>> /\ r[1] = s[2] /\ s[2].op = "store" /\ s[2].e = e
  BY <1>5, <1>11 DEF Is
<1>13. Held(s) = c /\ Held(r) = 0 /\ Cl(c) /\ \A z : ~OnEntry(s, {"etrunc"}, z) /\ ~OnEntry(r, {"etrunc"}, z)
  BY <1>2, <1>5, <1>12 DEF Held, OnEntry, Cl
<1>14. LocalOK(r, ent', fat', data)
  <2>1. ent'[e].first = x.first
    BY <1>8, <1>9 DEF Alike
  <2>2. r[1].op = "store" /\ r[1].e = e /\ Cl(ent'[e].first)
    BY <1>5, <1>12, <2>1
  <2> HIDE DEF e, c
  <2> QED BY <1>12, <2>2 DEF LocalOK, Shaped
<1>15. SameMaking(s, r, ent)
  <2>1. \A z \in File : Creating(r, z) => WrittenTo(r, ent[z]) = WrittenTo(s, ent[z])
    <3>1. CASE e = Root
      BY <1>2, <1>12, <3>1 DEF WrittenTo, OnEntry
    <3>2. CASE e # Root
      BY <1>2, <1>12, <3>2 DEF WrittenTo, OnEntry
    <3> QED BY <3>1, <3>2
  <2> QED BY <1>11, <2>1 DEF SameMaking
<1>16. AllAlike(ent, ent') /\ \A z \in Entry : ent'[z].lock = ent[z].lock
  <2>1. \A z \in Entry : Alike(ent[z], ent'[z]) /\ ent'[z].lock = ent[z].lock
    BY <1>8, <1>9 DEF Alike
  <2> QED BY <2>1 DEF AllAlike
<1>17. CtlOK(load, calls, ent', todo', file)
  <2>1. CASE WritesFile(todo[p], e) /\ e # Root /\ e \in File
    <3>1. \A z \in Entry : ent'[z].lock = ent[z].lock /\ (z # e => Alike(ent[z], ent'[z]))
      BY <1>16 DEF AllAlike
    <3>2. Works(ent, ent', e)
      BY <3>1, <1>8, <1>9 DEF Works, Alike
    <3>3. todo[p][1].op # "ewrite" /\ Pops(r, todo[p])
      BY <1>2, <1>10
    <3> HIDE DEF s, i, e
    <3> QED BY <1>1, <1>10, <2>1, <3>2, <3>3, CtlWritePop
  <2>2. CASE \E f \in File : Creating(todo[p], f) /\ e \in {f, Root}
    <3>1. PICK f \in File : Creating(todo[p], f)
      BY <2>2
    <3>2. Fresh(ent[f])
      BY <1>1, <3>1, MakerIs
    <3>3. Alike(ent[f], ent'[f]) /\ \A z \in Entry : ent'[z].lock = ent[z].lock /\ Alike(ent[z], ent'[z])
      BY <1>16, FileEntry DEF AllAlike
    <3>4. Fresh(ent'[f]) /\ ent'[f].name = ent[f].name
      BY <3>2, <3>3 DEF Fresh, Alike, Clean
    <3>5. Making(ent, ent', f)
      BY <1>9, <3>3, <3>4 DEF Making
    <3>6. /\ ent'[f].off = ent[f].off /\ ent'[f].first = ent[f].first /\ ent'[f].size = ent[f].size /\ ent'[f].dir = ent[f].dir
          /\ todo[p][1].op # "valid" /\ Pops(r, todo[p])
      BY <1>2, <1>10, <3>3 DEF Alike
    <3> HIDE DEF s, i, e
    <3> QED BY <1>1, <1>10, <3>1, <3>5, <3>6, CtlMakerPop
  <2>3. (WritesFile(todo[p], e) /\ e # Root /\ e \in File) \/ \E f \in File : Creating(todo[p], f) /\ e \in {f, Root}
    BY <1>2, WhoWrites
  <2> QED BY <2>1, <2>2, <2>3
<1>18. DiskOK(load, ent', todo', fat', data, Dir) /\ DirOf(fat', data) = DirOf(fat, data)
  <2>1. /\ SameMaking(todo[p], r, ent) /\ \A z : ~OnEntry(todo[p], {"etrunc"}, z) /\ ~OnEntry(r, {"etrunc"}, z)
        /\ ent[e].lock = p /\ InMem(ent[e]) /\ ~Cut(todo, e) /\ Cl(ent[e].first) /\ fat[ent[e].cur] = EOC /\ e \in Entry
        /\ Cl(c) /\ Held(todo[p]) = c /\ Held(r) = 0 /\ fat[c] = EOC /\ data[c] = Zeros
        /\ Alike(ent[e], ent'[e]) /\ ent'[e].cur = c /\ ent'[e].cnt = ent[e].cnt + 1
        /\ Puts1(fat, ent[e].cur, c, fat')
        /\ \A z \in Entry : z # e => ent'[z] = ent[z]
        /\ Becomes(todo, todo', p, r) /\ LocalOK(r, ent', fat', data) /\ p \in Procs
    BY <1>4, <1>5, <1>7, <1>8, <1>9, <1>10, <1>13, <1>14, <1>15
  <2>2. CtlOK(load, calls, ent, todo, file) /\ DiskOK(load, ent, todo, fat, data, Dir)
    BY <1>1
  <2> HIDE DEF s, i, e, c, x
  <2> QED BY ONLY <2>1, <2>2, DiskLink
<1>19. Dir' = Dir
  BY <1>18 DEF Dir
<1>20. DiskOK(load, ent', todo', fat', data', Dir) /\ CtlOK(load, calls', ent', todo', file') /\ load' = load
  BY <1>17, <1>18
<1> QED BY <1>19, <1>20, NextMoved

LEMMA DoLink == ASSUME FInv, NEW p \in Procs, Link(p) PROVE FInv'
<1>1. At(p, "link") /\ Pop(p) /\ UNCHANGED <<load, calls, data, file>>
  BY DEF Link
<1>2. IF Now(p).how = "more" THEN Link_More(p) ELSE Link_First(p)
  BY DEF Link
<1> QED BY <1>1, <1>2, DoLinkMore, DoLinkFirst

LEMMA FunSeq ==
  ASSUME NEW n \in Nat, NEW s, s = [k \in 1..n |-> s[k]]
  PROVE  IsSeq(s) /\ Len(s) = n
<1> DEFINE S == {s[k] : k \in 1..n}
<1>0. s = [k \in 1..n |-> s[k]]
  OBVIOUS
<1>1. [k \in 1..n |-> s[k]] \in [1..n -> S]
  OBVIOUS
<1>2. s \in [1..n -> S] /\ DOMAIN s = 1..n
  BY ONLY <1>0, <1>1, Zenon
<1> HIDE DEF S
<1>3. s \in Seq(S)
  BY <1>2
<1>4. DOMAIN s = 1..Len(s) /\ Len(s) \in Nat
  BY <1>3, LenProperties
<1>5. Len(s) = n
  BY ONLY <1>2, <1>4, n \in Nat
<1>6. s = [k \in 1..Len(s) |-> s[k]]
  BY ONLY <1>0, <1>5, Zenon
<1> QED BY ONLY <1>4, <1>5, <1>6 DEF IsSeq
\* three sequences after each other
ThreeParts(r, a, b, c) ==
  /\ IsSeq(r) /\ Len(r) = Len(a) + Len(b) + 2
  /\ \A k \in 1..Len(a) : r[k] = a[k]
  /\ \A k \in 1..Len(b) : r[Len(a) + k] = b[k]
  /\ r[Len(a) + Len(b) + 1] = c[1] /\ r[Len(a) + Len(b) + 2] = c[2]
LEMMA JoinIs ==
  ASSUME NEW a, NEW b, NEW c, IsSeq(a), IsSeq(b), IsSeq(c), Len(c) = 2
  PROVE  ThreeParts(a \o b \o c, a, b, c)
<1> DEFINE d == a \o b
<1> DEFINE r == d \o c
<1>0. IsSeq(a) /\ IsSeq(b) /\ IsSeq(c)
  OBVIOUS
<1>1. /\ IsSeq(d) /\ Len(d) = Len(a) + Len(b)
      /\ \A k \in 1..Len(a) : d[k] = a[k]
      /\ \A k \in 1..Len(b) : d[Len(a) + k] = b[k]
  BY ONLY <1>0, CatIs
<1> HIDE DEF d
<1>2. /\ IsSeq(r) /\ Len(r) = Len(d) + Len(c)
      /\ \A k \in 1..Len(d) : r[k] = d[k]
      /\ \A k \in 1..Len(c) : r[Len(d) + k] = c[k]
  BY ONLY <1>0, <1>1, CatIs
<1> HIDE DEF r
<1>3. Len(a) \in Nat /\ Len(b) \in Nat
  BY <1>0 DEF IsSeq
<1>4. Len(r) = Len(a) + Len(b) + 2
  BY <1>1, <1>2, <1>3
<1>5. ASSUME NEW k \in 1..Len(a) PROVE r[k] = a[k]
  <2>1. k \in 1..Len(d)
    BY <1>1, <1>3
  <2> QED BY <1>1, <1>2, <2>1
<1>6. ASSUME NEW k \in 1..Len(b) PROVE r[Len(a) + k] = b[k]
  <2>1. Len(a) + k \in 1..Len(d)
    BY <1>1, <1>3
  <2> QED BY <1>1, <1>2, <2>1
<1>7. r[Len(a) + Len(b) + 1] = c[1] /\ r[Len(a) + Len(b) + 2] = c[2]
  <2>1. 1 \in 1..Len(c) /\ 2 \in 1..Len(c)
    OBVIOUS
  <2> QED BY <1>1, <1>2, <2>1
<1>8. ThreeParts(r, a, b, c)
  BY <1>2, <1>4, <1>5, <1>6, <1>7 DEF ThreeParts
<1> QED BY <1>8 DEF r, d

\* the pieces that ewrite() cuts what it writes into
PieceOf(i, e) == UserStep(i) /\ i.e = e /\ i.off \in Nat
LEMMA PiecesAre ==
  ASSUME NEW e, NEW off \in Nat, NEW b, IsSeq(b)
  PROVE  LET a == Pieces(e, off, b) IN IsSeq(a) /\ \A k \in 1..Len(a) : PieceOf(a[k], e)
<1> DEFINE m == off % C
<1> DEFINE cut(k) == IF k = 0 THEN 0 ELSE IF k * C - m < Len(b) THEN k * C - m ELSE Len(b)
<1> DEFINE n == (m + Len(b) + C - 1) \div C
<1> DEFINE a == [k \in 1..n |-> Store(e, off + cut(k-1), SubSeq(b, cut(k-1) + 1, cut(k)), TRUE)]
<1>1. Pieces(e, off, b) = a
  BY DEF Pieces
<1>2. m \in 0..(C - 1) /\ C \in Nat \ {0} /\ Len(b) \in Nat
  BY DivIs, SizesAssumption DEF IsSeq
<1> HIDE DEF m
<1>3. m + Len(b) + C - 1 \in Nat
  BY <1>2
<1>4. n \in Nat
  <2> DEFINE y == m + Len(b) + C - 1
  <2>1. y \in Nat
    BY <1>3
  <2> HIDE DEF y
  <2>2. y \div C \in Nat
    BY <2>1, DivIs
  <2> QED BY <2>2 DEF y
<1> HIDE DEF n
<1>5. ASSUME NEW j \in Nat PROVE cut(j) \in Nat
  <2>1. CASE j = 0
    BY <2>1
  <2>2. CASE j # 0
    <3>1. 1 <= j /\ 1 \in Nat
      BY <2>2
    <3>2. C * j \in Nat /\ C * 1 <= C * j
      BY <3>1, Times
    <3>3. C * j = j * C
      BY <1>2
    <3> DEFINE z == j * C
    <3>4. z \in Nat /\ C <= z
      BY <1>2, <3>2, <3>3
    <3> HIDE DEF z
    <3>5. z - m \in Nat
      BY <1>2, <3>4
    <3>6. cut(j) \in {z - m, Len(b)}
      BY <2>2 DEF z
    <3> HIDE DEF cut
    <3> QED BY <1>2, <3>5, <3>6
  <2> QED BY <2>1, <2>2
<1> HIDE DEF cut
<1>6. a = [k \in 1..n |-> a[k]]
  OBVIOUS
<1>7. ASSUME NEW k \in 1..n PROVE PieceOf(a[k], e)
  <2>1. cut(k - 1) \in Nat
    <3>1. k - 1 \in Nat
      BY <1>4
    <3> QED BY <1>5, <3>1
  <2>2. off + cut(k - 1) \in Nat
    BY <2>1
  <2>3. a[k] = Store(e, off + cut(k-1), SubSeq(b, cut(k-1) + 1, cut(k)), TRUE)
    OBVIOUS
  <2> HIDE DEF a
  <2> QED BY <2>2, <2>3 DEF Store, PieceOf, UserStep
<1> HIDE DEF a
<1>8. IsSeq(a) /\ Len(a) = n
  BY <1>4, <1>6, FunSeq
<1> QED BY <1>1, <1>7, <1>8
WritePlan(r, a, e) ==
  /\ IsSeq(r) /\ EwriteForm(r, e) /\ r # <<>>
  /\ Len(a) = 1 => r[1] = a[1]
  /\ Len(a) = 0 => r[1].e = e /\ (UserStep(r[1]) \/ r[1].op = "wrote")
LEMMA EwriteIs ==
  ASSUME NEW e \in File, NEW a, IsSeq(a), Len(a) \in {0, 1}, Len(a) = 1 => a[1] = alloc_clus(e, "write"),
         NEW off \in Nat, NEW b, IsSeq(b), NEW w, w.op = "wrote", w.e = e, w.off = off + Len(b)
  PROVE  WritePlan(a \o Pieces(e, off, b) \o <<w, eunlock(e)>>, a, e)
<1> DEFINE r == a \o Pieces(e, off, b) \o <<w, eunlock(e)>>
<1> DEFINE q == Pieces(e, off, b)
<1> DEFINE c == <<w, eunlock(e)>>
<1>1. IsSeq(c) /\ Len(c) = 2 /\ c[1] = w /\ c[2] = eunlock(e)
  BY Tup2
<1>2. IsSeq(q) /\ \A k \in 1..Len(q) : PieceOf(q[k], e)
  BY PiecesAre
<1> HIDE DEF q, c
<1>3. /\ IsSeq(r) /\ Len(r) = Len(a) + Len(q) + 2
      /\ \A k \in 1..Len(a) : r[k] = a[k]
      /\ \A k \in 1..Len(q) : r[Len(a) + k] = q[k]
      /\ r[Len(a) + Len(q) + 1] = c[1] /\ r[Len(a) + Len(q) + 2] = c[2]
  <2>0. IsSeq(a)
    OBVIOUS
  <2>1. r = a \o q \o c
    BY DEF q, c
  <2>2. ThreeParts(a \o q \o c, a, q, c)
    BY ONLY <1>1, <1>2, <2>0, JoinIs
  <2> HIDE DEF r
  <2>3. ThreeParts(r, a, q, c)
    BY ONLY <2>1, <2>2
  <2> QED BY ONLY <2>3 DEF ThreeParts
<1>4. Len(a) \in Nat /\ Len(q) \in Nat /\ Len(b) \in Nat
  BY <1>2 DEF IsSeq
<1> HIDE DEF r
<1> DEFINE L == Len(r)
<1>5. L = Len(a) + Len(q) + 2 /\ L \in Nat /\ L >= 2 /\ L - 1 = Len(a) + Len(q) + 1
  BY <1>3, <1>4
<1>6. r[L].op = "eunlock" /\ r[L].e = e
  BY <1>1, <1>3, <1>5 DEF eunlock
<1>7. r[L - 1].op = "wrote" /\ r[L - 1].e = e /\ r[L - 1].off \in Nat
  <2>1. r[L - 1] = w
    BY <1>1, <1>3, <1>5
  <2>2. w.off \in Nat
    BY <1>4
  <2> HIDE DEF L
  <2> QED BY <2>1, <2>2
<1>8. ASSUME NEW k \in 1..(L - 2)
      PROVE  r[k].e = e /\ (\/ UserStep(r[k]) /\ r[k].off \in Nat
                            \/ k = 1 /\ r[k].op = "alloc" /\ r[k].sec = 0 /\ r[k].how = "write")
  <2>1. CASE k <= Len(a)
    <3> DEFINE n == Len(a)
    <3>0. n \in {0, 1} /\ k \in Nat /\ k >= 1 /\ k <= n
      BY <1>5, <2>1
    <3> HIDE DEF L, n
    <3>2. k = 1 /\ n = 1 /\ 1 \in 1..n
      BY ONLY <3>0
    <3>1. k = 1 /\ Len(a) = 1 /\ 1 \in 1..Len(a)
      BY ONLY <3>2 DEF n
    <3>3. r[k] = alloc_clus(e, "write")
      BY <1>3, <3>1
    <3> QED BY <3>1, <3>3 DEF alloc_clus
  <2>2. CASE ~(k <= Len(a))
    <3> DEFINE j == k - Len(a)
    <3>1. j \in 1..Len(q) /\ Len(a) + j = k
      BY <1>4, <1>5, <2>2
    <3> HIDE DEF j
    <3>2. r[k] = q[j]
      BY <1>3, <3>1
    <3> QED BY <1>2, <3>1, <3>2 DEF PieceOf
  <2> QED BY <2>1, <2>2
<1>9. EwriteForm(r, e)
  <2>1. \A k \in 1..(Len(r) - 2) :
          r[k].e = e /\ (\/ UserStep(r[k]) /\ r[k].off \in Nat
                         \/ k = 1 /\ r[k].op = "alloc" /\ r[k].sec = 0 /\ r[k].how = "write")
    BY <1>8
  <2>2. IsSeq(r) /\ e \in File /\ Len(r) >= 1 /\ r[Len(r)].op = "eunlock" /\ r[Len(r)].e = e
        /\ r[Len(r) - 1].op = "wrote" /\ r[Len(r) - 1].e = e /\ r[Len(r) - 1].off \in Nat
    BY <1>3, <1>5, <1>6, <1>7
  <2> QED BY ONLY <2>1, <2>2 DEF EwriteForm
<1>10. Len(a) = 1 => r[1] = a[1]
  BY <1>3
<1>11. ASSUME Len(a) = 0 PROVE r[1].e = e /\ (UserStep(r[1]) \/ r[1].op = "wrote")
  <2>1. CASE Len(q) = 0
    <3>1. L - 1 = 1
      BY <1>5, <1>11, <2>1
    <3> QED BY <3>1, <1>7
  <2>2. CASE Len(q) # 0
    <3>1. 1 \in 1..(L - 2)
      BY <1>4, <1>5, <1>11, <2>2
    <3>2. 1 \in 1..Len(q) /\ Len(a) + 1 = 1
      BY <1>4, <1>11, <2>2
    <3>3. r[1] = q[1]
      BY <1>3, <3>2
    <3> QED BY <1>2, <3>2, <3>3 DEF PieceOf
  <2> QED BY <2>1, <2>2
<1>12. r # <<>>
  BY <1>3, <1>5, SeqEmpty
<1>13. WritePlan(r, a, e)
  BY ONLY <1>3, <1>9, <1>10, <1>11, <1>12 DEF WritePlan
<1> QED BY <1>13 DEF r

LEMMA PutsAll ==
  ASSUME NEW r, NEW a, NEW s, IsSeq(a), Puts(r, a, s), Len(s) = 1
  PROVE  r = a
<1>1. IsSeq(r) /\ Len(r) = Len(a) /\ \A k \in 1..Len(a) : r[k] = a[k]
  BY PutsLast
<1>2. r = [k \in 1..Len(a) |-> r[k]] /\ a = [k \in 1..Len(a) |-> a[k]]
  <2>1. IsSeq(a)
    OBVIOUS
  <2>2. r = [k \in 1..Len(r) |-> r[k]] /\ a = [k \in 1..Len(a) |-> a[k]]
    BY ONLY <1>1, <2>1 DEF IsSeq
  <2> QED BY ONLY <1>1, <2>2
<1>3. [k \in 1..Len(a) |-> r[k]] = [k \in 1..Len(a) |-> a[k]]
  BY ONLY <1>1
<1> QED BY ONLY <1>2, <1>3

\* a process that writes goes on with the steps r
LEMMA WriteQuiet ==
  ASSUME FInv, NEW p \in Procs, NEW e, WritesFile(todo[p], e), todo[p][1].op \in {"ewrite", "store"},
         NEW r, EwriteForm(r, e), Becomes(todo, todo', p, r), UNCHANGED <<load, calls, fat, data, file>>,
         Works(ent, ent', e), AllAlike(ent, ent'), CurMoves(ent, ent', todo, fat, p), LocalOK(r, ent', fat, data)
  PROVE  FInv'
<1>1. CtlOK(load, calls, ent, todo, file)
  BY DEF FInv, Ctl
<1>2. CtlOK(load, calls', ent', todo', file')
  BY <1>1, CtlWriteForm
<1>3. FitsWrite(r, e) /\ \A d \in File : ~Creating(todo[p], d)
  BY <1>1, EwriteFits, WriterIs
<1>4. NoHead(todo[p]) /\ NoHead(r) /\ SameMaking(todo[p], r, ent)
  <2>1. r # <<>> /\ 1 \in 1..Len(r)
    BY <1>3, FirstIs DEF FitsWrite
  <2>2. NoHead(r)
    BY <1>3, <2>1 DEF FitsWrite, NoHead
  <2>3. \A d \in File : ~Creating(todo[p], d) /\ ~Creating(r, d)
    BY <1>3 DEF FitsWrite
  <2>4. NoHead(todo[p])
    BY DEF NoHead
  <2>5. SameMaking(todo[p], r, ent)
    BY ONLY <2>3, NoneMakes
  <2> QED BY <2>2, <2>4, <2>5
<1> QED BY <1>2, <1>4, QuietInv
LEMMA WorksSame ==
  ASSUME NEW E, EntDom(E), NEW e PROVE Works(E, E, e)
  BY DEF Works, Alike

LEMMA DoEwrite == ASSUME FInv, NEW p \in Procs, Ewrite(p) PROVE FInv'
<1> DEFINE s == todo[p]
<1> DEFINE e == s[1].e
<1> DEFINE b == s[1].bytes
<1> DEFINE off == file[p].off
<1>1. CtlOK(load, calls, ent, todo, file) /\ DiskOK(load, ent, todo, fat, data, Dir) /\ Ctl
  BY DEF FInv, Ctl, Disk
<1>2. At(p, "ewrite") /\ UNCHANGED <<load, calls, fat, data, ent, file>>
  BY DEF Ewrite
<1>3. s # <<>> /\ s[1].op = "ewrite" /\ Now(p) = s[1] /\ SeqOK(s)
  BY <1>1, <1>2, AtIs
<1>4. e \in File /\ Len(s) = 1 /\ 1 \in 1..Len(s)
  <2>1. Whole(s, 1) /\ Goes1(s, 1)
    BY <1>3, FirstIs
  <2> QED BY <2>1, <1>3 DEF Whole, OnFile, File, Goes1, LastOps
<1>5. FileIs(file[p], e) /\ IsSeq(b) /\ off \in Nat
  <2>1. UsesOK(s, file[p]) /\ Asked(load, p, s, ent) /\ IsFile(file[p])
    BY <1>1, Ready
  <2>2. FileIs(file[p], e)
    BY <2>1, <1>3, <1>4 DEF UsesOK
  <2>3. IsSeq(b)
    BY <2>1, <1>3, <1>4 DEF Asked
  <2> QED BY <2>1, <2>2, <2>3 DEF IsFile, FileIs
<1>6. WritesFile(s, e)
  BY <1>3, <1>4 DEF WritesFile
<1>7. EntDom(ent) /\ e \in Entry
  BY <1>1, <1>4, TodoIs, FileEntry
<1> DEFINE w == [op |-> "wrote", e |-> e, off |-> off + Len(b), ok |-> TRUE]
<1> DEFINE al == IF ent[e].first = 0 THEN <<alloc_clus(e, "write")>> ELSE <<>>
<1> DEFINE a == IF off > ent[e].size THEN <<eunlock(e)>> ELSE al \o Pieces(e, off, b) \o <<w, eunlock(e)>>
<1>8. Push(p, a)
  BY <1>3 DEF Ewrite
<1>9. IsSeq(al) /\ Len(al) \in {0, 1} /\ (Len(al) = 1 => al[1] = alloc_clus(e, "write") /\ ent[e].first = 0)
      /\ (Len(al) = 0 => ent[e].first # 0)
  <2>1. CASE ent[e].first = 0
    <3>1. al = <<alloc_clus(e, "write")>>
      BY <2>1
    <3> HIDE DEF al
    <3> QED BY <2>1, <3>1, Tup1
  <2>2. CASE ent[e].first # 0
    <3>1. al = <<>>
      BY <2>2
    <3> HIDE DEF al
    <3> QED BY <2>2, <3>1, Tup0
  <2> QED BY <2>1, <2>2
<1>10. w.op = "wrote" /\ w.e = e /\ w.off = off + Len(b)
  OBVIOUS
<1> HIDE DEF w, al
<1>11. IsSeq(a) /\ EwriteForm(a, e) /\ a # <<>> /\ LocalOK(a, ent, fat, data)
  <2>1. CASE off > ent[e].size
    <3>1. a = <<eunlock(e)>>
      BY <2>1
    <3> HIDE DEF a
    <3>2. IsSeq(a) /\ Len(a) = 1 /\ a[1] = eunlock(e)
      BY <3>1, Tup1
    <3>3. EwriteForm(a, e)
      BY <3>2, <1>4 DEF EwriteForm, eunlock
    <3>4. e # Root
      BY <1>4, FileEntry
    <3>5. a[1].op = "eunlock" /\ a[1].e = e
      BY <3>2 DEF eunlock
    <3>6. LocalOK(a, ent, fat, data)
      <4> HIDE DEF e
      <4> QED BY <3>4, <3>5 DEF LocalOK, Shaped
    <3>7. a # <<>>
      <4>1. IsSeq(a) /\ Len(a) >= 1
        BY ONLY <3>2
      <4> QED BY ONLY <4>1, SeqEmpty
    <3> QED BY <3>2, <3>3, <3>6, <3>7
  <2>2. CASE ~(off > ent[e].size)
    <3>1. a = al \o Pieces(e, off, b) \o <<w, eunlock(e)>>
      BY <2>2
    <3> HIDE DEF a
    <3>0. e \in File /\ IsSeq(al) /\ Len(al) \in {0, 1} /\ (Len(al) = 1 => al[1] = alloc_clus(e, "write"))
          /\ off \in Nat /\ IsSeq(b)
      BY <1>4, <1>5, <1>9
    <3>2. /\ IsSeq(a) /\ EwriteForm(a, e) /\ a # <<>>
          /\ Len(al) = 1 => a[1] = al[1]
          /\ Len(al) = 0 => a[1].e = e /\ (UserStep(a[1]) \/ a[1].op = "wrote")
      <4> HIDE DEF e, b, off
      <4>1. WritePlan(al \o Pieces(e, off, b) \o <<w, eunlock(e)>>, al, e)
        BY ONLY <3>0, <1>10, EwriteIs
      <4>2. WritePlan(a, al, e)
        BY ONLY <3>1, <4>1
      <4> QED BY ONLY <4>2 DEF WritePlan
    <3>3. LocalOK(a, ent, fat, data)
      <4>1. CASE Len(al) = 1
        <5>1. a[1] = alloc_clus(e, "write") /\ ent[e].first = 0
          BY <3>2, <4>1, <1>9
        <5>2. Shaped(a[1]) /\ a[1].op = "alloc" /\ a[1].e = e /\ a[1].how = "write"
          BY <5>1 DEF alloc_clus, Shaped
        <5> HIDE DEF e
        <5> QED BY <5>1, <5>2 DEF LocalOK, GrowOK
      <4>2. CASE Len(al) = 0
        <5>1. ent[e].first # 0 /\ a[1].e = e /\ a[1].op \in {"store", "wrote"}
          BY <3>2, <4>2, <1>9 DEF UserStep
        <5>2. Cl(ent[e].first)
          BY <1>1, <1>7, <5>1, DiskParts DEF Sizes
        <5> HIDE DEF e
        <5> QED BY <5>1, <5>2 DEF LocalOK, Shaped
      <4> QED BY <4>1, <4>2, <1>9
    <3> QED BY <3>2, <3>3
  <2> QED BY <2>1, <2>2
<1> HIDE DEF a
<1>12. PICK r : Puts(r, a, s) /\ Becomes(todo, todo', p, r)
  BY <1>1, <1>3, <1>8, <1>11, DoPush
<1>13. r = a
  <2>1. IsSeq(a) /\ Puts(r, a, s) /\ Len(s) = 1
    BY <1>4, <1>11, <1>12
  <2> QED BY ONLY <2>1, PutsAll
<1>14. EwriteForm(r, e) /\ LocalOK(r, ent', fat, data)
  BY <1>2, <1>11, <1>13
<1>15. Works(ent, ent', e) /\ AllAlike(ent, ent') /\ CurMoves(ent, ent', todo, fat, p)
  BY <1>2, <1>7, WorksSame, StillAlike
<1>16. WritesFile(todo[p], e) /\ todo[p][1].op \in {"ewrite", "store"}
  BY <1>3, <1>6
<1>17. Becomes(todo, todo', p, r) /\ UNCHANGED <<load, calls, fat, data, file>> /\ FInv
  BY <1>2, <1>12
<1> HIDE DEF s, e, b, off
<1> QED BY ONLY <1>14, <1>15, <1>16, <1>17, p \in Procs, WriteQuiet

\* what a process that makes e does next
LEMMA MakerStep ==
  ASSUME FInv, NEW p \in Procs, NEW e \in File, Creating(todo[p], e), todo[p][1].op # "valid"
  PROVE  \E v \in 1..Len(todo[p]) : /\ todo[p][v].op = "valid" /\ todo[p][v].e = e /\ v >= 2
                                    /\ Makes(todo[p], 1, v, e, ent[e])
<1>1. CtlOK(load, calls, ent, todo, file)
  BY DEF FInv, Ctl
<1>2. PICK v \in 1..Len(todo[p]) : todo[p][v].op = "valid" /\ todo[p][v].e = e
  BY DEF Creating, Has
<1>3. v # 1
  BY <1>2
<1>4. Makes(todo[p], 1, v, e, ent[e])
  BY <1>1, <1>2, <1>3, MakerIs
<1>5. v >= 2
  BY <1>3
<1> QED BY <1>2, <1>4, <1>5
LEMMA EmakeDot ==
  ASSUME NEW d, NEW x, NEW off \in {0, 1}
  PROVE  IsSeq(emake(d, x, off)) /\ DotForm(emake(d, x, off), d)
<1> DEFINE y == Store(d, off, <<Short(Dots[off + 1], [x EXCEPT !.dir = TRUE, !.size = 0])>>, FALSE)
<1> DEFINE a == <<y>>
<1>0. (off <= 1) = TRUE
  OBVIOUS
<1>1. emake(d, x, off) = a
  BY ONLY <1>0, Zenon DEF emake
<1>2. IsSeq(a) /\ Len(a) = 1 /\ a[1] = y
  BY Tup1
<1> HIDE DEF a
<1>3. MakeStep(y) /\ y.e = d /\ y.off \in Nat
  BY DEF Store, MakeStep
<1> HIDE DEF y
<1> QED BY <1>1, <1>2, <1>3 DEF DotForm
LEMMA EmakeRootIs ==
  ASSUME NEW x, NEW off \in Nat, off >= 2, x.off = off, IsName(x.name)
  PROVE  IsSeq(emake(Root, x, off)) /\ RootForm(emake(Root, x, off), x)
<1> DEFINE n == Len(x.name)
<1> DEFINE a == [k \in 1..(n + 1) |->
          Store(Root, off + k - 1, <<IF k <= n THEN Long(x.name, n + 1 - k) ELSE Short(<<>>, x)>>, FALSE)]
<1>1. emake(Root, x, off) = a
  BY DEF emake
<1>2. n \in Nat /\ n + 1 \in Nat
  BY DEF IsName
<1>3. a = [k \in 1..(n + 1) |-> a[k]]
  OBVIOUS
<1>4. \A k \in 1..(n + 1) :
        a[k] = Store(Root, off + k - 1, <<IF k <= n THEN Long(x.name, n + 1 - k) ELSE Short(<<>>, x)>>, FALSE)
  OBVIOUS
<1> HIDE DEF a
<1>5. IsSeq(a) /\ Len(a) = n + 1
  BY <1>2, <1>3, FunSeq
<1>6. ASSUME NEW k \in 1..(n + 1)
      PROVE  /\ MakeStep(a[k]) /\ a[k].e = Root /\ a[k].off = x.off + k - 1
             /\ a[k].cells = <<Make(x.name, Short(<<>>, x), x.off, x.off + k - 1)>>
  <2> DEFINE z == IF k <= n THEN Long(x.name, n + 1 - k) ELSE Short(<<>>, x)
  <2>1. z = Make(x.name, Short(<<>>, x), x.off, x.off + k - 1)
    <3> DEFINE o == off + k - 1
    <3>1. (k <= n <=> o < off + n) /\ off + n - o = n + 1 - k
      BY <1>2
    <3> HIDE DEF o
    <3>2. Make(x.name, Short(<<>>, x), off, o) = IF o < off + n THEN Long(x.name, off + n - o) ELSE Short(<<>>, x)
      BY DEF Make
    <3>3. Make(x.name, Short(<<>>, x), off, o) = z
      BY <3>1, <3>2
    <3> QED BY <3>3 DEF o
  <2>2. a[k] = Store(Root, off + k - 1, <<z>>, FALSE)
    BY <1>4
  <2> HIDE DEF z
  <2>3. MakeStep(a[k]) /\ a[k].e = Root /\ a[k].off = off + k - 1 /\ a[k].cells = <<z>>
    BY <2>2 DEF Store, MakeStep
  <2> QED BY <2>1, <2>3
<1>7. RootForm(a, x)
  <2>1. IsSeq(a) /\ Len(a) = Len(x.name) + 1 /\ Len(x.name) \in Nat /\ x.off \in Nat
    BY <1>2, <1>5
  <2>2. ASSUME NEW k \in 1..Len(a)
        PROVE  /\ MakeStep(a[k]) /\ a[k].e = Root /\ a[k].off = x.off + k - 1
               /\ a[k].cells = <<Make(x.name, Short(<<>>, x), x.off, x.off + k - 1)>>
    <3>1. k \in 1..(n + 1)
      BY ONLY <1>5, k \in 1..Len(a)
    <3> QED BY ONLY <1>6, <3>1
  <2> QED BY ONLY <2>1, <2>2 DEF RootForm
<1> QED BY <1>1, <1>5, <1>7

LEMMA DoEmake == ASSUME FInv, NEW p \in Procs, Emake(p) PROVE FInv'
<1> DEFINE s == todo[p]
<1> DEFINE i == s[1]
<1> DEFINE a == emake(i.e, ent[i.x], i.off)
<1>1. CtlOK(load, calls, ent, todo, file) /\ DiskOK(load, ent, todo, fat, data, Dir) /\ Ctl
  BY DEF FInv, Ctl, Disk
<1>2. At(p, "emake") /\ UNCHANGED <<load, calls, fat, data, ent, file>>
  BY DEF Emake
<1>3. s # <<>> /\ i.op = "emake" /\ Now(p) = i /\ SeqOK(s)
  BY <1>1, <1>2, AtIs
<1>4. PICK e \in File : Creating(s, e)
  BY <1>3, MakesRoot
<1>5. PICK v \in 1..Len(s) : s[v].op = "valid" /\ s[v].e = e /\ v >= 2 /\ Makes(s, 1, v, e, ent[e])
  BY <1>3, <1>4, MakerStep
<1>6. \/ i.e = Root /\ i.x = e /\ i.off = ent[e].off
      \/ i.e = e /\ i.off \in {0, 1}
  BY <1>3, <1>5 DEF Makes, MakeStep
<1>7. Fresh(ent[e]) /\ \A d \in File : Creating(s, d) => d = e
  <2>1. Fresh(ent[e]) /\ MakerOK(s, e, ent[e])
    BY <1>1, <1>4, MakerIs
  <2> QED BY <2>1 DEF MakerOK
<1>8. MadeSoFar(Dir, ent[e], s)
  BY <1>1, <1>4, DiskParts DEF DirOK
<1>9. ent[e].off \in Nat /\ ent[e].off >= 2 /\ IsName(ent[e].name)
  <2>1. ent[e].off >= 2 /\ ent[e].off \in Nat
    BY <1>8 DEF MadeSoFar, Partly
  <2> QED BY <2>1, <1>7, NamesAssumption DEF Fresh, IsName
<1>10. Push(p, a)
  BY <1>3 DEF Emake
<1>11. IsSeq(a) /\ (i.e = Root => RootForm(a, ent[e])) /\ (i.e # Root => DotForm(a, i.e))
  <2>1. CASE i.e = Root
    <3>1. i.x = e /\ i.off = ent[e].off
      BY <1>6, <2>1, FileEntry
    <3>2. a = emake(Root, ent[e], ent[e].off)
      BY <3>1, <2>1
    <3> HIDE DEF a, i
    <3>3. IsSeq(emake(Root, ent[e], ent[e].off)) /\ RootForm(emake(Root, ent[e], ent[e].off), ent[e])
      BY <1>9, EmakeRootIs
    <3> QED BY <2>1, <3>2, <3>3
  <2>2. CASE i.e # Root
    <3>1. i.off \in {0, 1}
      BY <1>6, <2>2
    <3> QED BY <2>2, <3>1, EmakeDot
  <2> QED BY <2>1, <2>2
<1> HIDE DEF a
<1>12. PICK r : Puts(r, a, s) /\ Becomes(todo, todo', p, r)
  BY <1>1, <1>3, <1>10, <1>11, DoPush
<1>13. /\ \A k \in 1..Len(a) : MakeStep(a[k]) /\ a[k].e \in {Root, i.e}
       /\ Len(a) \in Nat /\ Len(a) >= 1 /\ a[1].e = i.e /\ (i.e = Root => a[1].off = ent[e].off)
  <2>1. CASE i.e = Root
    <3> HIDE DEF i
    <3>1. RootForm(a, ent[e])
      BY <1>11, <2>1
    <3>2. Len(a) \in Nat /\ Len(a) >= 1 /\ 1 \in 1..Len(a)
      BY <3>1 DEF RootForm
    <3>3. a[1].off = ent[e].off + 1 - 1
      BY <3>1, <3>2 DEF RootForm
    <3>4. a[1].off = ent[e].off
      BY <3>3, <1>9
    <3> QED BY <2>1, <3>1, <3>2, <3>4 DEF RootForm
  <2>2. CASE i.e # Root
    <3> HIDE DEF i
    <3> QED BY <1>11, <2>2 DEF DotForm
  <2> QED BY <2>1, <2>2
<1>14. 1 \in 1..Len(a)
  BY <1>13
<1>15. r # <<>> /\ r[1] = a[1]
  <2>1. Len(s) \in Nat /\ Len(s) >= 1
    BY <1>3, FirstIs
  <2>2. IsSeq(r) /\ Len(r) = Len(a) + Len(s) - 1 /\ \A k \in 1..Len(a) : r[k] = a[k]
    BY <1>12 DEF Puts
  <2>3. Len(r) >= 1
    BY <1>13, <2>1, <2>2
  <2>4. r # <<>>
    BY ONLY <2>2, <2>3, SeqEmpty
  <2> QED BY <1>14, <2>2, <2>4
<1>16. \A d : Creating(r, d) <=> Creating(s, d)
  <2>1. UsesOK(s, file[p]) /\ Asked(load, p, s, ent)
    BY <1>1, Ready
  <2>2. s[1].op \notin RefOps \cup {"lookup"} /\ s[1].op # "valid"
    BY <1>3 DEF RefOps
  <2> HIDE DEF s
  <2> QED BY <1>3, <1>11, <1>12, <1>13, <2>1, <2>2, PutUses DEF i
<1>17. r[1].op = "store" /\ r[1].e = i.e /\ (i.e = Root => r[1].off = ent[e].off) /\ MakeStep(r[1])
  BY <1>13, <1>14, <1>15 DEF MakeStep
<1>18. SameMaking(s, r, ent)
  <2> SUFFICES ASSUME NEW d \in File, Creating(r, d) PROVE WrittenTo(r, ent[d]) = WrittenTo(s, ent[d])
    BY <1>16 DEF SameMaking
  <2>1. d = e
    BY <1>7, <1>16
  <2>2. WrittenTo(s, ent[e]) = ent[e].off
    BY <1>3 DEF WrittenTo, OnEntry
  <2>3. WrittenTo(r, ent[e]) = ent[e].off
    <3> HIDE DEF i
    <3> QED BY <1>15, <1>17 DEF WrittenTo, OnEntry
  <2> QED BY <2>1, <2>2, <2>3
<1>19. NoHead(s) /\ NoHead(r)
  BY <1>3, <1>17 DEF NoHead
<1>20. LocalOK(r, ent', fat, data)
  <2>1. LocalOK(s, ent, fat, data)
    BY <1>1, DiskParts
  <2>2. Cl(ent[i.e].first)
    BY <1>3, <2>1 DEF LocalOK
  <2> HIDE DEF i
  <2> QED BY <1>2, <1>17, <2>2 DEF LocalOK, Shaped
<1>21. CtlOK(load, calls', ent', todo', file')
  <2>0. todo[p][1].op = "emake" /\ Puts(r, a, todo[p]) /\ Becomes(todo, todo', p, r) /\ Creating(todo[p], e)
    BY <1>3, <1>4, <1>12
  <2>1. CASE i.e = Root
    <3>1. RootForm(a, ent[e]) /\ todo[p][1].e = Root
      BY <1>11, <2>1
    <3> HIDE DEF s, i
    <3>2. CtlOK(load, calls, ent, todo', file)
      BY <1>1, <2>0, <3>1, CtlEmakeRoot
    <3> QED BY <1>2, <3>2
  <2>2. CASE i.e # Root
    <3>1. DotForm(a, todo[p][1].e) /\ todo[p][1].e # Root
      BY <1>11, <2>2
    <3> HIDE DEF s, i
    <3>2. CtlOK(load, calls, ent, todo', file)
      BY <1>1, <2>0, <3>1, CtlEmakeDot
    <3> QED BY <1>2, <3>2
  <2> QED BY <2>1, <2>2
<1>22. AllAlike(ent, ent') /\ CurMoves(ent, ent', todo, fat, p)
  BY <1>2, StillAlike
<1> QED BY <1>2, <1>12, <1>18, <1>19, <1>20, <1>21, <1>22, QuietInv

ButCell(d, d2, c) == \A x \in Cluster : x # c => d2[x] = d[x]
Alone(E, T, t, d, d2, p, e) ==
  /\ Untouched(E, T, t, t, d, d2, p)
  /\ e # Root => \A n \in Nat : Live(t, To(t, 2, n)) => d2[To(t, 2, n)] = d[To(t, 2, n)]
\* the clusters that others rely on are not on the chain of e
LEMMA OnlyMine ==
  ASSUME NEW l, NEW K, NEW E, NEW T, NEW F, CtlOK(l, K, E, T, F), NEW t, NEW d, NEW D, DiskOK(l, E, T, t, d, D),
         NEW p, NEW e \in Entry, InMem(E[e]), ~Cut(T, e), Cl(E[e].first), NEW m, NEW c, At1(t, E[e].first, c, m),
         NEW d2, ButCell(d, d2, c)
  PROVE  Alone(E, T, t, d, d2, p, e)
<1>1. /\ Heads(E, T, D)[Ie(e)] = E[e].first /\ IsHead(t, E[e].first)
      /\ \A y \in Idx : y # Ie(e) => Heads(E, T, D)[y] # E[e].first
  BY FileHead
<1>2. TableOK(t)
  BY RootHead
<1>3. m \in Nat /\ c = To(t, E[e].first, m) /\ c # EOC
  BY LiveNotEOC DEF At1
<1>4. ASSUME NEW g, IsHead(t, g), g # E[e].first, NEW n \in Nat
      PROVE  To(t, g, n) # c
  <2>1. To(t, g, n) = To(t, E[e].first, m) => g = E[e].first
    BY <1>1, <1>2, <1>3, <1>4, Apart
  <2> QED BY <1>3, <1>4, <2>1
<1>5. ASSUME NEW q \in Procs, Cl(Held(T[q])) PROVE d2[Held(T[q])] = d[Held(T[q])]
  <2>1. IsHead(t, Held(T[q])) /\ Heads(E, T, D)[Ip(q)] = Held(T[q])
    BY <1>5, HeldHead
  <2>2. Ip(q) # Ie(e) /\ Ip(q) \in Idx
    BY IdxApart, IdxIs
  <2>3. Held(T[q]) # E[e].first
    BY <1>1, <2>1, <2>2
  <2>4. To(t, Held(T[q]), 0) = Held(T[q])
    BY ToIs
  <2>5. Held(T[q]) # c
    BY <1>4, <2>1, <2>3, <2>4
  <2>6. Held(T[q]) \in Cluster
    BY <1>5, ClNot
  <2> QED BY <2>5, <2>6 DEF ButCell
<1>6. \A g : IsHead(t, g) => Keeps(t, t, g)
  BY DEF Keeps
<1>7. Untouched(E, T, t, t, d, d2, p)
  <2>1. \A x \in Entry : InMem(E[x]) /\ Cl(E[x].first) /\ ~Cut(T, x) => Keeps(t, t, E[x].first)
    BY <1>6, FileHead
  <2> QED BY <1>5, <2>1 DEF Untouched
<1>8. ASSUME e # Root, NEW n \in Nat, Live(t, To(t, 2, n)) PROVE d2[To(t, 2, n)] = d[To(t, 2, n)]
  <2>1. IsHead(t, 2) /\ Heads(E, T, D)[Ie(Root)] = 2
    BY RootHead
  <2>2. Ie(Root) # Ie(e) /\ Ie(Root) \in Idx
    BY <1>8, IdxApart, IdxIs, FileEntry
  <2>3. 2 # E[e].first
    BY <1>1, <2>1, <2>2
  <2>4. To(t, 2, n) # c
    BY <1>4, <2>1, <2>3
  <2>5. To(t, 2, n) \in Cluster
    BY <1>8, LiveCluster
  <2> QED BY <2>4, <2>5 DEF ButCell
<1> QED BY <1>7, <1>8 DEF Alone

\* cells of a file, or of a new directory, are written
LEMMA DiskWrites ==
  ASSUME NEW l, NEW K, NEW E, NEW T, NEW F, CtlOK(l, K, E, T, F), NEW t, NEW d, NEW D, DiskOK(l, E, T, t, d, D),
         NEW p \in Procs, NEW r, NEW T2, Becomes(T, T2, p, r), SameMaking(T[p], r, E), NoHead(T[p]), NoHead(r),
         NEW E2, AllAlike(E, E2), CurMoves(E, E2, T, t, p),
         NEW e \in File, InMem(E[e]), ~Cut(T, e), Cl(E[e].first), NEW m, NEW c, At1(t, E[e].first, c, m),
         NEW v, NEW d2, Puts1(d, c, v, d2), LocalOK(r, E2, t, d2)
  PROVE  DiskOK(l, E2, T2, t, d2, D) /\ DirOf(t, d2) = DirOf(t, d)
<1>1. c \in Cluster
  BY LiveCluster DEF At1
<1>2. DatDom(d2) /\ \A x \in Cluster : x # c => d2[x] = d[x]
  BY <1>1, DatPut, DiskParts
<1>3. /\ Untouched(E, T, t, t, d, d2, p)
      /\ \A n \in Nat : Live(t, To(t, 2, n)) => d2[To(t, 2, n)] = d[To(t, 2, n)]
  <2>1. e \in Entry /\ e # Root
    BY FileEntry
  <2>2. Alone(E, T, t, d, d2, p, e)
    <3>1. ButCell(d, d2, c)
      BY <1>2 DEF ButCell
    <3> QED BY <2>1, <3>1, OnlyMine
  <2> QED BY <2>1, <2>2 DEF Alone
<1>4. DirOf(t, d2) = DirOf(t, d)
  <2>1. Keeps(t, t, 2)
    BY RootHead DEF Keeps
  <2> QED BY <1>3, <2>1, DirStill
<1>5. DiskOK(l, E2, T2, t, d2, D)
  <2>1. LocalOK(r, E2, t, d)
    BY DEF LocalOK, NoHead
  <2>2. DiskOK(l, E2, T2, t, d, D)
    BY <2>1, DiskQuiet
  <2>3. /\ FatOK(l, Heads(E2, T2, D), t) /\ CurOK(E2, T2, t) /\ Sizes(E2) /\ RootOK(E2)
        /\ DirOK(E2, T2, D) /\ NamesOK(l, D) /\ CacheOK(E2, T2, D)
    BY <2>2, DiskParts
  <2>4. Mine(E, E2, p)
    <3>1. \A x \in Entry : Alike(E[x], E2[x])
      BY DEF AllAlike
    <3> QED BY <3>1 DEF Mine, Steady, Alike, CurMoves
  <2> QED BY <1>2, <1>3, <2>3, <2>4, DiskStep
<1> QED BY <1>4, <1>5

\* where a store goes
LEMMA StoreAt ==
  ASSUME FInv, NEW p \in Procs, todo[p] # <<>>, todo[p][1].op = "store"
  PROVE  LET i == todo[p][1] IN
         /\ i.e \in Entry /\ ent[i.e].lock = p /\ InMem(ent[i.e]) /\ ~Cut(todo, i.e) /\ Cl(ent[i.e].first)
         /\ i.off \in Nat /\ IsHead(fat, ent[i.e].first) /\ IsEntry(ent[i.e]) /\ (UserStep(i) \/ MakeStep(i))
<1> DEFINE s == todo[p]
<1> DEFINE e == s[1].e
<1>1. CtlOK(load, calls, ent, todo, file) /\ DiskOK(load, ent, todo, fat, data, Dir)
  BY DEF FInv, Ctl, Disk
<1>2. e \in Entry /\ ent[e].lock = p
  BY <1>1, HeadLocked DEF NeedsLock
<1>3. InMem(ent[e]) /\ ~Cut(todo, e)
  <2>1. RootOK(ent)
    BY <1>1, DiskParts
  <2>2. InMem(ent[e]) /\ (Cut(todo, e) => OnEntry(s, {"etrunc"}, e))
    BY <1>1, <1>2, <2>1, LockedIs
  <2> QED BY <2>2 DEF OnEntry
<1>4. Cl(ent[e].first)
  BY <1>1, DiskParts DEF LocalOK
<1>5. Whole(s, 1)
  BY <1>1, Ready, FirstIs
<1>6. s[1].off \in Nat /\ (UserStep(s[1]) \/ MakeStep(s[1]))
  BY <1>5 DEF Whole
<1>7. IsHead(fat, ent[e].first) /\ IsEntry(ent[e])
  BY <1>2, <1>3, <1>4, CanMove
<1> QED BY <1>2, <1>3, <1>4, <1>6, <1>7
Moved(w, p, e) ==
  /\ EntDom(ent') /\ AllAlike(ent, ent') /\ CurMoves(ent, ent', todo, fat, p)
  /\ \A d \in Entry : ent'[d].lock = ent[d].lock
  /\ ent'[e].cur = w.cur /\ ent'[e].cnt = w.cnt
  /\ At1(fat, ent[e].first, w.cur, w.cnt)
StoreOf(p, e) == todo[p] # <<>> /\ todo[p][1].op = "store" /\ e = todo[p][1].e
SeekTo(x, n, w) == w = Seek(x, n)
MovedTo(E, e, w, E2) == E2 = [E EXCEPT ![e] = MoveTo(E[e], w)]
LEMMA SeekMoves ==
  ASSUME FInv, NEW p \in Procs, NEW e, StoreOf(p, e), NEW n \in Nat, NEW w, SeekTo(ent[e], n, w),
         MovedTo(ent, e, w, ent')
  PROVE  Moved(w, p, e) /\ (w.cnt # n => fat[w.cur] = EOC)
<1>1. e \in Entry /\ ent[e].lock = p /\ InMem(ent[e]) /\ ~Cut(todo, e) /\ Cl(ent[e].first)
  BY StoreAt DEF StoreOf
<1>2. EntDom(ent)
  BY TodoIs DEF FInv
<1>3. /\ TableOK(fat) /\ IsEntry(ent[e]) /\ IsHead(fat, ent[e].first)
      /\ At1(fat, ent[e].first, ent[e].cur, ent[e].cnt)
  BY <1>1, CanMove
<1>4. At1(fat, ent[e].first, w.cur, w.cnt) /\ (w.cnt # n => fat[w.cur] = EOC)
  BY <1>3, SeekIs DEF SeekTo
<1>5. PICK y : IsMoved(ent[e], w, y) /\ Puts1(ent, e, y, ent')
  BY DEF IsMoved, Puts1, MovedTo
<1>6. IsEntry(y) /\ Alike(ent[e], y) /\ y.lock = ent[e].lock /\ y.cur = w.cur /\ y.cnt = w.cnt
  BY <1>3, <1>5, MoveIs
<1>7. MovesCur(ent[e], y, fat)
  <2>1. y.first = ent[e].first
    BY <1>6 DEF Alike
  <2> QED BY <1>4, <1>6, <2>1 DEF MovesCur
<1>8. /\ EntDom(ent') /\ AllAlike(ent, ent') /\ CurMoves(ent, ent', todo, fat, p) /\ ent'[e] = y
      /\ \A d \in Entry : ent'[d].lock = ent[d].lock
  <2>1. EntDom(ent) /\ e \in Entry /\ ent[e].lock \in {p, NoProc} /\ MovesCur(ent[e], y, fat) /\ Puts1(ent, e, y, ent')
    BY <1>1, <1>2, <1>5, <1>7
  <2> QED BY ONLY <2>1, MovedEnt
<1> QED BY <1>4, <1>6, <1>8 DEF Moved

LEMMA NoHeld ==
  ASSUME NEW s, NoHead(s)
  PROVE  Held(s) = 0 /\ \A e : ~OnEntry(s, {"etrunc"}, e)
BY DEF NoHead, Held, OnEntry

\* a step that changes the directory, and no chain
SameHeads(E, E2) == \A e \in Entry : (InMem(E[e]) <=> InMem(E2[e])) /\ E2[e].first = E[e].first
SameDisk(E, T, D, E2, T2, D2) == \A g \in Nat : DiskHead(E2, T2, D2, g) = DiskHead(E, T, D, g)
LEMMA DiskDir ==
  ASSUME NEW l, NEW K, NEW E, NEW T, NEW F, CtlOK(l, K, E, T, F), NEW t, NEW d, NEW D, DiskOK(l, E, T, t, d, D),
         NEW p \in Procs, NEW r, NEW T2, Becomes(T, T2, p, r), NoHead(T[p]), NoHead(r),
         NEW E2, Mine(E, E2, p), SameHeads(E, E2), CurMoves(E, E2, T, t, p),
         NEW D2, SameDisk(E, T, D, E2, T2, D2),
         NEW d2, DatDom(d2), Untouched(E, T, t, t, d, d2, p), LocalOK(r, E2, t, d2),
         Sizes(E2), RootOK(E2), DirOK(E2, T2, D2), NamesOK(l, D2), CacheOK(E2, T2, D2)
  PROVE  DiskOK(l, E2, T2, t, d2, D2)
<1>1. FatOK(l, Heads(E, T, D), t) /\ CurOK(E, T, t)
  BY DiskParts
<1>2. Held(T[p]) = 0 /\ Held(r) = 0 /\ \A e : ~OnEntry(T[p], {"etrunc"}, e) /\ ~OnEntry(r, {"etrunc"}, e)
  BY NoHeld
<1>3. ASSUME NEW e PROVE Cut(T, e) <=> Cut(T2, e)
  BY <1>2, CutSame
<1>4. \A e \in Entry : EntryHead(E2, T2, e) = EntryHead(E, T, e)
  BY <1>3 DEF EntryHead, SameHeads
<1>5. \A q \in Procs : Held(T2[q]) = Held(T[q])
  <2>1. Held(T2[p]) = Held(r) /\ \A q \in Procs : q # p => Held(T2[q]) = Held(T[q])
    BY HeldIs
  <2>2. Held(T2[p]) = Held(T[p])
    BY <1>2, <2>1
  <2> QED BY <2>1, <2>2
<1>6. Alikes(Heads(E, T, D), Heads(E2, T2, D2))
  <2> SUFFICES ASSUME NEW z \in Idx PROVE Heads(E2, T2, D2)[z] = Heads(E, T, D)[z]
    BY DEF Alikes
  <2>1. CASE \E e \in Entry : z = Ie(e)
    BY <2>1, <1>4, HeadsIs
  <2>2. CASE \E q \in Procs : z = Ip(q)
    BY <2>2, <1>5, HeadsIs
  <2>3. CASE \E g \in Nat : z = Ig(g)
    BY <2>3, HeadsIs DEF SameDisk
  <2> QED BY <2>1, <2>2, <2>3, IdxIs
<1>7. FatOK(l, Heads(E2, T2, D2), t)
  BY <1>1, <1>6, FatAlike
<1>8. CurOK(E2, T2, t)
  <2> SUFFICES ASSUME NEW e \in Entry, InMem(E2[e]), Cl(E2[e].first), ~Cut(T2, e)
               PROVE  At1(t, E2[e].first, E2[e].cur, E2[e].cnt)
    BY DEF CurOK
  <2>1. InMem(E[e]) /\ E2[e].first = E[e].first /\ ~Cut(T, e)
    BY <1>3 DEF SameHeads
  <2>2. At1(t, E[e].first, E[e].cur, E[e].cnt)
    BY <1>1, <2>1 DEF CurOK
  <2> QED BY <2>1, <2>2 DEF CurMoves
<1> QED BY <1>7, <1>8, DiskStep

\* only places in chains change
Still(E, E2) == EntDom(E2) /\ AllAlike(E, E2) /\ \A d \in Entry : E2[d].lock = E[d].lock
LEMMA StillWorks ==
  ASSUME NEW E, NEW E2, Still(E, E2), NEW e \in File
  PROVE  Works(E, E2, e) /\ Alike(E[e], E2[e]) /\ (Fresh(E[e]) => Making(E, E2, e))
<1>1. e \in Entry /\ \A d \in Entry : Alike(E[d], E2[d])
  BY FileEntry DEF Still, AllAlike
<1>2. Alike(E[e], E2[e])
  BY <1>1
<1>3. Works(E, E2, e)
  BY <1>1, <1>2 DEF Still, Works, Alike
<1>4. Fresh(E[e]) => Making(E, E2, e)
  <2>1. Fresh(E[e]) => Fresh(E2[e])
    BY <1>2 DEF Fresh, Alike, Clean
  <2> QED BY <1>1, <1>2, <2>1 DEF Still, Making, Alike
<1> QED BY <1>2, <1>3, <1>4
\* a slot or piece is written, or a cluster wanted for it
LEMMA CtlStore ==
  ASSUME FInv, NEW p \in Procs, NEW e, StoreOf(p, e), NEW r, NEW T2, Becomes(todo, T2, p, r), NEW E2, Still(ent, E2),
         Pops(r, todo[p]) \/ NeedsCluster(r, todo[p])
  PROVE  CtlOK(load, calls, E2, T2, file)
<1>1. CtlOK(load, calls, ent, todo, file) /\ todo[p] # <<>> /\ todo[p][1].op = "store"
  BY DEF FInv, Ctl, StoreOf
<1>2. CASE WritesFile(todo[p], todo[p][1].e) /\ todo[p][1].e \in File
  <2>1. Works(ent, E2, todo[p][1].e)
    BY <1>2, StillWorks
  <2>2. CASE Pops(r, todo[p])
    BY <1>1, <1>2, <2>1, <2>2, CtlWritePop
  <2>3. CASE NeedsCluster(r, todo[p])
    BY <1>1, <1>2, <2>1, <2>3, CtlWriteNeed
  <2> QED BY <2>2, <2>3
<1>3. ASSUME NEW f \in File, Creating(todo[p], f) PROVE CtlOK(load, calls, E2, T2, file)
  <2>1. Fresh(ent[f])
    BY <1>1, <1>3, MakerIs
  <2>2. Making(ent, E2, f) /\ Alike(ent[f], E2[f])
    BY <2>1, StillWorks
  <2>3. E2[f].off = ent[f].off /\ E2[f].first = ent[f].first /\ E2[f].size = ent[f].size /\ E2[f].dir = ent[f].dir
    BY <2>2 DEF Alike
  <2>4. CASE Pops(r, todo[p])
    BY <1>1, <1>3, <2>2, <2>3, <2>4, CtlMakerPop
  <2>5. CASE NeedsCluster(r, todo[p])
    BY <1>1, <1>3, <2>2, <2>5, CtlMakerNeed
  <2> QED BY <2>4, <2>5
<1> QED BY <1>1, <1>2, <1>3, WhoWrites

\* reloc_clus() wants a cluster first
Wants(s) == <<alloc_clus(s[1].e, "more")>> \o s
LEMMA NeedPuts ==
  ASSUME NEW s, IsSeq(s), Len(s) >= 1
  PROVE  NeedsCluster(Wants(s), s) /\ Wants(s)[1] = alloc_clus(s[1].e, "more")
<1> DEFINE e == s[1].e r == Wants(s)
<1> DEFINE a == alloc_clus(e, "more") c == <<a>>
<1>1. IsSeq(c) /\ Len(c) = 1 /\ c[1] = a
  BY Tup1
<1>2. a.op = "alloc" /\ a.e = s[1].e /\ a.sec = 0 /\ a.how = "more"
  BY DEF alloc_clus
<1>3. IsSeq(<<a, s[1]>>) /\ Len(<<a, s[1]>>) = 2 /\ <<a, s[1]>>[1] = a /\ <<a, s[1]>>[2] = s[1]
  BY Tup2
<1>0. r = c \o s
  BY DEF Wants
<1> HIDE DEF a, c, r
<1>4. /\ IsSeq(c \o s) /\ Len(c \o s) = Len(c) + Len(s)
      /\ \A k \in 1..Len(c) : (c \o s)[k] = c[k]
      /\ \A k \in 1..Len(s) : (c \o s)[Len(c) + k] = s[k]
  <2>1. IsSeq(s) /\ IsSeq(c)
    BY <1>1
  <2> QED BY ONLY <2>1, CatIs
<1> DEFINE n == Len(s)
<1>5. n \in Nat /\ n >= 1
  BY DEF IsSeq
<1>6. IsSeq(r) /\ Len(r) = 1 + n /\ r[1] = a /\ \A k \in 1..n : r[1 + k] = s[k]
  <2>1. IsSeq(r) /\ Len(r) = 1 + n /\ (\A k \in 1..1 : r[k] = c[k]) /\ \A k \in 1..n : r[1 + k] = s[k]
    BY ONLY <1>0, <1>1, <1>4
  <2> QED BY ONLY <2>1, <1>1
<1> HIDE DEF n
<1>7. r[2] = s[1]
  BY ONLY <1>5, <1>6
<1>8. \A k \in 2..n : r[2 + k - 1] = s[k]
  BY ONLY <1>5, <1>6
<1>9. Puts(r, <<a, s[1]>>, s)
  <2>1. Len(r) = 2 + n - 1
    BY ONLY <1>5, <1>6
  <2>2. \A k \in 1..2 : r[k] = <<a, s[1]>>[k]
    BY ONLY <1>3, <1>6, <1>7
  <2> QED BY <2>1, <2>2, <1>3, <1>6, <1>8 DEF Puts, n
<1>10. NeedsCluster(r, s)
  BY <1>2, <1>9 DEF NeedsCluster
<1> QED BY <1>6, <1>10 DEF a, r
\* how far the slots of an entry are written is the same with an allocation first
LEMMA NeedMaking ==
  ASSUME NEW s, SeqOK(s), s # <<>>, s[1].op = "store", NEW r, NeedsCluster(r, s), NEW E
  PROVE  SameMaking(s, r, E) /\ NoHead(s) /\ NoHead(r)
<1>1. /\ r # <<>> /\ r[1].op = "alloc" /\ r[1].e = s[1].e /\ Len(s) \in Nat /\ Len(s) >= 1
      /\ (\A k \in 1..Len(s) : r[k + 1] = s[k])
      /\ \A S, e : "alloc" \notin S => (Has(r, S, e) <=> Has(s, S, e))
  BY NeedIs
<1>2. r[2] = s[1]
  BY <1>1
<1>3. \A x : WrittenTo(r, x) = WrittenTo(s, x)
  BY <1>1, <1>2 DEF WrittenTo, OnEntry
<1>4. \A e : Creating(r, e) <=> Creating(s, e)
  BY <1>1 DEF Creating
<1> QED BY <1>1, <1>3, <1>4 DEF SameMaking, NoHead
LEMMA StoreNeeds ==
  ASSUME FInv, NEW p \in Procs, NEW e, StoreOf(p, e), NEW w, Moved(w, p, e), fat[w.cur] = EOC,
         NEW r, NeedsCluster(r, todo[p]), r[1] = alloc_clus(e, "more"), Becomes(todo, todo', p, r),
         UNCHANGED <<load, calls, fat, data, file>>
  PROVE  FInv'
<1>1. CtlOK(load, calls, ent, todo, file) /\ todo[p] # <<>> /\ todo[p][1].op = "store" /\ SeqOK(todo[p])
  <2>1. CtlOK(load, calls, ent, todo, file)
    BY DEF FInv, Ctl
  <2> QED BY <2>1, Ready DEF StoreOf
<1>2. Still(ent, ent') /\ AllAlike(ent, ent') /\ CurMoves(ent, ent', todo, fat, p) /\ ent'[e].cur = w.cur
  BY DEF Moved, Still
<1>3. CtlOK(load, calls', ent', todo', file')
  BY <1>2, CtlStore
<1>4. SameMaking(todo[p], r, ent) /\ NoHead(todo[p]) /\ NoHead(r)
  BY <1>1, NeedMaking
<1>5. LocalOK(r, ent', fat, data)
  <2>1. e \in Entry /\ Cl(ent[e].first)
    BY StoreAt DEF StoreOf
  <2>2. Cl(ent'[e].first)
    BY <2>1, <1>2 DEF AllAlike, Alike
  <2>3. r[1].op = "alloc" /\ r[1].e = e /\ r[1].how = "more" /\ Shaped(r[1])
    BY DEF alloc_clus, Shaped
  <2> QED BY <1>2, <2>2, <2>3 DEF LocalOK, GrowOK
<1> QED BY <1>2, <1>3, <1>4, <1>5, QuietInv

\* the slots that are made for an entry are those of its name
LEMMA NameIs ==
  ASSUME NEW n \in Names
  PROVE  IsName(n) /\ n = [i \in 1..Len(n) |-> n[i]]
BY NamesAssumption DEF IsName
LEMMA MakesShort ==
  ASSUME NEW x, x.first = 0 \/ Cl(x.first), x.size \in Nat, x.size > 0 => x.first # 0, x.dir \in BOOLEAN
  PROVE  IsShort(Short(<<>>, x)) /\ Short(<<>>, x).k = "short"
BY DEF IsShort, Short
LEMMA ShortSame ==
  ASSUME NEW x, NEW y, AlikeShort(x, y)
  PROVE  Short(<<>>, y) = Short(<<>>, x)
BY DEF AlikeShort, Short
\* a slot more of the entry x is written
SlotMade(D, D2, x, W) ==
  /\ Partly(D2, x.off, W + 1, x.name, Short(<<>>, x))
  /\ \A g \in Groups(D) : /\ g \in Groups(D2) /\ GName(D2, g) = GName(D, g) /\ GInfo(D2, g) = GInfo(D, g)
                          /\ g # x.off
  /\ \A g \in Groups(D2) : g # x.off => g \in Groups(D)
  /\ x.off \in Groups(D2) => GName(D2, x.off) = x.name /\ GInfo(D2, x.off) = Short(<<>>, x)
PutSlot(D, D2, W, v) == \A o \in Nat : D2[o] = IF o = W THEN v ELSE D[o]
LEMMA SlotStep ==
  ASSUME NEW D, NEW D2, NEW x, x.name \in Names, NEW W, Partly(D, x.off, W, x.name, Short(<<>>, x)),
         W <= x.off + Len(x.name), PutSlot(D, D2, W, Make(x.name, Short(<<>>, x), x.off, W))
  PROVE  SlotMade(D, D2, x, W)
<1> DEFINE sh == Short(<<>>, x) nm == x.name off == x.off
<1>1. IsName(nm) /\ nm = [i \in 1..Len(nm) |-> nm[i]]
  BY NameIs
<1>2. sh.k = "short"
  BY DEF Short
<1>0. Partly(D, off, W, nm, sh) /\ W <= off + Len(nm) /\ \A o \in Nat : D2[o] = IF o = W THEN Make(nm, sh, off, W) ELSE D[o]
  BY DEF PutSlot
<1>3. off \in Nat /\ W \in Nat /\ W >= off /\ Len(nm) \in Nat
  BY <1>0, <1>1 DEF Partly, IsName
<1> HIDE DEF sh, nm, off
<1>4. /\ Partly(D2, off, W + 1, nm, sh)
      /\ \A g \in Groups(D) : g \in Groups(D2) /\ GName(D2, g) = GName(D, g) /\ GInfo(D2, g) = GInfo(D, g)
                              /\ GEnd(D, g) < off
      /\ \A g \in Groups(D2) : g # off => g \in Groups(D)
  BY ONLY <1>0, <1>1, <1>2, PartStep
<1>5. \A g \in Groups(D) : g # off
  <2> SUFFICES ASSUME NEW g \in Groups(D) PROVE g # off
    OBVIOUS
  <2>1. g \in Nat /\ IsGroup(D, g)
    BY DEF Groups
  <2>2. GEnd(D, g) \in Nat /\ GEnd(D, g) > g /\ GEnd(D, g) < off
    BY <1>4, <2>1, GroupIs
  <2> QED BY <1>3, <2>1, <2>2
<1>6. ASSUME off \in Groups(D2) PROVE GName(D2, off) = nm /\ GInfo(D2, off) = sh
  <2>1. IsGroup(D2, off)
    BY <1>6 DEF Groups
  <2>2. GEnd(D2, off) \in Nat /\ GEnd(D2, off) > off
    BY <1>3, <2>1, GroupIs
  <2>3. GEnd(D2, off) < off \/ (off = off /\ W + 1 = off + Len(nm) + 1)
    BY <1>1, <1>2, <1>3, <1>4, <2>1, PartGroups
  <2>4. W + 1 = off + Len(nm) + 1
    BY <1>3, <2>2, <2>3
  <2>5. GInfo(D2, off) = sh /\ GName(D2, off) = [i \in 1..Len(nm) |-> nm[i]]
    <3> DEFINE V == W + 1
    <3>1. Partly(D2, off, V, nm, sh) /\ V = off + Len(nm) + 1 /\ IsName(nm) /\ sh.k = "short"
      BY <1>1, <1>2, <1>4, <2>4
    <3> HIDE DEF V
    <3>2. GInfo(D2, off) = sh /\ Spelled(GName(D2, off), nm)
      BY ONLY <3>1, PartDone
    <3> QED BY <3>2 DEF Spelled
  <2> QED BY <1>1, <2>5
<1> QED BY <1>4, <1>5, <1>6 DEF SlotMade, sh, nm, off
\* the directory while the entry x is made is regular, and its names are distinct
LEMMA SlotNames ==
  ASSUME NEW l, NEW D, NEW D2, NEW x, NEW W, SlotMade(D, D2, x, W), NamesOK(l, D), x.name \in Names,
         IsShort(Short(<<>>, x)), \A g \in Groups(D) : g # x.off => GName(D, g) # x.name
  PROVE  NamesOK(l, D2)
<1>1. ASSUME NEW g \in Groups(D2), g # x.off
      PROVE  /\ g \in Groups(D) /\ GName(D2, g) = GName(D, g) /\ GInfo(D2, g) = GInfo(D, g) /\ GName(D2, g) # x.name
             /\ GName(D2, g) \in Names /\ IsShort(GInfo(D2, g))
  BY <1>1 DEF SlotMade, NamesOK
<1>2. x.off \in Groups(D2) => GName(D2, x.off) = x.name /\ GInfo(D2, x.off) = Short(<<>>, x)
  BY DEF SlotMade
<1>3. ASSUME NEW g \in Groups(D2), NEW h \in Groups(D2), GName(D2, g) = GName(D2, h) PROVE g = h
  <2>1. CASE g # x.off /\ h # x.off
    BY <1>1, <1>3, <2>1 DEF NamesOK
  <2>2. CASE g = x.off \/ h = x.off
    BY <1>1, <1>2, <1>3, <2>2
  <2> QED BY <2>1, <2>2
<1>4. \A g \in Groups(D2) : GName(D2, g) \in Names /\ IsShort(GInfo(D2, g))
  BY <1>1, <1>2
<1>5. PICK g \in Groups(D) : GName(D, g) \notin Removed(l)
  BY DEF NamesOK
<1>6. g \in Groups(D2) /\ GName(D2, g) \notin Removed(l)
  BY <1>5 DEF SlotMade
<1> QED BY <1>3, <1>4, <1>6 DEF NamesOK

LEMMA WrittenOne ==
  ASSUME NEW off \in Nat, NEW a, NEW v, NEW k \in 0..(C - 1)
  PROVE  Written(a, off, <<v>>)[k] = IF k = off % C THEN v ELSE a[k]
<1> DEFINE m == off % C b == <<v>>
<1>1. m \in 0..(C - 1)
  BY DivIs
<1>2. Len(b) = 1 /\ b[1] = v
  OBVIOUS
<1>3. Written(a, off, b)[k] = IF k >= m /\ k < m + Len(b) THEN b[k - m + 1] ELSE a[k]
  BY DEF Written
<1> HIDE DEF m, b
<1>4. C \in Nat \ {0}
  BY SizesAssumption
<1>5. k \in Nat /\ m \in Nat
  BY <1>1, <1>4
<1>6. CASE k = m
  <2>1. k >= m /\ k < m + Len(b) /\ k - m + 1 = 1
    BY <1>2, <1>5, <1>6
  <2>2. Written(a, off, b)[k] = v
    BY <1>2, <1>3, <2>1
  <2> QED BY <1>6, <2>2 DEF m, b
<1>7. CASE k # m
  <2>1. ~(k >= m /\ k < m + Len(b))
    BY <1>2, <1>5, <1>7
  <2>2. Written(a, off, b)[k] = a[k]
    BY <1>3, <2>1
  <2> QED BY <1>7, <2>2 DEF m, b
<1> QED BY <1>6, <1>7
\* one slot of the directory is written
IsWritten(a, off, v, b) == b = Written(a, off, <<v>>)
LEMMA SlotDir ==
  ASSUME NEW t, NEW d, TableOK(t), IsHead(t, 2), DatDom(d), NEW off \in Nat, NEW c, At1(t, 2, c, off \div C),
         NEW v, NEW b, IsWritten(d[c], off, v, b), NEW d2, Puts1(d, c, b, d2)
  PROVE  PutSlot(DirOf(t, d), DirOf(t, d2), off, v)
<1>1. c = To(t, 2, off \div C) /\ Live(t, c) /\ c \in Cluster
  BY LiveCluster DEF At1
<1>2. d2[c] = b /\ \A x \in Cluster : x # c => d2[x] = d[x]
  BY <1>1, DatPut
<1> DEFINE offs == {off}
<1>3. \A o \in offs : o \in Nat /\ Live(t, To(t, 2, o \div C))
  BY <1>1
<1>4. ASSUME NEW n \in Nat, NEW k \in 0..(C - 1), Live(t, To(t, 2, n))
      PROVE  d2[To(t, 2, n)][k] = IF \E o \in offs : To(t, 2, n) = To(t, 2, o \div C) /\ k = o % C
                                  THEN v ELSE d[To(t, 2, n)][k]
  <2> DEFINE y == To(t, 2, n)
  <2>1. y \in Cluster
    BY <1>4, LiveCluster
  <2>2. (\E o \in offs : y = To(t, 2, o \div C) /\ k = o % C) <=> (y = c /\ k = off % C)
    BY <1>1
  <2>3. d2[y][k] = IF y = c /\ k = off % C THEN v ELSE d[y][k]
    <3>1. CASE y = c
      <4>1. b[k] = IF k = off % C THEN v ELSE d[c][k]
        BY WrittenOne DEF IsWritten
      <4>2. d2[y][k] = b[k]
        BY <1>2, <3>1
      <4> QED BY <4>1, <4>2, <3>1
    <3>2. CASE y # c
      BY <1>2, <2>1, <3>2
    <3> QED BY <3>1, <3>2
  <2> HIDE DEF y, offs
  <2>4. d2[y][k] = IF \E o \in offs : y = To(t, 2, o \div C) /\ k = o % C THEN v ELSE d[y][k]
    BY ONLY <2>2, <2>3
  <2> QED BY <2>4 DEF y
<1> HIDE DEF offs
<1>5. CellsSet(t, d, d2, offs, v)
  BY <1>3, <1>4 DEF CellsSet
<1>6. SlotsSet(DirOf(t, d), DirOf(t, d2), offs, v)
  BY <1>5, DirSet
<1> QED BY <1>6 DEF PutSlot, SlotsSet, offs
\* who writes a slot of the root
Makers(p, f, r) ==
  /\ f \in File /\ Creating(todo[p], f) /\ ent[f].name \in Names
  /\ todo[p][1].off \in Nat /\ todo[p][1].off <= ent[f].off + Len(ent[f].name)
  /\ todo[p][1].cells = <<Make(ent[f].name, Short(<<>>, ent[f]), ent[f].off, todo[p][1].off)>>
  /\ MadeSoFar(Dir, ent[f], todo[p]) /\ WrittenTo(todo[p], ent[f]) = todo[p][1].off
  /\ r # <<>> /\ WrittenTo(r, ent[f]) = todo[p][1].off + 1 /\ (r[1].op = "valid" \/ OnEntry(r, {"store"}, Root))
LEMMA SlotMaker ==
  ASSUME FInv, NEW p \in Procs, StoreOf(p, Root), NEW r, Pops(r, todo[p])
  PROVE  \E f : Makers(p, f, r)
<1> DEFINE s == todo[p]
<1>1. CtlOK(load, calls, ent, todo, file) /\ DiskOK(load, ent, todo, fat, data, Dir)
  BY DEF FInv, Ctl, Disk
<1>2. s # <<>> /\ s[1].op = "store" /\ s[1].e = Root /\ SeqOK(s)
  BY <1>1, Ready DEF StoreOf
<1>3. Whole(s, 1) /\ Goes2(s, 1) /\ Len(s) \in Nat /\ 1 \in 1..Len(s)
  BY <1>2, FirstIs
<1>4. MakeStep(s[1]) /\ s[1].off \in Nat
  BY <1>2, <1>3 DEF Whole
<1>5. PICK f \in File : Creating(s, f)
  BY <1>2, <1>3, <1>4, MakesOne
<1> DEFINE x == ent[f]
<1>6. x.name \in Names /\ MakerOK(s, f, x) /\ \A v \in 1..Len(s) : s[v].op = "valid" => s[v].e = f
  BY <1>1, <1>5, MakerIs DEF Fresh
<1>7. PICK v \in 1..Len(s) : s[v].op = "valid" /\ s[v].e = f /\ v >= 2 /\ Makes(s, 1, v, f, x)
  BY <1>2, <1>5, MakerStep
<1>8. Len(x.name) \in Nat /\ x.off \in Nat
  <2>1. Len(x.name) \in Nat
    BY <1>6, NamesAssumption
  <2>2. Sizes(ent)
    BY <1>1, DiskParts
  <2> QED BY <2>1, <2>2, FileEntry DEF Sizes
<1>9. f # Root
  BY FileEntry
<1>10. /\ s[1].off = x.off + Len(x.name) - (v - 1 - 1) /\ s[1].off >= x.off
       /\ s[1].cells = <<Make(x.name, Short(<<>>, x), x.off, s[1].off)>>
  BY <1>2, <1>7, <1>9 DEF Makes
<1>11. s[1].off <= x.off + Len(x.name) /\ (v = 2 => s[1].off + 1 = x.off + Len(x.name) + 1)
  <2> DEFINE n == Len(x.name) o == s[1].off b == x.off
  <2>1. o \in Nat /\ n \in Nat /\ b \in Nat /\ o = b + n - (v - 1 - 1) /\ v \in Nat /\ v >= 2
    BY <1>4, <1>7, <1>8, <1>10
  <2> HIDE DEF n, o, b
  <2>2. o <= b + n /\ (v = 2 => o + 1 = b + n + 1)
    BY ONLY <2>1
  <2> QED BY <2>2 DEF n, o, b
<1>12. WrittenTo(s, x) = s[1].off
  BY <1>2 DEF WrittenTo, OnEntry
<1>13. MadeSoFar(Dir, x, s)
  <2>1. DirOK(ent, todo, Dir)
    BY <1>1, DiskParts
  <2> QED BY <1>5, <2>1 DEF DirOK
<1>14. Len(s) >= 2 /\ r # <<>> /\ r[1] = s[2]
  BY <1>2, <1>7, PopMaking
<1>15. s[2].op = "valid" \/ (MakeStep(s[2]) /\ s[2].e = Root)
  BY <1>2, <1>3, <1>4 DEF Goes2
<1>16. WrittenTo(r, x) = s[1].off + 1 /\ (r[1].op = "valid" \/ OnEntry(r, {"store"}, Root))
  <2>1. CASE s[2].op = "valid"
    <3>1. v = 2
      BY <1>2, <1>7, <1>14, <1>3, <2>1, OneValid
    <3>2. r[1].op = "valid"
      BY <1>14, <2>1
    <3>3. WrittenTo(r, x) = x.off + Len(x.name) + 1
      BY <3>2 DEF WrittenTo, OnEntry
    <3> QED BY <1>11, <3>1, <3>2, <3>3
  <2>2. CASE MakeStep(s[2]) /\ s[2].e = Root /\ s[2].op # "valid"
    <3>1. v # 2 /\ 2 \in 1..(v - 1)
      BY <1>7, <2>2
    <3>2. CreateOK(s, f, x)
      BY <1>6 DEF MakerOK
    <3>3. Makes(s, 2, v, f, x)
      BY <1>7, <3>1, <3>2 DEF CreateOK
    <3>4. s[2].off = x.off + Len(x.name) - (v - 1 - 2)
      BY <1>9, <2>2, <3>3 DEF Makes, MakeStep
    <3>5. s[2].off = s[1].off + 1
      <4> DEFINE n == Len(x.name) o == s[1].off b == x.off q == s[2].off
      <4>1. o \in Nat /\ n \in Nat /\ b \in Nat /\ o = b + n - (v - 1 - 1) /\ q = b + n - (v - 1 - 2) /\ v \in Nat
        BY <1>4, <1>7, <1>8, <1>10, <3>4
      <4> HIDE DEF n, o, b, q
      <4> QED BY ONLY <4>1 DEF o, q
    <3>6. OnEntry(r, {"store"}, Root) /\ WrittenTo(r, x) = r[1].off
      BY <1>14, <2>2 DEF WrittenTo, OnEntry, MakeStep
    <3> QED BY <1>14, <3>5, <3>6
  <2> QED BY <1>15, <2>1, <2>2
<1> QED BY <1>4, <1>5, <1>6, <1>10, <1>11, <1>12, <1>13, <1>14, <1>16 DEF Makers

\* only one process makes an entry, and one entry
LEMMA OneMaker ==
  ASSUME NEW l, NEW K, NEW E, NEW T, NEW F, CtlOK(l, K, E, T, F), NEW p \in Procs, NEW f \in File, Creating(T[p], f),
         NEW q \in Procs, NEW e \in File, Creating(T[q], e)
  PROVE  q = p /\ e = f
<1>1. E[Root].lock = p /\ E[Root].lock = q
  BY MakerIs
<1>2. MakerOK(T[p], f, E[f])
  BY MakerIs
<1> QED BY <1>1, <1>2 DEF MakerOK
LEMMA StillMine ==
  ASSUME NEW E, NEW E2, NEW T, NEW t, NEW p, Still(E, E2), CurMoves(E, E2, T, t, p)
  PROVE  Mine(E, E2, p) /\ SameHeads(E, E2)
<1>1. \A x \in Entry : Alike(E[x], E2[x])
  BY DEF Still, AllAlike
<1> QED BY <1>1 DEF Mine, Steady, Alike, CurMoves, SameHeads, InMem
LEMMA StillRest ==
  ASSUME NEW E, NEW E2, Still(E, E2), Sizes(E), RootOK(E), NEW T, NEW T2, \A e \in File : Made(T, e) <=> Made(T2, e)
  PROVE  Sizes(E2) /\ RootOK(E2) /\ SameBound(E, T, E2, T2)
<1>1. \A x \in Entry : Alike(E[x], E2[x])
  BY DEF Still, AllAlike
<1>2. Sizes(E2)
  BY <1>1 DEF Sizes, Alike
<1>3. RootOK(E2)
  BY <1>1, FileEntry DEF RootOK, Alike
<1>4. SameBound(E, T, E2, T2)
  BY <1>1, FileEntry DEF SameBound, Bound, Alike
<1> QED BY <1>2, <1>3, <1>4
LEMMA StepStays ==
  ASSUME NEW x, NEW y, Alike(x, y), NEW D, InStep(x, D)
  PROVE  InStep(y, D)
BY DEF Alike, InStep, Clean
\* one slot of the entry f that a process makes is written
LEMMA DiskSlot ==
  ASSUME NEW l, NEW K, NEW E, NEW T, NEW F, CtlOK(l, K, E, T, F), NEW t, NEW d, NEW D, DiskOK(l, E, T, t, d, D),
         NEW p \in Procs, NEW r, NEW T2, Becomes(T, T2, p, r), NoHead(T[p]), NoHead(r), r # <<>>,
         NEW E2, Still(E, E2), CurMoves(E, E2, T, t, p),
         NEW f \in File, Creating(T[p], f), \A x : Creating(r, x) <=> Creating(T[p], x),
         NEW W, NEW D2, SlotMade(D, D2, E[f], W), MadeSoFar(D, E[f], T[p]), WrittenTo(r, E[f]) = W + 1,
         NEW d2, DatDom(d2), Untouched(E, T, t, t, d, d2, p), LocalOK(r, E2, t, d2)
  PROVE  DiskOK(l, E2, T2, t, d2, D2)
<1> DEFINE x == E[f]
<1>1. /\ Sizes(E) /\ RootOK(E) /\ NamesOK(l, D) /\ CacheOK(E, T, D)
  BY DiskParts
<1>2. f \in Entry /\ Alike(E[f], E2[f])
  BY FileEntry DEF Still, AllAlike
<1>3. \A e : (Made(T, e) <=> Made(T2, e)) /\ \A q \in Procs : Creating(T[q], e) <=> Creating(T2[q], e)
  BY MadeSame
<1>4. Sizes(E2) /\ RootOK(E2) /\ SameBound(E, T, E2, T2)
  BY <1>1, <1>3, StillRest
<1>5. Mine(E, E2, p) /\ SameHeads(E, E2)
  BY StillMine
<1>6. x.name \in Names /\ IsShort(Short(<<>>, x))
  <2>1. Fresh(x) /\ EntDom(E)
    BY MakerIs, Ready
  <2>2. x.name \in Names /\ IsEntry(x)
    BY <1>2, <2>1, EntIs DEF Fresh
  <2>3. (x.first = 0 \/ Cl(x.first)) /\ x.size \in Nat /\ (x.size > 0 => x.first # 0)
    BY <1>1, <1>2 DEF Sizes
  <2>4. x.dir \in BOOLEAN
    BY <2>2 DEF IsEntry
  <2> QED BY <2>2, <2>3, <2>4, MakesShort
<1>7. NamesOK(l, D2)
  <2>1. \A g \in Groups(D) : g # x.off => GName(D, g) # x.name
    BY DEF MadeSoFar
  <2> QED BY <1>1, <1>6, <2>1, SlotNames
<1>8. \A g \in Groups(D) : g \in Groups(D2) /\ GName(D2, g) = GName(D, g) /\ GInfo(D2, g) = GInfo(D, g) /\ g # x.off
  BY DEF SlotMade
<1>9. Bound(E, T, f)
  BY DEF Bound, Made
<1>10. SameDisk(E, T, D, E2, T2, D2)
  <2> SUFFICES ASSUME NEW g \in Nat PROVE DiskHead(E2, T2, D2, g) = DiskHead(E, T, D, g)
    BY DEF SameDisk
  <2>1. DiskHead(E2, T2, D2, g) = DiskHead(E, T, D2, g)
    BY <1>4, DiskHeadSame
  <2>2. CASE g = x.off
    BY <1>9, <2>1, <2>2 DEF DiskHead, OnDisk
  <2>3. CASE g # x.off
    <3>1. (g \in Groups(D2) <=> g \in Groups(D)) /\ (g \in Groups(D) => GInfo(D2, g) = GInfo(D, g))
      BY <1>8, <2>3 DEF SlotMade
    <3> QED BY <2>1, <3>1 DEF DiskHead, OnDisk
  <2> QED BY <2>2, <2>3
<1>11. CacheOK(E2, T2, D2)
  <2>1. ASSUME NEW e \in File, E[e].valid = 1 PROVE InStep(E[e], D2)
    <3>1. InStep(E[e], D)
      BY <1>1, <2>1 DEF CacheOK
    <3> QED BY <1>8, <3>1 DEF InStep
  <2>2. CacheOK(E, T, D2)
    BY <1>1, <2>1 DEF CacheOK
  <2>3. ASSUME NEW e \in File, E2[e].valid = 1 PROVE InStep(E2[e], D2)
    <3>1. Alike(E[e], E2[e])
      BY FileEntry DEF Still, AllAlike
    <3>2. E[e].valid = 1
      BY <2>3, <3>1 DEF Alike
    <3> QED BY <2>1, <3>1, <3>2, StepStays
  <2> QED BY <1>4, <2>2, <2>3, CacheKept
<1>12. MadeSoFar(D2, E2[f], r)
  <2>1. AlikeShort(E[f], E2[f])
    BY <1>2 DEF Alike, AlikeShort
  <2>2. MadeSoFar(D2, E[f], r)
    BY <1>8 DEF MadeSoFar, SlotMade
  <2>3. WrittenTo(r, E[f]) = WrittenTo(r, E[f])
    OBVIOUS
  <2> QED BY <2>1, <2>2, <2>3, MadeKept
<1>13. DirOK(E2, T2, D2)
  <2>1. ASSUME NEW q \in Procs, NEW e \in File, Creating(T2[q], e) PROVE MadeSoFar(D2, E2[e], T2[q])
    <3>1. Creating(T[q], e)
      BY <1>3, <2>1
    <3>2. q = p /\ e = f
      BY <3>1, OneMaker
    <3> QED BY <1>12, <3>2 DEF Becomes
  <2>2. Creating(T2[p], f)
    BY <1>3
  <2> QED BY <2>1, <2>2 DEF DirOK
<1> QED BY <1>4, <1>5, <1>7, <1>10, <1>11, <1>13, DiskDir

PutsCells(i, w, b) == b = Written(data[w.cur], i.off, i.cells)
LEMMA StoreSlot ==
  ASSUME FInv, NEW p \in Procs, StoreOf(p, Root), NEW w, Moved(w, p, Root), w.cnt = todo[p][1].off \div C,
         NEW b, PutsCells(todo[p][1], w, b), Puts1(data, w.cur, b, data'),
         NEW r, Pops(r, todo[p]), Becomes(todo, todo', p, r), UNCHANGED <<load, calls, fat, file>>
  PROVE  FInv'
<1> DEFINE D2 == DirOf(fat, data')
<1>1. CtlOK(load, calls, ent, todo, file) /\ DiskOK(load, ent, todo, fat, data, Dir) /\ DatDom(data)
  BY DiskParts DEF FInv, Ctl, Disk
<1>2. TableOK(fat) /\ IsHead(fat, 2) /\ ent[Root].first = 2 /\ Cl(2) /\ InMem(ent[Root]) /\ ~Cut(todo, Root)
      /\ Cl(ent[Root].first) /\ Root \in Entry
  BY <1>1, RootHead, FileEntry
<1>3. PICK f : Makers(p, f, r)
  BY SlotMaker
<1> DEFINE off == todo[p][1].off v == Make(ent[f].name, Short(<<>>, ent[f]), ent[f].off, off)
<1>4. off \in Nat /\ At1(fat, ent[Root].first, w.cur, off \div C) /\ At1(fat, 2, w.cur, off \div C)
  BY <1>2, <1>3 DEF Makers, Moved
<1>5. w.cur \in Cluster
  BY <1>4, LiveCluster DEF At1
<1>6. IsWritten(data[w.cur], off, v, b)
  BY <1>3 DEF Makers, IsWritten, PutsCells
<1>7. PutSlot(Dir, D2, off, v)
  <2>1. PutSlot(DirOf(fat, data), DirOf(fat, data'), off, v)
    <3> HIDE DEF off, v
    <3> QED BY <1>1, <1>2, <1>4, <1>6, SlotDir
  <2> QED BY <2>1 DEF Dir
<1>8. SlotMade(Dir, D2, ent[f], off)
  <2>1. Partly(Dir, ent[f].off, off, ent[f].name, Short(<<>>, ent[f])) /\ ent[f].name \in Names
        /\ off <= ent[f].off + Len(ent[f].name)
    BY <1>3 DEF Makers, MadeSoFar
  <2> HIDE DEF D2, off
  <2> QED BY <1>7, <2>1, SlotStep DEF v
<1>9. DatDom(data') /\ \A x \in Cluster : x # w.cur => data'[x] = data[x]
  BY <1>1, <1>5, DatPut
<1>10. Untouched(ent, todo, fat, fat, data, data', p)
  <2>1. ButCell(data, data', w.cur)
    BY <1>9 DEF ButCell
  <2>2. Alone(ent, todo, fat, data, data', p, Root)
    BY <1>1, <1>2, <1>4, <2>1, OnlyMine
  <2> QED BY <2>2 DEF Alone
<1>11. Still(ent, ent') /\ CurMoves(ent, ent', todo, fat, p)
  BY DEF Moved, Still
<1>12. CtlOK(load, calls', ent', todo', file')
  BY <1>11, CtlStore
<1>13. todo[p] # <<>> /\ todo[p][1].op = "store" /\ SeqOK(todo[p]) /\ NoHead(todo[p])
  BY <1>1, Ready DEF StoreOf, NoHead
<1>14. \A x : Creating(r, x) <=> Creating(todo[p], x)
  BY <1>13, PopMaking
<1>15. r # <<>> /\ NoHead(r) /\ LocalOK(r, ent', fat, data')
  <2>1. Cl(ent'[Root].first)
    BY <1>2, <1>11 DEF Still, AllAlike, Alike
  <2>2. r # <<>> /\ (r[1].op = "valid" \/ (r[1].op = "store" /\ r[1].e = Root))
    BY <1>3 DEF Makers, OnEntry
  <2> QED BY <2>1, <2>2 DEF NoHead, LocalOK, Shaped
<1>16. f \in File /\ Creating(todo[p], f) /\ MadeSoFar(Dir, ent[f], todo[p]) /\ WrittenTo(r, ent[f]) = off + 1
  BY <1>3 DEF Makers
<1>17. DiskOK(load, ent', todo', fat, data', D2)
  <2> HIDE DEF D2, off
  <2> QED BY <1>1, <1>8, <1>9, <1>10, <1>11, <1>13, <1>14, <1>15, <1>16, DiskSlot
<1>18. Dir' = D2
  BY DEF Dir
<1> HIDE DEF D2
<1> QED BY <1>12, <1>17, <1>18, NextMoved
\* a piece of a file, or a slot of a new directory
LEMMA StoreLocal ==
  ASSUME FInv, NEW p \in Procs, NEW e \in File, StoreOf(p, e), NEW r, Pops(r, todo[p]), NEW E2, Still(ent, E2),
         NEW T2, Becomes(todo, T2, p, r), NEW d2
  PROVE  SameMaking(todo[p], r, ent) /\ NoHead(todo[p]) /\ NoHead(r) /\ LocalOK(r, E2, fat, d2)
<1> DEFINE s == todo[p]
<1>1. CtlOK(load, calls, ent, todo, file) /\ DiskOK(load, ent, todo, fat, data, Dir)
  BY DEF FInv, Ctl, Disk
<1>2. s # <<>> /\ s[1].op = "store" /\ s[1].e = e /\ SeqOK(s) /\ e # Root /\ e \in Entry
  BY <1>1, Ready, FileEntry DEF StoreOf
<1>3. Whole(s, 1) /\ Goes2(s, 1) /\ Len(s) \in Nat
  BY <1>2, FirstIs
<1>4. (\A x : Creating(r, x) <=> Creating(s, x)) /\ (r # <<>> <=> Len(s) >= 2) /\ (Len(s) >= 2 => r[1] = s[2])
  BY <1>2, PopMaking
<1>5. NoHead(s) /\ (UserStep(s[1]) \/ MakeStep(s[1]))
  BY <1>2, <1>3 DEF NoHead, Whole
<1>6. \A x \in Entry : Cl(ent[x].first) => Cl(E2[x].first)
  BY DEF Still, AllAlike, Alike
<1>7. Cl(ent[e].first)
  BY StoreAt DEF StoreOf
<1>8. CASE UserStep(s[1])
  <2>1. Len(s) >= 2 /\ s[2].e = e /\ (s[2].op = "wrote" \/ s[2].op = "store")
    BY <1>2, <1>3, <1>8 DEF Goes2, Writes, Is
  <2>2. r # <<>> /\ r[1].e = e /\ (r[1].op = "wrote" \/ r[1].op = "store")
    BY <1>4, <2>1
  <2>3. WritesFile(s, e)
    BY <1>2, <1>8 DEF WritesFile
  <2>4. \A x \in File : ~Creating(s, x) /\ ~Creating(r, x)
    BY <1>1, <1>4, <2>3, WriterIs
  <2>5. SameMaking(s, r, ent)
    BY <2>4, NoneMakes
  <2>6. Cl(E2[e].first) /\ E2[e].first # 0
    BY <1>2, <1>6, <1>7, ClNot
  <2>7. LocalOK(r, E2, fat, d2)
    BY <2>2, <2>6 DEF LocalOK, Shaped
  <2> QED BY <1>2, <2>2, <2>5, <2>7 DEF NoHead
<1>9. CASE MakeStep(s[1])
  <2>1. Len(s) >= 2 /\ s[2].op = "emake"
    <3>1. s[2].op = "emake" /\ \E v \in 2..Len(s) : s[v].op = "valid"
      BY <1>2, <1>3, <1>9 DEF Goes2
    <3> QED BY <1>3, <3>1
  <2>2. r # <<>> /\ r[1].op = "emake"
    BY <1>4, <2>1
  <2>3. \A x : WrittenTo(s, x) = x.off /\ WrittenTo(r, x) = x.off
    BY <1>2, <2>2 DEF WrittenTo, OnEntry
  <2>4. SameMaking(s, r, ent)
    BY <1>4, <2>3 DEF SameMaking
  <2>5. PICK f \in File : Creating(s, f)
    BY <1>2, <1>3, <1>9, FirstIs, MakesOne
  <2>6. CtlOK(load, calls, E2, T2, file)
    BY CtlStore
  <2>7. T2[p] = r /\ Creating(T2[p], f)
    BY <1>4, <2>5 DEF Becomes
  <2>8. MakerOK(r, f, E2[f])
    BY <2>6, <2>7, MakerIs
  <2>9. r[1].e \in {f, Root}
    BY <2>8 DEF MakerOK
  <2>10. Cl(ent[Root].first)
    BY <1>1, RootHead
  <2>11. f = e
    <3>1. MakerOK(s, f, ent[f])
      BY <1>1, <2>5, MakerIs
    <3> QED BY <1>2, <3>1 DEF MakerOK
  <2>12. Cl(E2[r[1].e].first)
    BY <1>2, <1>6, <1>7, <2>9, <2>10, <2>11, FileEntry
  <2>13. LocalOK(r, E2, fat, d2)
    BY <2>2, <2>12 DEF LocalOK, Shaped
  <2> QED BY <1>2, <2>2, <2>4, <2>13 DEF NoHead
<1> QED BY <1>5, <1>8, <1>9
LEMMA StoreFile ==
  ASSUME FInv, NEW p \in Procs, NEW e \in File, StoreOf(p, e), NEW w, Moved(w, p, e),
         NEW b, Puts1(data, w.cur, b, data'),
         NEW r, Pops(r, todo[p]), Becomes(todo, todo', p, r), UNCHANGED <<load, calls, fat, file>>
  PROVE  FInv'
<1>1. CtlOK(load, calls, ent, todo, file) /\ DiskOK(load, ent, todo, fat, data, Dir)
  BY DEF FInv, Ctl, Disk
<1>2. InMem(ent[e]) /\ ~Cut(todo, e) /\ Cl(ent[e].first) /\ At1(fat, ent[e].first, w.cur, w.cnt)
  BY StoreAt DEF StoreOf, Moved
<1>3. Still(ent, ent') /\ AllAlike(ent, ent') /\ CurMoves(ent, ent', todo, fat, p)
  BY DEF Moved, Still
<1>4. CtlOK(load, calls', ent', todo', file')
  BY <1>3, CtlStore
<1>5. SameMaking(todo[p], r, ent) /\ NoHead(todo[p]) /\ NoHead(r) /\ LocalOK(r, ent', fat, data')
  BY <1>3, StoreLocal
<1>6. DiskOK(load, ent', todo', fat, data', Dir) /\ DirOf(fat, data') = DirOf(fat, data)
  <2> DEFINE c == w.cur m == w.cnt
  <2>1. At1(fat, ent[e].first, c, m) /\ Puts1(data, c, b, data')
    BY <1>2
  <2> HIDE DEF c, m
  <2> QED BY <1>1, <1>2, <1>3, <1>5, <2>1, DiskWrites
<1>7. Dir' = Dir
  BY <1>6 DEF Dir
<1> QED BY <1>4, <1>6, <1>7, NextMoved

\* the caller's memory fails
StopsWriting(r, e) == EwriteForm(r, e) /\ r # <<>> /\ r[1].op = "wrote" /\ r[1].e = e
LEMMA StopIs ==
  ASSUME NEW e \in File, NEW a, a.op = "wrote", a.e = e, a.off \in Nat, NEW r, r = <<a, eunlock(e)>>
  PROVE  StopsWriting(r, e)
<1> DEFINE b == eunlock(e)
<1>1. b.op = "eunlock" /\ b.e = e
  BY DEF eunlock
<1>2. IsSeq(<<a, b>>) /\ Len(<<a, b>>) = 2 /\ <<a, b>>[1] = a /\ <<a, b>>[2] = b
  BY Tup2
<1>3. r = <<a, b>>
  OBVIOUS
<1> HIDE DEF b
<1>4. IsSeq(r) /\ Len(r) = 2 /\ r[1] = a /\ r[2] = b
  BY <1>2, <1>3
<1>5. r # <<>>
  BY ONLY <1>4, SeqEmpty
<1>6. EwriteForm(r, e)
  BY <1>1, <1>4 DEF EwriteForm
<1> QED BY <1>4, <1>5, <1>6 DEF StopsWriting
LEMMA StoreFails ==
  ASSUME FInv, NEW p \in Procs, NEW e \in File, StoreOf(p, e), UserStep(todo[p][1]), NEW w, Moved(w, p, e),
         NEW b, Puts1(data, w.cur, b, data'),
         NEW r, StopsWriting(r, e), Becomes(todo, todo', p, r), UNCHANGED <<load, calls, fat, file>>
  PROVE  FInv'
<1>1. CtlOK(load, calls, ent, todo, file) /\ DiskOK(load, ent, todo, fat, data, Dir)
  BY DEF FInv, Ctl, Disk
<1>2. /\ InMem(ent[e]) /\ ~Cut(todo, e) /\ Cl(ent[e].first) /\ At1(fat, ent[e].first, w.cur, w.cnt)
      /\ e \in Entry
  BY StoreAt, FileEntry DEF StoreOf, Moved
<1>3. Still(ent, ent') /\ AllAlike(ent, ent') /\ CurMoves(ent, ent', todo, fat, p)
  BY DEF Moved, Still
<1>4. WritesFile(todo[p], e) /\ NoHead(todo[p])
  BY DEF WritesFile, StoreOf, NoHead
<1>5. EwriteForm(r, e) /\ r # <<>> /\ r[1].op = "wrote" /\ r[1].e = e
  BY DEF StopsWriting
<1>6. CtlOK(load, calls', ent', todo', file')
  <2>1. Works(ent, ent', e)
    BY <1>3, StillWorks
  <2> QED BY <1>1, <1>4, <1>5, <2>1, CtlWriteForm
<1>7. SameMaking(todo[p], r, ent)
  <2>1. \A d \in File : ~Creating(todo[p], d)
    BY <1>1, <1>4, WriterIs
  <2>2. \A d \in File : ~Creating(r, d)
    BY <1>5, EwriteFits DEF FitsWrite
  <2> QED BY <2>1, <2>2, NoneMakes
<1>8. NoHead(r) /\ LocalOK(r, ent', fat, data')
  <2>1. ent'[e].first # 0
    BY <1>2, <1>3, ClNot DEF AllAlike, Alike
  <2> QED BY <1>5, <2>1 DEF NoHead, LocalOK, Shaped
<1>9. DiskOK(load, ent', todo', fat, data', Dir) /\ DirOf(fat, data') = DirOf(fat, data)
  <2> DEFINE c == w.cur m == w.cnt
  <2>1. At1(fat, ent[e].first, c, m) /\ Puts1(data, c, b, data')
    BY <1>2
  <2> HIDE DEF c, m
  <2> QED BY <1>1, <1>2, <1>3, <1>4, <1>7, <1>8, <2>1, DiskWrites
<1>10. Dir' = Dir
  BY <1>9 DEF Dir
<1> QED BY <1>6, <1>9, <1>10, NextMoved
LEMMA DoStoreStep == ASSUME FInv, NEW p \in Procs, StoreStep(p) PROVE FInv'
<1> DEFINE i == todo[p][1] e == i.e n == i.off \div C w == Seek(ent[e], n)
<1>1. Ctl /\ At(p, "store")
  BY DEF FInv, StoreStep
<1>2. todo[p] # <<>> /\ i.op = "store" /\ Now(p) = i /\ SeqOK(todo[p])
  BY <1>1, AtIs
<1>3. StoreOf(p, e) /\ SeekTo(ent[e], n, w)
  BY <1>2 DEF StoreOf, SeekTo
<1>4. n \in Nat /\ i.off \in Nat /\ e \in Entry /\ (UserStep(i) \/ MakeStep(i))
  <2>1. i.off \in Nat /\ e \in Entry /\ (UserStep(i) \/ MakeStep(i))
    BY <1>2, StoreAt
  <2> QED BY <2>1, DivIs
<1>5. UNCHANGED <<load, calls, fat, file>>
  BY DEF StoreStep
<1>6. /\ ent' = [ent EXCEPT ![e] = MoveTo(@, w)]
      /\ \/ w.cnt = n /\ data' = [data EXCEPT ![w.cur] = Written(@, i.off, i.cells)] /\ Pop(p)
         \/ /\ w.cnt = n /\ i.user
            /\ \E m \in 0..(Len(i.cells) - 1) :
                 data' = [data EXCEPT ![w.cur] = Written(@, i.off, SubSeq(i.cells, 1, m))]
            /\ todo' = [todo EXCEPT ![p] = <<[op |-> "wrote", e |-> e, off |-> i.off, ok |-> FALSE], eunlock(e)>>]
         \/ w.cnt # n /\ todo' = [todo EXCEPT ![p] = <<alloc_clus(e, "more")>> \o @] /\ UNCHANGED data
  BY <1>2, ZenonT(60) DEF StoreStep
<1>7. MovedTo(ent, e, w, ent')
  BY <1>6 DEF MovedTo
<1> HIDE DEF w
<1>8. Moved(w, p, e) /\ (w.cnt # n => fat[w.cur] = EOC)
  <2> HIDE DEF n, e
  <2> QED BY <1>3, <1>4, <1>7, SeekMoves
<1>9. todo = [q \in Procs |-> todo[q]]
  BY <1>1, TodoIs
<1>10. ASSUME w.cnt = n, data' = [data EXCEPT ![w.cur] = Written(@, i.off, i.cells)], Pop(p) PROVE FInv'
  <2>1. PICK r : Pops(r, todo[p]) /\ Becomes(todo, todo', p, r)
    BY <1>1, <1>2, <1>10, DoPop
  <2>2. PICK b : PutsCells(i, w, b) /\ Puts1(data, w.cur, b, data')
    BY <1>10 DEF PutsCells, Puts1
  <2>3. CASE e = Root
    <3>1. StoreOf(p, Root) /\ Moved(w, p, Root) /\ w.cnt = todo[p][1].off \div C /\ PutsCells(todo[p][1], w, b)
      BY <1>3, <1>8, <1>10, <2>2, <2>3
    <3> HIDE DEF i, e, n
    <3> QED BY <1>5, <2>1, <2>2, <3>1, StoreSlot
  <2>4. CASE e # Root
    <3>1. e \in File
      BY <1>4, <2>4, FileEntry
    <3> HIDE DEF i, e, n
    <3> QED BY <1>3, <1>5, <1>8, <2>1, <2>2, <3>1, StoreFile
  <2> QED BY <2>3, <2>4
<1>11. ASSUME i.user, NEW m, data' = [data EXCEPT ![w.cur] = Written(@, i.off, SubSeq(i.cells, 1, m))],
              todo' = [todo EXCEPT ![p] = <<[op |-> "wrote", e |-> e, off |-> i.off, ok |-> FALSE], eunlock(e)>>]
       PROVE  FInv'
  <2>1. UserStep(i)
    BY <1>4, <1>11 DEF MakeStep
  <2>2. e \in File
    <3>1. Whole(todo[p], 1)
      BY <1>2, FirstIs
    <3> QED BY <1>4, <2>1, <3>1, FileEntry DEF Whole
  <2> DEFINE a == [op |-> "wrote", e |-> e, off |-> i.off, ok |-> FALSE] r == <<a, eunlock(e)>>
  <2>3. a.op = "wrote" /\ a.e = e /\ a.off \in Nat
    BY <1>4
  <2>4. StopsWriting(r, e)
    <3> HIDE DEF a, e
    <3> QED BY <2>2, <2>3, StopIs
  <2>5. Becomes(todo, todo', p, r)
    <3>1. todo' = [todo EXCEPT ![p] = r]
      BY <1>11
    <3> HIDE DEF r
    <3> QED BY <1>9, <3>1, BecomesIs
  <2>6. PICK b : Puts1(data, w.cur, b, data')
    BY <1>11 DEF Puts1
  <2> HIDE DEF r
  <2>7. UserStep(todo[p][1])
    BY <2>1
  <2> HIDE DEF i, e, n
  <2> QED BY <1>3, <1>5, <1>8, <2>2, <2>4, <2>5, <2>6, <2>7, StoreFails
<1>12. ASSUME w.cnt # n, todo' = [todo EXCEPT ![p] = <<alloc_clus(e, "more")>> \o @], UNCHANGED data PROVE FInv'
  <2> DEFINE r == Wants(todo[p])
  <2>1. Becomes(todo, todo', p, r)
    <3>1. todo' = [todo EXCEPT ![p] = r]
      BY <1>12 DEF Wants
    <3> HIDE DEF r
    <3> QED BY <1>9, <3>1, BecomesIs
  <2>2. NeedsCluster(r, todo[p]) /\ r[1] = alloc_clus(e, "more")
    <3>1. IsSeq(todo[p]) /\ Len(todo[p]) >= 1
      BY <1>2, FirstIs
    <3> QED BY <3>1, NeedPuts
  <2> HIDE DEF r
  <2>3. fat[w.cur] = EOC
    BY <1>8, <1>12
  <2>4. UNCHANGED <<load, calls, fat, data, file>>
    BY <1>5, <1>12
  <2> HIDE DEF i, e, n
  <2> QED BY <1>3, <1>8, <2>1, <2>2, <2>3, <2>4, StoreNeeds
<1> QED BY <1>6, <1>10, <1>11, <1>12

\* the end of ealloc()
ValidPut(E, E2, e) == E2 = [E EXCEPT ![e].valid = 1, ![e].lock = NoProc]
ValidSet(E, E2, e) ==
  /\ EntDom(E2) /\ E2[e].valid = 1 /\ E2[e].lock = NoProc /\ E2[e].ref = E[e].ref /\ E2[e].name = E[e].name
  /\ AlikeShort(E[e], E2[e]) /\ E2[e].dirty = E[e].dirty /\ E2[e].cur = E[e].cur /\ E2[e].cnt = E[e].cnt
  /\ \A d \in Entry : d # e => E2[d] = E[d]
LEMMA ValidPutIs ==
  ASSUME NEW E, EntDom(E), NEW e \in Entry, NEW E2, ValidPut(E, E2, e)
  PROVE  ValidSet(E, E2, e)
<1>1. IsEntry(E[e]) /\ E = [d \in Entry |-> E[d]]
  BY EntIs DEF EntDom
<1> DEFINE x == E[e] y == [x EXCEPT !.valid = 1, !.lock = NoProc] z == [x EXCEPT !.valid = 1]
<1>2. /\ z.valid = 1 /\ z.lock = x.lock /\ z.name = x.name /\ z.dir = x.dir /\ z.first = x.first /\ z.size = x.size
      /\ z.cur = x.cur /\ z.cnt = x.cnt /\ z.dirty = x.dirty /\ z.ref = x.ref /\ z.off = x.off /\ IsEnt(z)
  BY <1>1 DEF IsEntry, IsEnt
<1>3. y = [z EXCEPT !.lock = NoProc]
  BY <1>1 DEF IsEntry, IsEnt
<1> HIDE DEF z
<1>4. /\ y.valid = z.valid /\ y.lock = NoProc /\ y.name = z.name /\ y.dir = z.dir /\ y.first = z.first /\ y.size = z.size
      /\ y.cur = z.cur /\ y.cnt = z.cnt /\ y.dirty = z.dirty /\ y.ref = z.ref /\ y.off = z.off /\ IsEnt(y)
  BY <1>2, <1>3 DEF IsEnt
<1>5. Puts1(E, e, y, E2)
  BY <1>1 DEF ValidPut, Puts1
<1> HIDE DEF y
<1>6. IsEntry(y)
  BY <1>1, <1>2, <1>4 DEF IsEntry
<1>7. EntDom(E2) /\ E2[e] = y /\ \A d \in Entry : d # e => E2[d] = E[d]
  BY <1>5, <1>6, EntSet
<1> QED BY <1>2, <1>4, <1>7 DEF ValidSet, AlikeShort
LEMMA ValidNext ==
  ASSUME NEW s, SeqOK(s), s # <<>>, s[1].op = "valid", NEW r, Pops(r, s), NEW E, NEW t, NEW d
  PROVE  NoHead(s) /\ NoHead(r) /\ LocalOK(r, E, t, d) /\ \A e : ~Creating(r, e)
<1>1. Goes2(s, 1) /\ Len(s) \in Nat /\ Len(s) >= 1 /\ 1 \in 1..Len(s)
  BY FirstIs
<1>2. Is(s, 2, "eunlock", Root) /\ \E f : Is(s, 3, "eput", f) \/ Is(s, 3, "elock", f)
  BY <1>1 DEF Goes2
<1>3. /\ SeqOK(r) /\ Len(r) = Len(s) - 1 /\ (r # <<>> <=> Len(s) >= 2)
      /\ \A k \in 1..(Len(s) - 1) : r[k] = s[k + 1]
  BY PopIs
<1>4. Len(s) >= 3 /\ s[2].op = "eunlock" /\ s[2].e = Root /\ s[3].op \in {"eput", "elock"}
  BY <1>1, <1>2 DEF Is
<1>5. r # <<>> /\ r[1].op = "eunlock" /\ r[1].e = Root /\ r[2].op \in {"eput", "elock"}
  <2>1. 1 \in 1..(Len(s) - 1) /\ 2 \in 1..(Len(s) - 1)
    BY <1>1, <1>4
  <2>2. r[1] = s[2] /\ r[2] = s[3]
    BY <1>3, <2>1
  <2> QED BY <1>1, <1>3, <1>4, <2>2
<1>6. LocalOK(r, E, t, d)
  BY <1>5 DEF LocalOK, Shaped, Is
<1>7. \A e : ~Creating(r, e)
  <2>1. ASSUME NEW k \in 1..Len(r) PROVE r[k].op # "valid"
    <3>1. k \in 1..(Len(s) - 1) /\ k + 1 \in 1..Len(s) /\ k + 1 # 1
      BY <1>1, <1>3
    <3>2. r[k] = s[k + 1]
      BY <1>3, <3>1
    <3>3. s[k + 1].op # "valid"
      BY <1>1, <3>1, OneValid
    <3> QED BY <3>2, <3>3
  <2> QED BY <2>1 DEF Creating, Has
<1> QED BY <1>5, <1>6, <1>7 DEF NoHead
\* an entry all of whose slots are there is in step with them
LEMMA MadeWhole ==
  ASSUME NEW x, x.name \in Names, NEW D, NEW s, s # <<>>, s[1].op = "valid", MadeSoFar(D, x, s)
  PROVE  /\ x.off \in Groups(D) /\ GName(D, x.off) = x.name /\ DirShape(D)
         /\ GInfo(D, x.off).first = x.first /\ GInfo(D, x.off).size = x.size /\ GInfo(D, x.off).dir = x.dir
<1> DEFINE W == x.off + Len(x.name) + 1
<1>1. WrittenTo(s, x) = W
  BY DEF WrittenTo, OnEntry
<1>2. Partly(D, x.off, W, x.name, Short(<<>>, x))
  BY <1>1 DEF MadeSoFar
<1>3. IsName(x.name) /\ x.name = [i \in 1..Len(x.name) |-> x.name[i]]
  BY NameIs
<1> DEFINE sh == Short(<<>>, x)
<1>4. sh.k = "short" /\ sh.first = x.first /\ sh.size = x.size /\ sh.dir = x.dir
  BY DEF Short
<1> HIDE DEF sh
<1>5. Partly(D, x.off, W, x.name, sh)
  BY <1>2 DEF sh
<1>6. /\ IsGroup(D, x.off) /\ GEnd(D, x.off) = x.off + Len(x.name) /\ GInfo(D, x.off) = sh
      /\ Spelled(GName(D, x.off), x.name) /\ Regular(D, W)
  BY <1>3, <1>4, <1>5, PartDone
<1>7. x.off \in Nat /\ Free(D, W) /\ W \in Nat
  BY <1>3, <1>5 DEF Partly, IsName
<1>8. GName(D, x.off) = x.name
  BY <1>3, <1>6 DEF Spelled
<1> HIDE DEF W
<1> QED BY <1>4, <1>6, <1>7, <1>8 DEF Groups, DirShape

LEMMA DiskValid ==
  ASSUME NEW l, NEW K, NEW E, NEW T, NEW F, CtlOK(l, K, E, T, F), NEW t, NEW d, NEW D, DiskOK(l, E, T, t, d, D),
         NEW p \in Procs, T[p] # <<>>, T[p][1].op = "valid", NEW r, Pops(r, T[p]), NEW T2, Becomes(T, T2, p, r),
         NEW f \in File, Creating(T[p], f), NEW E2, ValidSet(E, E2, f)
  PROVE  DiskOK(l, E2, T2, t, d, D)
<1>1. /\ Sizes(E) /\ RootOK(E) /\ NamesOK(l, D) /\ CacheOK(E, T, D) /\ DirOK(E, T, D) /\ DatDom(d)
  BY DiskParts
<1>2. SeqOK(T[p]) /\ EntDom(E)
  BY Ready
<1>3. NoHead(T[p]) /\ NoHead(r) /\ LocalOK(r, E2, t, d) /\ \A e : ~Creating(r, e)
  BY <1>2, ValidNext
<1>4. f \in Entry /\ f # Root
  BY FileEntry
<1>5. Fresh(E[f]) /\ E[f].lock = p
  BY MakerIs
<1>6. /\ E2[f].valid = 1 /\ E2[f].ref = 1 /\ AlikeShort(E[f], E2[f]) /\ Clean(E2[f]) /\ E2[f].name = E[f].name
      /\ E2[f].cur = E[f].cur /\ E2[f].cnt = E[f].cnt /\ (\A e \in Entry : e # f => E2[e] = E[e])
      /\ E[f].ref = 1 /\ E[f].name \in Names
  BY <1>5 DEF ValidSet, Fresh, Clean
<1>7. Mine(E, E2, p) /\ SameHeads(E, E2) /\ CurMoves(E, E2, T, t, p)
  <2>1. Mine(E, E2, p)
    BY <1>5, <1>6 DEF Mine, Steady
  <2>2. SameHeads(E, E2)
    BY <1>6 DEF SameHeads, InMem, AlikeShort
  <2>3. CurMoves(E, E2, T, t, p)
    BY <1>6 DEF CurMoves
  <2> QED BY <2>1, <2>2, <2>3
<1>8. ASSUME NEW q \in Procs, NEW e \in File, Creating(T[q], e) PROVE q = p /\ e = f
  BY <1>8, OneMaker
<1>9. ASSUME NEW q \in Procs, NEW e \in File PROVE ~Creating(T2[q], e)
  BY <1>3, <1>8 DEF Becomes
<1>10. SameBound(E, T, E2, T2)
  <2> SUFFICES ASSUME NEW e \in File
               PROVE  (Bound(E, T, e) <=> Bound(E2, T2, e)) /\ (Bound(E, T, e) => E2[e].off = E[e].off)
    BY DEF SameBound
  <2>1. ~Made(T2, e) /\ (Made(T, e) <=> e = f)
    BY <1>8, <1>9 DEF Made
  <2>2. CASE e = f
    BY <1>6, <2>1, <2>2 DEF Bound, AlikeShort
  <2>3. CASE e # f
    BY <1>6, <2>1, <2>3, FileEntry DEF Bound
  <2> QED BY <2>2, <2>3
<1>11. SameDisk(E, T, D, E2, T2, D)
  BY <1>10, DiskHeadSame DEF SameDisk
<1>12. MadeSoFar(D, E[f], T[p])
  BY <1>1 DEF DirOK
<1>13. InStep(E2[f], D) /\ DirShape(D)
  <2> DEFINE x == E[f]
  <2>1. /\ x.off \in Groups(D) /\ GName(D, x.off) = x.name /\ DirShape(D)
        /\ GInfo(D, x.off).first = x.first /\ GInfo(D, x.off).size = x.size /\ GInfo(D, x.off).dir = x.dir
    BY <1>6, <1>12, MadeWhole
  <2> QED BY <1>6, <2>1 DEF InStep, AlikeShort
<1>14. Sizes(E2) /\ RootOK(E2)
  <2>1. RootOK(E2)
    BY <1>1, <1>4, <1>6, FileEntry DEF RootOK
  <2>2. ASSUME NEW e \in Entry
        PROVE  /\ E2[e].first = 0 \/ Cl(E2[e].first)
               /\ E2[e].size \in Nat /\ E2[e].off \in Nat /\ (E2[e].size > 0 => E2[e].first # 0)
    <3>1. E2[e].first = E[e].first /\ E2[e].size = E[e].size /\ E2[e].off = E[e].off
      BY <1>6 DEF AlikeShort
    <3> QED BY <1>1, <3>1 DEF Sizes
  <2> QED BY <2>1, <2>2 DEF Sizes
<1>15. CacheOK(E2, T2, D)
  <2>1. ASSUME NEW e \in File, E2[e].valid = 1 PROVE InStep(E2[e], D)
    <3>1. CASE e = f
      BY <1>13, <3>1
    <3>2. CASE e # f
      <4>1. E2[e] = E[e]
        BY <1>6, <3>2, FileEntry
      <4> QED BY <1>1, <2>1, <4>1 DEF CacheOK
    <3> QED BY <3>1, <3>2
  <2> QED BY <1>1, <1>10, <2>1, CacheKept
<1>16. DirOK(E2, T2, D)
  BY <1>9, <1>13 DEF DirOK
<1>17. Untouched(E, T, t, t, d, d, p)
  BY KeepsSame
<1> QED BY <1>1, <1>3, <1>7, <1>11, <1>14, <1>15, <1>16, <1>17, DiskDir
LEMMA DoValid == ASSUME FInv, NEW p \in Procs, Valid(p) PROVE FInv'
<1> DEFINE e == todo[p][1].e
<1>1. Ctl /\ At(p, "valid") /\ UNCHANGED <<load, calls, fat, data, file>> /\ Pop(p)
  BY DEF FInv, Valid
<1>2. todo[p] # <<>> /\ todo[p][1].op = "valid" /\ Now(p) = todo[p][1] /\ SeqOK(todo[p])
  BY <1>1, AtIs
<1>3. ValidPut(ent, ent', e)
  BY <1>2 DEF Valid, ValidPut
<1>4. PICK r : Pops(r, todo[p]) /\ Becomes(todo, todo', p, r)
  BY <1>1, <1>2, DoPop
<1>5. e \in File /\ e \in Entry /\ Creating(todo[p], e)
  <2>1. Whole(todo[p], 1) /\ 1 \in 1..Len(todo[p])
    BY <1>2, FirstIs
  <2>2. e \in File
    BY <1>2, <2>1 DEF Whole, Ops, OnFile, File
  <2> QED BY <1>2, <2>1, <2>2, FileEntry DEF Creating, Has
<1>6. CtlOK(load, calls, ent, todo, file) /\ DiskOK(load, ent, todo, fat, data, Dir)
  BY DEF FInv, Ctl, Disk
<1>7. EntDom(ent)
  BY <1>1, TodoIs
<1>8. ValidSet(ent, ent', e)
  <2> HIDE DEF e
  <2> QED BY <1>3, <1>5, <1>7, ValidPutIs
<1>9. CtlOK(load, calls, ent', todo', file)
  <2>1. /\ EntDom(ent') /\ ent'[e].valid = 1 /\ ent'[e].lock = NoProc /\ ent'[e].ref = ent[e].ref
        /\ ent'[e].name = ent[e].name /\ \A d \in Entry : d # e => ent'[d] = ent[d]
    BY <1>8 DEF ValidSet
  <2> QED BY <1>2, <1>4, <1>6, <2>1, CtlValid
<1>10. DiskOK(load, ent', todo', fat, data, Dir)
  <2> HIDE DEF e
  <2> QED BY <1>2, <1>4, <1>5, <1>6, <1>8, DiskValid
<1>11. Dir' = Dir
  BY <1>1, DirSame
<1>12. CtlOK(load, calls', ent', todo', file')
  BY <1>1, <1>9
<1>13. DiskOK(load, ent', todo', fat', data', Dir)
  BY <1>1, <1>10
<1>14. load' = load
  BY <1>1
<1> QED BY <1>11, <1>12, <1>13, <1>14, NextMoved

\* slots of the root directory that are there are written
InSlots(offs) == \A o \in offs : o \in Nat /\ Dir[o].k # "byte"
SetBy(d2, offs, v) == d2 = SetCells(Root, offs, v)
At2(o) == To(fat, 2, o \div C)
SetCell(offs, v, c, k) == IF \E o \in offs : c = At2(o) /\ k = o % C THEN v ELSE data[c][k]
LEMMA SlotLive ==
  ASSUME FInv, NEW o \in Nat, Dir[o].k # "byte"
  PROVE  Live(fat, At2(o))
<1>1. CtlOK(load, calls, ent, todo, file) /\ DiskOK(load, ent, todo, fat, data, Dir)
  BY DEF FInv, Ctl, Disk
<1>2. TableOK(fat) /\ IsHead(fat, 2)
  BY <1>1, RootHead
<1>3. DirOf(fat, data)[o].k # "byte"
  BY DEF Dir
<1> QED BY <1>2, <1>3, DirInside DEF At2
LEMMA SetCellsAt ==
  ASSUME FInv, NEW offs, InSlots(offs), NEW v, NEW d2, SetBy(d2, offs, v)
  PROVE  /\ DatDom(d2)
         /\ \A c \in Cluster : d2[c] = [k \in 0..(C - 1) |-> SetCell(offs, v, c, k)]
<1>1. CtlOK(load, calls, ent, todo, file) /\ DiskOK(load, ent, todo, fat, data, Dir)
  BY DEF FInv, Ctl, Disk
<1>2. TableOK(fat) /\ IsHead(fat, 2) /\ ent[Root].first = 2
  BY <1>1, RootHead
<1>3. PICK l : IsLength(fat, 2, l)
  BY <1>2, HasLength
<1> DEFINE s == Chain(ent[Root].first)
<1>4. s = [k \in 1..l |-> To(fat, 2, k - 1)] /\ l \in Nat
  <2>1. Chain(2) = Ch(fat, 2)
    BY ChainIs
  <2>2. Ch(fat, 2) = [k \in 1..l |-> To(fat, 2, k - 1)]
    BY <1>2, <1>3, ChIs
  <2>3. l \in Nat
    BY <1>3, Bounds DEF IsLength
  <2> QED BY <1>2, <2>1, <2>2, <2>3
<1>5. ASSUME NEW o \in offs PROVE s[o \div C + 1] = At2(o)
  <2>1. o \in Nat /\ Live(fat, At2(o))
    BY SlotLive DEF InSlots
  <2> DEFINE n == o \div C
  <2>2. n \in Nat
    BY <2>1, DivIs
  <2>3. Live(fat, To(fat, 2, n))
    BY <2>1 DEF At2
  <2>4. At2(o) = To(fat, 2, n)
    BY DEF At2
  <2> HIDE DEF n
  <2>5. n < l
    BY <1>3, <1>4, <2>2, <2>3, LiveNotEOC DEF IsLength
  <2>6. n + 1 \in 1..l /\ (n + 1) - 1 = n
    BY <1>4, <2>2, <2>5
  <2>7. s[n + 1] = To(fat, 2, n)
    <3> HIDE DEF s
    <3> QED BY <1>4, <2>6
  <2> QED BY <2>4, <2>7 DEF n
<1>6. d2 = [c \in Cluster |-> [k \in 0..(C - 1) |->
              IF \E o \in offs : c = s[o \div C + 1] /\ k = o % C THEN v ELSE data[c][k]]]
  BY DEF SetBy, SetCells
<1> HIDE DEF s
<1>7. d2 = [c \in Cluster |-> [k \in 0..(C - 1) |-> SetCell(offs, v, c, k)]]
  <2>1. ASSUME NEW c, NEW k
        PROVE (IF \E o \in offs : c = s[o \div C + 1] /\ k = o % C THEN v ELSE data[c][k]) = SetCell(offs, v, c, k)
    BY <1>5 DEF SetCell
  <2> QED BY <1>6, <2>1
<1> QED BY <1>7 DEF DatDom
LEMMA SetCellsIs ==
  ASSUME FInv, NEW offs, InSlots(offs), NEW v, NEW d2, SetBy(d2, offs, v)
  PROVE  /\ DatDom(d2) /\ CellsSet(fat, data, d2, offs, v)
         /\ \A p \in Procs : Untouched(ent, todo, fat, fat, data, d2, p)
<1>1. CtlOK(load, calls, ent, todo, file) /\ DiskOK(load, ent, todo, fat, data, Dir)
  BY DEF FInv, Ctl, Disk
<1>2. TableOK(fat) /\ IsHead(fat, 2)
  BY <1>1, RootHead
<1>3. DatDom(d2) /\ \A c \in Cluster : d2[c] = [k \in 0..(C - 1) |-> SetCell(offs, v, c, k)]
  BY SetCellsAt
<1>4. CellsSet(fat, data, d2, offs, v)
  <2>1. ASSUME NEW o \in offs PROVE o \in Nat /\ Live(fat, To(fat, 2, o \div C))
    BY SlotLive DEF InSlots, At2
  <2>2. ASSUME NEW n \in Nat, NEW k \in 0..(C - 1), Live(fat, To(fat, 2, n))
        PROVE  d2[To(fat, 2, n)][k] = SetCell(offs, v, To(fat, 2, n), k)
    BY <1>3, <2>2, LiveCluster
  <2> QED BY <2>1, <2>2 DEF CellsSet, SetCell, At2
<1>5. ASSUME NEW q \in Procs, Cl(Held(todo[q])), data[Held(todo[q])] = Zeros PROVE d2[Held(todo[q])] = Zeros
  <2> DEFINE c == Held(todo[q])
  <2>1. Heads(ent, todo, Dir)[Ip(q)] = c /\ IsHead(fat, c)
    BY <1>1, <1>5, HeldHead
  <2>2. c # 2
    BY <1>1, <2>1, RootHead, IdxIs, IdxApart, FileEntry
  <2> HIDE DEF c
  <2>3. ASSUME NEW n \in Nat, To(fat, 2, n) = c PROVE FALSE
    <3>1. To(fat, c, 0) = c
      BY ToIs
    <3>2. To(fat, 2, n) # EOC
      BY <1>5, <2>3, ClNot DEF c
    <3> QED BY <1>2, <2>1, <2>2, <2>3, <3>1, <3>2, Apart
  <2>4. ASSUME NEW o \in offs PROVE At2(o) # c
    <3>1. o \div C \in Nat
      BY DivIs DEF InSlots
    <3> QED BY <2>3, <3>1 DEF At2
  <2>5. c \in Cluster
    BY <1>5, ClNot DEF c
  <2>6. data[c] = [k \in 0..(C - 1) |-> Byte(0)]
    BY <1>5 DEF c, Zeros
  <2>7. \A k \in 0..(C - 1) : SetCell(offs, v, c, k) = Byte(0)
    BY <2>4, <2>6 DEF SetCell
  <2>8. d2[c] = Zeros
    BY <1>3, <2>5, <2>7 DEF Zeros
  <2> QED BY <2>8 DEF c
<1>6. ASSUME NEW p \in Procs PROVE Untouched(ent, todo, fat, fat, data, data, p)
  BY <1>1, KeepsSame
<1> QED BY <1>3, <1>4, <1>5, <1>6 DEF Untouched
LEMMA SetSlots ==
  ASSUME FInv, NEW offs, InSlots(offs), NEW v, NEW d2, SetBy(d2, offs, v)
  PROVE  SlotsSet(Dir, DirOf(fat, d2), offs, v)
<1>1. CtlOK(load, calls, ent, todo, file) /\ DiskOK(load, ent, todo, fat, data, Dir)
  BY DEF FInv, Ctl, Disk
<1>2. TableOK(fat) /\ IsHead(fat, 2)
  BY <1>1, RootHead
<1>3. CellsSet(fat, data, d2, offs, v)
  BY SetCellsIs
<1>4. SlotsSet(DirOf(fat, data), DirOf(fat, d2), offs, v)
  BY <1>2, <1>3, DirSet
<1> QED BY <1>4 DEF Dir

\* a process that has the lock of the root and makes nothing finds the directory whole
RootIdle(p) == ent[Root].lock = p /\ \A e \in File : ~Creating(todo[p], e)
LEMMA IdleRoot ==
  ASSUME FInv, NEW p \in Procs, RootIdle(p)
  PROVE  /\ DirShape(Dir) /\ DirSound /\ ent[Root].first = 2 /\ TableOK(fat) /\ IsHead(fat, 2)
         /\ \A q \in Procs, e \in File : ~Creating(todo[q], e)
<1>1. CtlOK(load, calls, ent, todo, file) /\ DiskOK(load, ent, todo, fat, data, Dir)
  BY DEF FInv, Ctl, Disk
<1>2. TableOK(fat) /\ IsHead(fat, 2) /\ ent[Root].first = 2
  BY <1>1, RootHead
<1>3. ASSUME NEW q \in Procs, NEW e \in File, Creating(todo[q], e) PROVE FALSE
  <2>1. ent[Root].lock = q
    BY <1>1, <1>3, MakerIs
  <2> QED BY <1>3, <2>1 DEF RootIdle
<1>4. DirOK(ent, todo, Dir)
  BY <1>1, DiskParts
<1>5. DirShape(Dir)
  BY <1>3, <1>4 DEF DirOK
<1>6. DirSound
  BY <1>2, <1>5 DEF DirSound, DirShape
<1> QED BY <1>2, <1>3, <1>5, <1>6
LEMMA OrderIs ==
  ASSUME ent[Root].first = 2, NEW g \in Groups(Dir)
  PROVE  /\ g \in Nat /\ OrderAt(Root, g) = Dir[g].order /\ OrderAt(Root, g) \in Nat
         /\ g + OrderAt(Root, g) = GEnd(Dir, g) /\ GEnd(Dir, g) \in Nat /\ GEnd(Dir, g) > g
<1>1. g \in Nat /\ IsGroup(Dir, g)
  BY DEF Groups
<1>2. GEnd(Dir, g) \in Nat /\ GEnd(Dir, g) > g /\ Dir[g].k = "long"
  BY <1>1, GroupIs
<1>3. Dir[g].order \in Nat
  BY <1>1, GroupSlots
<1>4. Cell(2, g) = Dir[g]
  BY <1>1, CellDir
<1> DEFINE f(c) == IF c.k = "long" THEN c.order ELSE Initial[c.name]
<1>5. OrderAt(Root, g) = The({f(c) : c \in {Dir[g]}})
  BY <1>4 DEF OrderAt
<1>6. {f(c) : c \in {Dir[g]}} = {Dir[g].order}
  BY <1>2
<1>7. OrderAt(Root, g) = Dir[g].order
  BY <1>5, <1>6, TheIs
<1> QED BY <1>1, <1>2, <1>3, <1>7 DEF GEnd
\* the entry e becomes x, and the root has another place in its chain
TwoPuts(E, E2, e, x, y) == E2 = [E EXCEPT ![e] = x, ![Root] = y]
Changed(E, E2, e, x, y) ==
  /\ EntDom(E2) /\ E2[e] = x /\ E2[Root] = y /\ Alike(E[Root], y) /\ y.lock = E[Root].lock
  /\ \A d \in File : d # e => E2[d] = E[d]
LEMMA ChangedIs ==
  ASSUME NEW E, EntDom(E), NEW e \in File, NEW x, IsEntry(x), NEW y, NEW t, MovesCur(E[Root], y, t), NEW E2,
         TwoPuts(E, E2, e, x, y)
  PROVE  Changed(E, E2, e, x, y)
<1> DEFINE E1 == [E EXCEPT ![e] = x]
<1>1. e \in Entry /\ e # Root /\ Root \in Entry
  BY FileEntry
<1>2. Puts1(E, e, x, E1) /\ Puts1(E1, Root, y, E2)
  BY DEF Puts1, TwoPuts
<1> HIDE DEF E1
<1>3. EntDom(E1) /\ E1[e] = x /\ \A d \in Entry : d # e => E1[d] = E[d]
  BY <1>1, <1>2, EntSet
<1>4. IsEntry(y) /\ Alike(E[Root], y) /\ y.lock = E[Root].lock
  BY DEF MovesCur
<1>5. EntDom(E2) /\ E2[Root] = y /\ \A d \in Entry : d # Root => E2[d] = E1[d]
  BY <1>1, <1>2, <1>3, <1>4, EntSet
<1> QED BY <1>1, <1>3, <1>4, <1>5, FileEntry DEF Changed
\* what is the same when the entry keeps its lock, its name and its clusters
SameFile(x, y) == /\ y.first = x.first /\ y.cur = x.cur /\ y.cnt = x.cnt /\ y.lock = x.lock /\ y.ref = x.ref
                  /\ y.name = x.name /\ y.size = x.size /\ y.off = x.off /\ y.dir = x.dir
LEMMA ChangedSame ==
  ASSUME NEW E, EntDom(E), NEW p, NEW e \in File, E[e].lock = p, E[Root].lock = p, E[e].ref > 0, NEW x, IsEntry(x),
         SameFile(E[e], x), x.valid = 0 => E[e].valid = 0,
         NEW y, NEW t, MovesCur(E[Root], y, t), NEW E2, TwoPuts(E, E2, e, x, y), NEW T
  PROVE  /\ Changed(E, E2, e, x, y) /\ Works(E, E2, e)
         /\ Mine(E, E2, p) /\ SameHeads(E, E2) /\ CurMoves(E, E2, T, t, p)
<1>1. Changed(E, E2, e, x, y) /\ e # Root /\ e \in Entry
  BY ChangedIs, FileEntry
<1>2. At1(t, y.first, y.cur, y.cnt) /\ y.first = E[Root].first
  BY DEF MovesCur, Alike
<1>3. /\ EntDom(E2) /\ E2[e] = x /\ E2[Root] = y /\ Alike(E[Root], y) /\ y.lock = E[Root].lock
      /\ \A d \in Entry : d = e \/ d = Root \/ E2[d] = E[d]
  BY <1>1, FileEntry DEF Changed
<1>4. Works(E, E2, e)
  BY <1>1, <1>3 DEF Works, SameFile, Alike
<1>5. Mine(E, E2, p)
  BY <1>3 DEF Mine, Steady
<1>6. SameHeads(E, E2)
  <2> SUFFICES ASSUME NEW d \in Entry PROVE (InMem(E[d]) <=> InMem(E2[d])) /\ E2[d].first = E[d].first
    BY DEF SameHeads
  <2>1. CASE d = e
    BY <1>3, <2>1 DEF InMem, SameFile
  <2>2. CASE d = Root
    BY <1>3, <2>2 DEF InMem, Alike
  <2>3. CASE d # e /\ d # Root
    BY <1>3, <2>3
  <2> QED BY <2>1, <2>2, <2>3
<1>7. CurMoves(E, E2, T, t, p)
  <2> SUFFICES ASSUME NEW d \in Entry
               PROVE  \/ E2[d].cur = E[d].cur /\ E2[d].cnt = E[d].cnt
                      \/ /\ E[d].lock \in {p, NoProc}
                         /\ InMem(E[d]) /\ Cl(E[d].first) /\ ~Cut(T, d) => At1(t, E[d].first, E2[d].cur, E2[d].cnt)
    BY DEF CurMoves
  <2>1. CASE d = e
    BY <1>3, <2>1 DEF SameFile
  <2>2. CASE d = Root
    BY <1>2, <1>3, <2>2
  <2>3. CASE d # e /\ d # Root
    BY <1>3, <2>3
  <2> QED BY <2>1, <2>2, <2>3
<1> QED BY <1>1, <1>4, <1>5, <1>6, <1>7

LEMMA ChangedRest ==
  ASSUME NEW E, NEW E2, NEW e \in File, NEW x, NEW y, Changed(E, E2, e, x, y), Sizes(E), RootOK(E),
         x.first = 0 \/ Cl(x.first), x.size \in Nat, x.off \in Nat, x.size > 0 => x.first # 0
  PROVE  Sizes(E2) /\ RootOK(E2)
<1>1. /\ E2[e] = x /\ E2[Root] = y /\ Alike(E[Root], y) /\ e # Root
      /\ \A d \in Entry : d = e \/ d = Root \/ E2[d] = E[d]
  BY FileEntry DEF Changed
<1>2. RootOK(E2)
  BY <1>1 DEF RootOK, Alike
<1>3. ASSUME NEW d \in Entry
      PROVE  /\ E2[d].first = 0 \/ Cl(E2[d].first)
             /\ E2[d].size \in Nat /\ E2[d].off \in Nat /\ (E2[d].size > 0 => E2[d].first # 0)
  <2>1. CASE d = e
    BY <1>1, <2>1
  <2>2. CASE d = Root
    BY <1>1, <2>2 DEF Sizes, Alike
  <2>3. CASE d # e /\ d # Root
    BY <1>1, <2>3 DEF Sizes
  <2> QED BY <2>1, <2>2, <2>3
<1> QED BY <1>2, <1>3 DEF Sizes
\* the short entry of a file has the value v now
Updated(D, D2, g, v) ==
  /\ DirShape(D2) /\ Groups(D2) = Groups(D) /\ GInfo(D2, g) = v
  /\ \A h \in Groups(D) : GName(D2, h) = GName(D, h) /\ (h # g => GInfo(D2, h) = GInfo(D, h))
LEMMA UpdateSlots ==
  ASSUME NEW D, NEW g \in Groups(D), DirShape(D), NEW v, v.k = "short", NEW D2, SlotsSet(D, D2, {GEnd(D, g)}, v)
  PROVE  Updated(D, D2, g, v)
<1>1. PICK N \in Nat : Regular(D, N) /\ Free(D, N)
  BY DEF DirShape
<1>2. \A o \in Nat : D2[o] = IF o = GEnd(D, g) THEN v ELSE D[o]
  BY DEF SlotsSet
<1>3. /\ Regular(D2, N) /\ Free(D2, N) /\ Groups(D2) = Groups(D)
      /\ \A h \in Groups(D) : /\ GName(D2, h) = GName(D, h)
                              /\ GInfo(D2, h) = IF h = g THEN v ELSE GInfo(D, h)
  BY <1>1, <1>2, DirUpdate
<1> QED BY <1>3 DEF Updated, DirShape
\* what eupdate() writes for the entry x
InfoOf(c, x, v) == v = [c EXCEPT !.first = x.first, !.size = x.size]
LEMMA InfoIs ==
  ASSUME NEW c, IsShort(c), NEW x, x.first = 0 \/ Cl(x.first), x.size \in Nat, x.size > 0 => x.first # 0,
         NEW v, InfoOf(c, x, v)
  PROVE  IsShort(v) /\ v.k = "short" /\ v.first = x.first /\ v.size = x.size /\ v.dir = c.dir
<1> DEFINE u == [c EXCEPT !.first = x.first]
<1>1. c = [k |-> "short", name |-> c.name, first |-> c.first, size |-> c.size, dir |-> c.dir]
  BY DEF IsShort
<1>2. u = [k |-> "short", name |-> c.name, first |-> x.first, size |-> c.size, dir |-> c.dir]
  BY <1>1
<1>3. v = [u EXCEPT !.size = x.size]
  BY <1>1 DEF InfoOf
<1> HIDE DEF u
<1>4. v = [k |-> "short", name |-> c.name, first |-> x.first, size |-> x.size, dir |-> c.dir]
  BY <1>2, <1>3
<1>5. v.k = "short" /\ v.name = c.name /\ v.first = x.first /\ v.size = x.size /\ v.dir = c.dir
  BY ONLY <1>4
<1>6. v = [k |-> "short", name |-> v.name, first |-> v.first, size |-> v.size, dir |-> v.dir]
  BY ONLY <1>4, <1>5
<1>7. c.dir \in BOOLEAN
  BY DEF IsShort
<1>8. v.first = 0 \/ Cl(v.first)
  BY <1>5
<1>9. v.size \in Nat /\ (v.size > 0 => v.first # 0)
  BY <1>5
<1>10. v.dir \in BOOLEAN
  BY <1>5, <1>7
<1> QED BY <1>5, <1>6, <1>8, <1>9, <1>10 DEF IsShort
\* what is left after eupdate()
LEMMA UpdateNext ==
  ASSUME NEW s, SeqOK(s), s # <<>>, s[1].op = "eupdate", NEW r, Pops(r, s), NEW E2, NEW t, NEW d2,
         E2[s[1].e].valid = 1, Clean(E2[s[1].e])
  PROVE  NoHead(s) /\ NoHead(r) /\ LocalOK(r, E2, t, d2) /\ \A x \in File : ~Creating(s, x) /\ ~Creating(r, x)
<1>1. s[1].op \notin MakeOps \cup {"valid", "etrunc"} /\ s[1].op \notin MakeOps \cup {"valid"}
  BY DEF MakeOps
<1>2. /\ Goes1(s, 1) /\ Len(r) = Len(s) - 1 /\ (\A k \in 1..(Len(s) - 1) : r[k] = s[k + 1]) /\ Len(s) \in Nat
      /\ \A x \in File : ~Creating(s, x) /\ ~Creating(r, x)
  BY <1>1, PopMore
<1>3. Is(s, 2, "eunlock", Root) /\ Is(s, 3, "drop", s[1].e)
  BY <1>2 DEF Goes1
<1>4. Len(s) >= 3 /\ s[2].op = "eunlock" /\ s[3].op = "drop" /\ s[3].e = s[1].e
  BY <1>2, <1>3 DEF Is
<1>5. r[1] = s[2] /\ r[2] = s[3] /\ Len(r) >= 2
  <2>1. 1 \in 1..(Len(s) - 1) /\ 2 \in 1..(Len(s) - 1)
    BY <1>2, <1>4
  <2> QED BY <1>2, <1>4, <2>1
<1>6. NoHead(s) /\ NoHead(r)
  BY <1>4, <1>5 DEF NoHead
<1>7. \A x : Is(r, 2, "drop", x) => x = s[1].e
  BY <1>4, <1>5 DEF Is
<1>8. LocalOK(r, E2, t, d2)
  <2>1. r[1].op = "eunlock"
    BY <1>4, <1>5
  <2> QED BY <1>7, <2>1 DEF LocalOK, Shaped
<1> QED BY <1>2, <1>6, <1>8

\* eupdate() writes what the entry e says of its file
LEMMA DiskUpdate ==
  ASSUME NEW l, NEW K, NEW E, NEW T, NEW F, CtlOK(l, K, E, T, F), NEW t, NEW d, NEW D, DiskOK(l, E, T, t, d, D),
         NEW p \in Procs, NEW r, NEW T2, Becomes(T, T2, p, r), NEW e \in File, E[e].valid = 1,
         NoHead(T[p]), NoHead(r), \A q \in Procs, x \in File : ~Creating(T[q], x), \A x \in File : ~Creating(r, x),
         NEW E2, NEW x, NEW y, Changed(E, E2, e, x, y), SameFile(E[e], x), x.valid = 1, Clean(x),
         Mine(E, E2, p), SameHeads(E, E2), CurMoves(E, E2, T, t, p),
         NEW v, InfoOf(GInfo(D, E[e].off), E[e], v),
         NEW D2, Updated(D, D2, E[e].off, v),
         NEW d2, DatDom(d2), Untouched(E, T, t, t, d, d2, p), LocalOK(r, E2, t, d2)
  PROVE  DiskOK(l, E2, T2, t, d2, D2)
<1> DEFINE g == E[e].off
<1>1. /\ Sizes(E) /\ RootOK(E) /\ NamesOK(l, D) /\ CacheOK(E, T, D)
  BY DiskParts
<1>2. e \in Entry /\ e # Root
  BY FileEntry
<1>3. InStep(E[e], D) /\ g \in Groups(D) /\ g \in Nat
  BY <1>1 DEF CacheOK, InStep, Groups
<1>4. /\ (E[e].first = 0 \/ Cl(E[e].first)) /\ E[e].size \in Nat /\ (E[e].size > 0 => E[e].first # 0) /\ g \in Nat
  BY <1>1, <1>2 DEF Sizes
<1>5. IsShort(v) /\ v.first = E[e].first /\ v.size = E[e].size /\ v.dir = GInfo(D, g).dir
  <2> DEFINE c == GInfo(D, g) z == E[e]
  <2>1. IsShort(c)
    BY <1>1, <1>3 DEF NamesOK
  <2>2. InfoOf(c, z, v) /\ (z.first = 0 \/ Cl(z.first)) /\ z.size \in Nat /\ (z.size > 0 => z.first # 0)
    BY <1>4
  <2> HIDE DEF c, z
  <2>3. IsShort(v) /\ v.first = z.first /\ v.size = z.size /\ v.dir = c.dir
    BY <2>1, <2>2, InfoIs
  <2> QED BY <2>3 DEF c, z
<1>6. /\ Groups(D2) = Groups(D) /\ GInfo(D2, g) = v /\ DirShape(D2)
      /\ \A h \in Groups(D) : GName(D2, h) = GName(D, h) /\ (h # g => GInfo(D2, h) = GInfo(D, h))
  BY DEF Updated
<1>7. NamesOK(l, D2)
  <2>1. \A h \in Groups(D2) : GName(D2, h) \in Names /\ IsShort(GInfo(D2, h))
    BY <1>1, <1>5, <1>6 DEF NamesOK
  <2>2. \A h, k \in Groups(D2) : GName(D2, h) = GName(D2, k) => h = k
    BY <1>1, <1>6 DEF NamesOK
  <2>3. \E h \in Groups(D2) : GName(D2, h) \notin Removed(l)
    BY <1>1, <1>6 DEF NamesOK
  <2> QED BY <2>1, <2>2, <2>3 DEF NamesOK
<1>8. \A q \in Procs, f \in File : ~Creating(T2[q], f)
  BY DEF Becomes
<1>9. /\ E2[e] = x /\ (\A f \in File : f # e => E2[f] = E[f])
      /\ x.off = g /\ x.first = E[e].first /\ x.size = E[e].size /\ x.name = E[e].name /\ x.dir = E[e].dir
  BY DEF Changed, SameFile
<1>10. SameBound(E, T, E2, T2)
  <2> SUFFICES ASSUME NEW f \in File
               PROVE  (Bound(E, T, f) <=> Bound(E2, T2, f)) /\ (Bound(E, T, f) => E2[f].off = E[f].off)
    BY DEF SameBound
  <2>1. ~Made(T2, f) /\ ~Made(T, f)
    BY <1>8 DEF Made
  <2>2. CASE f = e
    BY <1>9, <2>1, <2>2 DEF Bound
  <2>3. CASE f # e
    BY <1>9, <2>1, <2>3 DEF Bound
  <2> QED BY <2>2, <2>3
<1>11. Bound(E, T, e)
  BY DEF Bound
<1>12. SameDisk(E, T, D, E2, T2, D2)
  <2> SUFFICES ASSUME NEW h \in Nat PROVE DiskHead(E2, T2, D2, h) = DiskHead(E, T, D, h)
    BY DEF SameDisk
  <2>1. DiskHead(E2, T2, D2, h) = DiskHead(E, T, D2, h)
    BY <1>10, DiskHeadSame
  <2>2. OnDisk(E, T, D2, h) <=> OnDisk(E, T, D, h)
    BY <1>6 DEF OnDisk
  <2>3. OnDisk(E, T, D, h) => h \in Groups(D) /\ h # g
    BY <1>11 DEF OnDisk
  <2> QED BY <1>6, <2>1, <2>2, <2>3 DEF DiskHead
<1>13. CacheOK(E2, T2, D2)
  <2>1. ASSUME NEW f \in File, E[f].valid = 1 PROVE InStep(E[f], D2)
    <3>1. InStep(E[f], D)
      BY <1>1, <2>1 DEF CacheOK
    <3>2. CASE f = e
      BY <1>3, <1>5, <1>6, <3>1, <3>2 DEF InStep
    <3>3. CASE f # e
      <4>1. Bound(E, T, f)
        BY <2>1 DEF Bound
      <4>2. E[f].off # g
        BY <1>1, <1>11, <3>3, <4>1 DEF CacheOK
      <4> QED BY <1>6, <3>1, <4>2 DEF InStep
    <3> QED BY <3>2, <3>3
  <2>2. CacheOK(E, T, D2)
    BY <1>1, <2>1 DEF CacheOK
  <2>3. ASSUME NEW f \in File, E2[f].valid = 1 PROVE InStep(E2[f], D2)
    <3>1. CASE f = e
      <4>1. InStep(E[e], D2)
        BY <2>1
      <4> QED BY <1>5, <1>6, <1>9, <3>1, <4>1 DEF InStep, Clean
    <3>2. CASE f # e
      BY <1>9, <2>1, <2>3, <3>2
    <3> QED BY <3>1, <3>2
  <2> QED BY <1>10, <2>2, <2>3, CacheKept
<1>14. DirOK(E2, T2, D2)
  BY <1>6, <1>8 DEF DirOK
<1>15. Sizes(E2) /\ RootOK(E2)
  <2>1. (x.first = 0 \/ Cl(x.first)) /\ x.size \in Nat /\ x.off \in Nat /\ (x.size > 0 => x.first # 0)
    BY <1>4, <1>9
  <2> QED BY <1>1, <2>1, ChangedRest
<1> QED BY <1>7, <1>12, <1>13, <1>14, <1>15, DiskDir

\* reloc_clus() of the root, which a process has locked
RelocPut(x, o, y) == y = reloc_clus(x, o)
LEMMA RootReloc ==
  ASSUME FInv, NEW o \in Nat, NEW y, RelocPut(ent[Root], o, y)
  PROVE  MovesCur(ent[Root], y, fat)
<1>1. CtlOK(load, calls, ent, todo, file) /\ DiskOK(load, ent, todo, fat, data, Dir)
  BY DEF FInv, Ctl, Disk
<1>2. ent[Root].first = 2 /\ Cl(2) /\ InMem(ent[Root]) /\ ~Cut(todo, Root) /\ Root \in Entry
  BY <1>1, RootHead, FileEntry
<1> DEFINE x == ent[Root]
<1>3. TableOK(fat) /\ IsEntry(x) /\ IsHead(fat, x.first) /\ At1(fat, x.first, x.cur, x.cnt)
  BY <1>2, CanMove
<1>4. y = reloc_clus(x, o)
  BY DEF RelocPut
<1> HIDE DEF x
<1>5. MovesCur(x, y, fat)
  <2>1. MovesCur(x, reloc_clus(x, o), fat)
    BY <1>3, RelocIs
  <2> QED BY <1>4, <2>1
<1> QED BY <1>5 DEF x
CleanPut(x, y) == y = [x EXCEPT !.dirty = FALSE]
LEMMA CleanIs ==
  ASSUME NEW x, IsEntry(x), NEW y, CleanPut(x, y)
  PROVE  IsEntry(y) /\ SameFile(x, y) /\ y.valid = x.valid /\ Clean(y)
<1>1. IsEnt(y) /\ y.dirty = FALSE /\ SameFile(x, y) /\ y.valid = x.valid
  BY DEF CleanPut, IsEntry, IsEnt, SameFile
<1>2. y.dir \in BOOLEAN /\ y.dirty \in BOOLEAN
  BY <1>1 DEF IsEntry, SameFile
<1> QED BY <1>1, <1>2 DEF IsEntry, Clean, SameFile
\* what a process does that has the lock of the root and of e
RootWork(p, op, e, r) ==
  /\ todo[p] # <<>> /\ todo[p][1].op = op /\ todo[p][1].e = e /\ Now(p) = todo[p][1] /\ SeqOK(todo[p])
  /\ Pops(r, todo[p]) /\ Becomes(todo, todo', p, r)
  /\ e \in File /\ e \in Entry /\ ent[e].ref > 0 /\ ent[e].lock = p /\ RootIdle(p) /\ EntDom(ent)
  /\ IsEntry(ent[e])
LEMMA RootWorkIs ==
  ASSUME FInv, NEW p \in Procs, NEW op \in {"eupdate", "eremove"}, At(p, op), Pop(p)
  PROVE  \E r : RootWork(p, op, todo[p][1].e, r)
<1> DEFINE e == todo[p][1].e
<1>1. CtlOK(load, calls, ent, todo, file) /\ Ctl
  BY DEF FInv, Ctl
<1>2. todo[p] # <<>> /\ todo[p][1].op = op /\ Now(p) = todo[p][1] /\ SeqOK(todo[p])
  BY <1>1, AtIs
<1>3. PICK r : Pops(r, todo[p]) /\ Becomes(todo, todo', p, r)
  BY <1>1, <1>2, DoPop
<1>4. \A x \in File : ~Creating(todo[p], x)
  <2>1. todo[p][1].op \notin MakeOps \cup {"valid"}
    BY <1>2 DEF MakeOps
  <2> QED BY <1>2, <1>3, <2>1, PopMore
<1>5. e # Root
  <2>1. Whole(todo[p], 1)
    BY <1>2, FirstIs
  <2> QED BY <1>2, <2>1 DEF Whole, OnFile
<1>6. e \in File /\ e \in Entry /\ ent[e].ref > 0
  BY <1>1, <1>2, <1>5, HeadUsed
<1>7. Root \in Entry /\ EntDom(ent) /\ IsEntry(ent[e])
  BY <1>1, <1>6, FileEntry, Ready, EntIs
<1>8. Holds(todo[p], Root)
  BY <1>2, <1>4, <1>7, HoldsIs
<1>9. Holds(todo[p], e)
  BY <1>2, <1>4, <1>5, <1>6, HoldsIs DEF LockedOps
<1>10. ent[e].lock = p /\ ent[Root].lock = p
  BY <1>1, <1>6, <1>7, <1>8, <1>9, Ready
<1> QED BY <1>2, <1>3, <1>4, <1>6, <1>7, <1>10 DEF RootWork, RootIdle
LEMMA QuietUpdate ==
  ASSUME FInv, NEW p \in Procs, NEW e, NEW r, RootWork(p, "eupdate", e, r), ent[e].valid = 1, Clean(ent[e]),
         UNCHANGED <<load, calls, fat, data, ent, file>>
  PROVE  FInv'
<1>1. CtlOK(load, calls, ent, todo, file) /\ IsFile(file[p]) /\ Becomes(file, file, p, file[p])
  BY Ready DEF FInv, Ctl
<1>2. /\ todo[p] # <<>> /\ todo[p][1].op = "eupdate" /\ todo[p][1].e = e /\ SeqOK(todo[p])
      /\ Pops(r, todo[p]) /\ Becomes(todo, todo', p, r) /\ EntDom(ent)
  BY DEF RootWork
<1>3. NoHead(todo[p]) /\ NoHead(r) /\ LocalOK(r, ent, fat, data) /\ \A x \in File : ~Creating(todo[p], x) /\ ~Creating(r, x)
  BY <1>2, UpdateNext
<1>4. SameMaking(todo[p], r, ent)
  BY <1>3, NoneMakes
<1>5. Works(ent, ent, e) /\ AllAlike(ent, ent) /\ CurMoves(ent, ent, todo, fat, p) /\ SameOpen(file[p], file[p])
  BY <1>2, WorksSame, StillAlike DEF SameOpen
<1>6. CtlOK(load, calls, ent, todo', file)
  BY <1>1, <1>2, <1>5, CtlWork DEF WorkOps
<1>7. CtlOK(load, calls', ent', todo', file') /\ LocalOK(r, ent', fat, data) /\ AllAlike(ent, ent')
      /\ CurMoves(ent, ent', todo, fat, p)
  BY <1>3, <1>5, <1>6
<1>8. UNCHANGED <<load, fat, data>>
  OBVIOUS
<1> QED BY <1>2, <1>3, <1>4, <1>7, <1>8, QuietInv

LEMMA StepInfo ==
  ASSUME FInv, NEW e \in File, ent[e].valid = 1, ent[Root].first = 2
  PROVE  LET g == ent[e].off o == g + OrderAt(Root, g) IN
         /\ g \in Groups(Dir) /\ g \in Nat /\ o = GEnd(Dir, g) /\ o \in Nat /\ o > g /\ Cell(2, o) = GInfo(Dir, g)
         /\ InSlots(g..o)
<1> DEFINE g == ent[e].off o == g + OrderAt(Root, g)
<1>1. CacheOK(ent, todo, Dir)
  BY DiskParts DEF FInv, Disk
<1>2. g \in Groups(Dir)
  BY <1>1 DEF CacheOK, InStep
<1>3. g \in Nat /\ OrderAt(Root, g) = Dir[g].order /\ o = GEnd(Dir, g) /\ o \in Nat /\ o > g
  <2> HIDE DEF g
  <2> QED BY <1>2, OrderIs
<1>4. Cell(2, o) = Dir[o]
  <2> HIDE DEF o
  <2> QED BY <1>3, CellDir
<1>5. GInfo(Dir, g) = Dir[o]
  BY <1>3 DEF GInfo
<1> HIDE DEF o, g
<1>6. InSlots(g..o)
  <2> SUFFICES ASSUME NEW k \in g..o PROVE k \in Nat /\ Dir[k].k # "byte"
    BY DEF InSlots
  <2>1. k \in Nat
    BY <1>3
  <2>2. IsGroup(Dir, g)
    BY <1>2 DEF Groups
  <2>3. CASE k = o
    BY <1>3, <2>1, <2>2, <2>3, GroupIs
  <2>4. CASE k # o
    <3>1. k \in g..(o - 1)
      BY <1>3, <2>4
    <3>2. k \in g..(GEnd(Dir, g) - 1)
      BY <1>3, <3>1
    <3>3. Dir[k].k = "long"
      BY <1>3, <2>2, <3>2, GroupSlots
    <3> QED BY <2>1, <3>3
  <2> QED BY <2>3, <2>4
<1> QED BY <1>2, <1>3, <1>4, <1>5, <1>6 DEF o, g
UpdateBy(e, o, x, y, v) ==
  /\ CleanPut(ent[e], x) /\ RelocPut(ent[Root], o, y) /\ TwoPuts(ent, ent', e, x, y)
  /\ InfoOf(Cell(2, o), ent[e], v) /\ SetBy(data', {o}, v)
LEMMA WorkUpdate ==
  ASSUME FInv, NEW p \in Procs, NEW e, NEW r, RootWork(p, "eupdate", e, r), ent[e].valid = 1,
         NEW x, NEW y, NEW v, UpdateBy(e, ent[e].off + OrderAt(Root, ent[e].off), x, y, v),
         UNCHANGED <<load, calls, fat, file>>
  PROVE  FInv'
<1> DEFINE g == ent[e].off o == g + OrderAt(Root, g)
<1>1. CtlOK(load, calls, ent, todo, file) /\ DiskOK(load, ent, todo, fat, data, Dir) /\ IsFile(file[p])
      /\ Becomes(file, file, p, file[p])
  BY Ready DEF FInv, Ctl, Disk
<1>2. /\ todo[p] # <<>> /\ todo[p][1].op = "eupdate" /\ todo[p][1].e = e /\ SeqOK(todo[p])
      /\ Pops(r, todo[p]) /\ Becomes(todo, todo', p, r) /\ EntDom(ent) /\ e \in File /\ e \in Entry
      /\ ent[e].ref > 0 /\ ent[e].lock = p /\ RootIdle(p) /\ ent[Root].lock = p /\ IsEntry(ent[e])
  BY DEF RootWork, RootIdle
<1>3. /\ DirShape(Dir) /\ ent[Root].first = 2
      /\ \A q \in Procs, f \in File : ~Creating(todo[q], f)
  BY <1>2, IdleRoot
<1>4. /\ g \in Groups(Dir) /\ g \in Nat /\ o = GEnd(Dir, g) /\ o \in Nat /\ o > g /\ Cell(2, o) = GInfo(Dir, g)
      /\ InSlots(g..o)
  BY <1>2, <1>3, StepInfo
<1>5. /\ CleanPut(ent[e], x) /\ RelocPut(ent[Root], o, y) /\ TwoPuts(ent, ent', e, x, y)
      /\ InfoOf(Cell(2, o), ent[e], v) /\ SetBy(data', {o}, v)
  BY DEF UpdateBy
<1> HIDE DEF o
<1>6. MovesCur(ent[Root], y, fat)
  BY <1>4, <1>5, RootReloc
<1>7. IsEntry(x) /\ SameFile(ent[e], x) /\ x.valid = 1 /\ Clean(x)
  <2>1. IsEntry(x) /\ SameFile(ent[e], x) /\ x.valid = ent[e].valid /\ Clean(x)
    <3> DEFINE z == ent[e]
    <3>1. IsEntry(z) /\ CleanPut(z, x)
      BY <1>2, <1>5
    <3> HIDE DEF z
    <3>2. IsEntry(x) /\ SameFile(z, x) /\ x.valid = z.valid /\ Clean(x)
      BY <3>1, CleanIs
    <3> QED BY <3>2 DEF z
  <2> QED BY <2>1
<1>8. /\ Changed(ent, ent', e, x, y) /\ Works(ent, ent', e)
      /\ Mine(ent, ent', p) /\ SameHeads(ent, ent') /\ CurMoves(ent, ent', todo, fat, p)
  <2>1. x.valid = 0 => ent[e].valid = 0
    BY <1>7
  <2> QED BY <1>2, <1>5, <1>6, <1>7, <2>1, ChangedSame
<1>9. ent'[e].valid = 1 /\ Clean(ent'[e])
  BY <1>7, <1>8 DEF Changed
<1>10. /\ NoHead(todo[p]) /\ NoHead(r) /\ LocalOK(r, ent', fat, data')
       /\ \A f \in File : ~Creating(todo[p], f) /\ ~Creating(r, f)
  BY <1>2, <1>9, UpdateNext
<1>11. CtlOK(load, calls, ent', todo', file)
  <2>1. SameOpen(file[p], file[p])
    BY DEF SameOpen
  <2> QED BY <1>1, <1>2, <1>8, <2>1, CtlWork DEF WorkOps
<1> DEFINE D2 == DirOf(fat, data')
<1>12. InSlots({o})
  <2>1. o \in g..o
    BY <1>4
  <2> QED BY <1>4, <2>1 DEF InSlots
<1>13. DatDom(data') /\ Untouched(ent, todo, fat, fat, data, data', p) /\ SlotsSet(Dir, D2, {o}, v)
  BY <1>5, <1>12, SetCellsIs, SetSlots
<1>14. InfoOf(GInfo(Dir, g), ent[e], v)
  BY <1>4, <1>5
<1>15. Updated(Dir, D2, g, v)
  <2>1. v.k = "short"
    <3>1. IsShort(GInfo(Dir, g)) /\ Sizes(ent)
      BY <1>1, <1>4, DiskParts DEF NamesOK
    <3>2. (ent[e].first = 0 \/ Cl(ent[e].first)) /\ ent[e].size \in Nat /\ (ent[e].size > 0 => ent[e].first # 0)
      BY <1>2, <3>1 DEF Sizes
    <3> QED BY <1>14, <3>1, <3>2, InfoIs
  <2>2. SlotsSet(Dir, D2, {GEnd(Dir, g)}, v)
    BY <1>4, <1>13
  <2> HIDE DEF D2, g
  <2> QED BY <1>3, <1>4, <2>1, <2>2, UpdateSlots
<1>16. DiskOK(load, ent', todo', fat, data', D2)
  <2> HIDE DEF D2
  <2> QED BY <1>1, <1>2, <1>3, <1>7, <1>8, <1>10, <1>13, <1>14, <1>15, DiskUpdate
<1>17. Dir' = D2
  BY DEF Dir
<1>18. CtlOK(load, calls', ent', todo', file')
  BY <1>11
<1>19. DiskOK(load, ent', todo', fat', data', D2) /\ load' = load
  BY <1>16
<1> HIDE DEF D2
<1> QED BY <1>17, <1>18, <1>19, NextMoved
LEMMA DoEupdate == ASSUME FInv, NEW p \in Procs, Eupdate(p) PROVE FInv'
<1> DEFINE e == todo[p][1].e
<1>1. At(p, "eupdate") /\ Pop(p) /\ UNCHANGED <<load, calls, fat, file>>
  BY DEF Eupdate
<1>2. PICK r : RootWork(p, "eupdate", e, r)
  BY <1>1, RootWorkIs
<1>3. Now(p) = todo[p][1] /\ e \in File /\ e # Root /\ EntDom(ent) /\ RootIdle(p) /\ todo[p] # <<>>
      /\ todo[p][1].op = "eupdate" /\ e \in Entry /\ Root \in Entry
  BY <1>2, FileEntry DEF RootWork
<1>4. ent[e].valid = 1
  <2>1. LocalOK(todo[p], ent, fat, data)
    BY DiskParts DEF FInv, Disk
  <2> QED BY <1>3, <2>1 DEF LocalOK
<1> DEFINE o == ent[e].off + OrderAt(Root, ent[e].off)
<1>5. IF Update(ent[e])
      THEN /\ data' = SetCells(Root, {o}, [Cell(ent[Root].first, o) EXCEPT !.first = ent[e].first, !.size = ent[e].size])
           /\ ent' = [ent EXCEPT ![e].dirty = FALSE, ![Root] = reloc_clus(@, o)]
      ELSE UNCHANGED <<data, ent>>
  BY <1>3, ZenonT(60) DEF Eupdate
<1>6. CASE Update(ent[e])
  <2> DEFINE x == [ent[e] EXCEPT !.dirty = FALSE] y == reloc_clus(ent[Root], o)
             v == [Cell(2, o) EXCEPT !.first = ent[e].first, !.size = ent[e].size]
  <2>1. ent[Root].first = 2
    BY <1>3, IdleRoot
  <2>2. SetBy(data', {o}, v) /\ InfoOf(Cell(2, o), ent[e], v)
    BY <1>5, <1>6, <2>1 DEF SetBy, InfoOf
  <2>3. TwoPuts(ent, ent', e, x, y)
    <3> HIDE DEF o, e
    <3>1. ent' = [ent EXCEPT ![e].dirty = FALSE, ![Root] = reloc_clus(@, o)]
      BY <1>5, <1>6
    <3>2. ent = [d \in Entry |-> ent[d]]
      BY <1>3 DEF EntDom
    <3>3. ent' = [ent EXCEPT ![e] = x, ![Root] = y]
      BY <1>3, <3>1, <3>2
    <3> QED BY <3>3 DEF TwoPuts
  <2>4. CleanPut(ent[e], x) /\ RelocPut(ent[Root], o, y)
    BY DEF CleanPut, RelocPut
  <2>5. UpdateBy(e, o, x, y, v)
    <3> HIDE DEF x, y, v, o, e
    <3> QED BY <2>2, <2>3, <2>4 DEF UpdateBy
  <2> HIDE DEF x, y, v, e
  <2> QED BY <1>1, <1>2, <1>4, <2>5, WorkUpdate
<1>7. CASE ~Update(ent[e])
  <2>1. Clean(ent[e])
    <3>1. ent[e].dirty \in BOOLEAN
      BY <1>3 DEF EntDom
    <3> QED BY <1>4, <1>7, <3>1 DEF Update, Clean
  <2>2. UNCHANGED <<load, calls, fat, data, ent, file>>
    BY <1>1, <1>5, <1>7
  <2> HIDE DEF e
  <2> QED BY <1>2, <1>4, <2>1, <2>2, QuietUpdate
<1> QED BY <1>6, <1>7

\* the slots of a file are free now
Gone(D, D2, g) ==
  /\ DirShape(D2) /\ (\A h \in Groups(D2) : h \in Groups(D) /\ h # g)
  /\ \A h \in Groups(D) : h # g => h \in Groups(D2) /\ GName(D2, h) = GName(D, h) /\ GInfo(D2, h) = GInfo(D, h)
LEMMA RemoveSlots ==
  ASSUME NEW D, NEW g \in Groups(D), DirShape(D), NEW v, v.k = "empty", NEW D2, SlotsSet(D, D2, g..GEnd(D, g), v)
  PROVE  Gone(D, D2, g)
<1>1. PICK N \in Nat : Regular(D, N) /\ Free(D, N)
  BY DEF DirShape
<1>2. \A o \in Nat : D2[o] = IF o \in g..GEnd(D, g) THEN v ELSE D[o]
  BY DEF SlotsSet
<1>3. /\ Regular(D2, N) /\ Free(D2, N)
      /\ \A h \in Groups(D) : h # g =>
           h \in Groups(D2) /\ GEnd(D2, h) = GEnd(D, h) /\ GName(D2, h) = GName(D, h) /\ GInfo(D2, h) = GInfo(D, h)
      /\ \A h \in Groups(D2) : h \in Groups(D) /\ h # g
  BY <1>1, <1>2, DirRemove
<1> QED BY <1>3 DEF Gone, DirShape
\* what is left after eremove()
LEMMA RemoveNext ==
  ASSUME NEW s, SeqOK(s), s # <<>>, s[1].op = "eremove", NEW r, Pops(r, s), NEW E2, NEW t, NEW d2
  PROVE  NoHead(s) /\ NoHead(r) /\ LocalOK(r, E2, t, d2) /\ \A x \in File : ~Creating(s, x) /\ ~Creating(r, x)
<1>1. s[1].op \notin MakeOps \cup {"valid", "etrunc"} /\ s[1].op \notin MakeOps \cup {"valid"}
  BY DEF MakeOps
<1>2. /\ Goes1(s, 1) /\ Len(r) = Len(s) - 1 /\ (\A k \in 1..(Len(s) - 1) : r[k] = s[k + 1]) /\ Len(s) \in Nat
      /\ \A x \in File : ~Creating(s, x) /\ ~Creating(r, x)
  BY <1>1, PopMore
<1>3. Is(s, 2, "eunlock", Root) /\ Is(s, 3, "eunlock", s[1].e)
  BY <1>2 DEF Goes1
<1>4. Len(s) >= 3 /\ s[2].op = "eunlock" /\ s[3].op = "eunlock"
  BY <1>2, <1>3 DEF Is
<1>5. r[1] = s[2] /\ r[2] = s[3]
  <2>1. 1 \in 1..(Len(s) - 1) /\ 2 \in 1..(Len(s) - 1)
    BY <1>2, <1>4
  <2> QED BY <1>2, <2>1
<1>6. NoHead(s) /\ NoHead(r)
  BY <1>4, <1>5 DEF NoHead
<1>7. \A x : ~Is(r, 2, "drop", x)
  BY <1>4, <1>5 DEF Is
<1>8. LocalOK(r, E2, t, d2)
  <2>1. r[1].op = "eunlock"
    BY <1>4, <1>5
  <2> QED BY <1>7, <2>1 DEF LocalOK, Shaped
<1> QED BY <1>2, <1>6, <1>8
LEMMA DiskRemove ==
  ASSUME NEW l, NEW K, NEW E, NEW T, NEW F, CtlOK(l, K, E, T, F), NEW t, NEW d, NEW D, DiskOK(l, E, T, t, d, D),
         NEW p \in Procs, NEW r, NEW T2, Becomes(T, T2, p, r), NEW e \in File, E[e].valid = 1, E[e].name \in Removed(l),
         NoHead(T[p]), NoHead(r), \A q \in Procs, x \in File : ~Creating(T[q], x), \A x \in File : ~Creating(r, x),
         NEW E2, NEW x, NEW y, Changed(E, E2, e, x, y), SameFile(E[e], x), x.valid = -1,
         Mine(E, E2, p), SameHeads(E, E2), CurMoves(E, E2, T, t, p),
         NEW D2, Gone(D, D2, E[e].off),
         NEW d2, DatDom(d2), Untouched(E, T, t, t, d, d2, p), LocalOK(r, E2, t, d2)
  PROVE  DiskOK(l, E2, T2, t, d2, D2)
<1> DEFINE g == E[e].off
<1>1. /\ Sizes(E) /\ RootOK(E) /\ NamesOK(l, D) /\ CacheOK(E, T, D)
  BY DiskParts
<1>2. e \in Entry /\ e # Root
  BY FileEntry
<1>3. InStep(E[e], D) /\ g \in Groups(D) /\ g \in Nat /\ GName(D, g) = E[e].name
  BY <1>1 DEF CacheOK, InStep, Groups
<1>4. /\ (E[e].first = 0 \/ Cl(E[e].first)) /\ E[e].size \in Nat /\ (E[e].size > 0 => E[e].first # 0) /\ g \in Nat
  BY <1>1, <1>2 DEF Sizes
<1>6. /\ DirShape(D2) /\ (\A h \in Groups(D2) : h \in Groups(D) /\ h # g)
      /\ \A h \in Groups(D) : h # g => h \in Groups(D2) /\ GName(D2, h) = GName(D, h) /\ GInfo(D2, h) = GInfo(D, h)
  BY DEF Gone
<1>7. NamesOK(l, D2)
  <2>1. \A h \in Groups(D2) : GName(D2, h) \in Names /\ IsShort(GInfo(D2, h))
    BY <1>1, <1>6 DEF NamesOK
  <2>2. \A h, k \in Groups(D2) : GName(D2, h) = GName(D2, k) => h = k
    BY <1>1, <1>6 DEF NamesOK
  <2>3. \E h \in Groups(D2) : GName(D2, h) \notin Removed(l)
    <3>1. PICK h \in Groups(D) : GName(D, h) \notin Removed(l)
      BY <1>1 DEF NamesOK
    <3>2. h # g
      BY <1>3, <3>1
    <3> QED BY <1>6, <3>1, <3>2
  <2> QED BY <2>1, <2>2, <2>3 DEF NamesOK
<1>8. (\A q \in Procs, f \in File : ~Creating(T2[q], f)) /\ (\A f \in File : ~Made(T2, f) /\ ~Made(T, f))
  BY DEF Becomes, Made
<1>9. /\ E2[e] = x /\ (\A f \in File : f # e => E2[f] = E[f])
      /\ x.off = g /\ x.first = E[e].first /\ x.size = E[e].size /\ x.name = E[e].name /\ x.dir = E[e].dir
  BY DEF Changed, SameFile
<1>10. /\ \A f \in File : Bound(E2, T2, f) <=> (Bound(E, T, f) /\ f # e)
       /\ \A f \in File : E2[f].off = E[f].off
  <2> SUFFICES ASSUME NEW f \in File
               PROVE  (Bound(E2, T2, f) <=> (Bound(E, T, f) /\ f # e)) /\ E2[f].off = E[f].off
    OBVIOUS
  <2>1. ~Made(T2, f) /\ ~Made(T, f)
    BY <1>8
  <2>2. CASE f = e
    BY <1>9, <2>1, <2>2 DEF Bound
  <2>3. CASE f # e
    BY <1>9, <2>1, <2>3 DEF Bound
  <2> QED BY <2>2, <2>3
<1>11. Bound(E, T, e)
  BY DEF Bound
<1>12. SameDisk(E, T, D, E2, T2, D2)
  <2> SUFFICES ASSUME NEW h \in Nat PROVE DiskHead(E2, T2, D2, h) = DiskHead(E, T, D, h)
    BY DEF SameDisk
  <2>1. CASE h = g
    BY <1>6, <1>11, <2>1 DEF DiskHead, OnDisk
  <2>2. CASE h # g
    <3>1. h \in Groups(D2) <=> h \in Groups(D)
      BY <1>6, <2>2
    <3>2. (\A f \in File : Bound(E2, T2, f) => E2[f].off # h) <=> (\A f \in File : Bound(E, T, f) => E[f].off # h)
      BY <1>10, <2>2
    <3>3. OnDisk(E2, T2, D2, h) <=> OnDisk(E, T, D, h)
      BY <3>1, <3>2 DEF OnDisk
    <3>4. h \in Groups(D) => GInfo(D2, h) = GInfo(D, h)
      BY <1>6, <2>2
    <3> QED BY <3>3, <3>4 DEF DiskHead, OnDisk
  <2> QED BY <2>1, <2>2
<1>13. CacheOK(E2, T2, D2)
  <2>1. ASSUME NEW f \in File, E2[f].valid = 1 PROVE InStep(E2[f], D2)
    <3>1. f # e
      BY <1>9, <2>1
    <3>2. E2[f] = E[f] /\ E[f].valid = 1
      BY <1>9, <2>1, <3>1
    <3>3. InStep(E[f], D) /\ Bound(E, T, f)
      BY <1>1, <3>2 DEF CacheOK, Bound
    <3>4. E[f].off # g
      BY <1>1, <1>11, <3>1, <3>3 DEF CacheOK
    <3> QED BY <1>6, <3>2, <3>3, <3>4 DEF InStep
  <2>2. ASSUME NEW f \in File, NEW h \in File, Bound(E2, T2, f), Bound(E2, T2, h), E2[f].off = E2[h].off
        PROVE f = h
    BY <1>1, <1>10, <2>2 DEF CacheOK
  <2> QED BY <2>1, <2>2 DEF CacheOK
<1>14. DirOK(E2, T2, D2)
  BY <1>6, <1>8 DEF DirOK
<1>15. Sizes(E2) /\ RootOK(E2)
  <2>1. (x.first = 0 \/ Cl(x.first)) /\ x.size \in Nat /\ x.off \in Nat /\ (x.size > 0 => x.first # 0)
    BY <1>4, <1>9
  <2> QED BY <1>1, <2>1, ChangedRest
<1> QED BY <1>7, <1>12, <1>13, <1>14, <1>15, DiskDir

GonePut(x, y) == y = [x EXCEPT !.valid = -1]
LEMMA GoneIs ==
  ASSUME NEW x, IsEntry(x), NEW y, GonePut(x, y)
  PROVE  IsEntry(y) /\ SameFile(x, y) /\ y.valid = -1
<1>1. IsEnt(y) /\ y.valid = -1 /\ SameFile(x, y) /\ y.dirty = x.dirty
  BY DEF GonePut, IsEntry, IsEnt, SameFile
<1>2. y.dir \in BOOLEAN /\ y.dirty \in BOOLEAN
  BY <1>1 DEF IsEntry, SameFile
<1> QED BY <1>1, <1>2 DEF IsEntry, SameFile
LEMMA QuietRemove ==
  ASSUME FInv, NEW p \in Procs, NEW e, NEW r, RootWork(p, "eremove", e, r),
         UNCHANGED <<load, calls, fat, data, ent, file>>
  PROVE  FInv'
<1>1. CtlOK(load, calls, ent, todo, file) /\ IsFile(file[p]) /\ Becomes(file, file, p, file[p])
  BY Ready DEF FInv, Ctl
<1>2. /\ todo[p] # <<>> /\ todo[p][1].op = "eremove" /\ todo[p][1].e = e /\ SeqOK(todo[p])
      /\ Pops(r, todo[p]) /\ Becomes(todo, todo', p, r) /\ EntDom(ent)
  BY DEF RootWork
<1>3. NoHead(todo[p]) /\ NoHead(r) /\ LocalOK(r, ent, fat, data) /\ \A x \in File : ~Creating(todo[p], x) /\ ~Creating(r, x)
  BY <1>2, RemoveNext
<1>4. SameMaking(todo[p], r, ent)
  BY <1>3, NoneMakes
<1>5. Works(ent, ent, e) /\ AllAlike(ent, ent) /\ CurMoves(ent, ent, todo, fat, p) /\ SameOpen(file[p], file[p])
  BY <1>2, WorksSame, StillAlike DEF SameOpen
<1>6. CtlOK(load, calls, ent, todo', file)
  BY <1>1, <1>2, <1>5, CtlWork DEF WorkOps
<1>7. CtlOK(load, calls', ent', todo', file') /\ LocalOK(r, ent', fat, data) /\ AllAlike(ent, ent')
      /\ CurMoves(ent, ent', todo, fat, p)
  BY <1>3, <1>5, <1>6
<1>8. UNCHANGED <<load, fat, data>>
  OBVIOUS
<1> QED BY <1>2, <1>3, <1>4, <1>7, <1>8, QuietInv
RemoveBy(e, o, x, y) ==
  /\ GonePut(ent[e], x) /\ RelocPut(ent[Root], o + 1, y) /\ TwoPuts(ent, ent', e, x, y)
  /\ SetBy(data', ent[e].off..o, EMPTY_ENTRY)
LEMMA WorkRemove ==
  ASSUME FInv, NEW p \in Procs, NEW e, NEW r, RootWork(p, "eremove", e, r), ent[e].valid = 1,
         NEW x, NEW y, RemoveBy(e, ent[e].off + OrderAt(Root, ent[e].off), x, y),
         UNCHANGED <<load, calls, fat, file>>
  PROVE  FInv'
<1> DEFINE g == ent[e].off o == g + OrderAt(Root, g)
<1>1. CtlOK(load, calls, ent, todo, file) /\ DiskOK(load, ent, todo, fat, data, Dir) /\ IsFile(file[p])
      /\ Becomes(file, file, p, file[p]) /\ Asked(load, p, todo[p], ent)
  BY Ready DEF FInv, Ctl, Disk
<1>2. /\ todo[p] # <<>> /\ todo[p][1].op = "eremove" /\ todo[p][1].e = e /\ SeqOK(todo[p])
      /\ Pops(r, todo[p]) /\ Becomes(todo, todo', p, r) /\ EntDom(ent) /\ e \in File /\ e \in Entry
      /\ ent[e].ref > 0 /\ ent[e].lock = p /\ RootIdle(p) /\ ent[Root].lock = p /\ IsEntry(ent[e])
  BY DEF RootWork, RootIdle
<1>3. /\ DirShape(Dir) /\ ent[Root].first = 2
      /\ \A q \in Procs, f \in File : ~Creating(todo[q], f)
  BY <1>2, IdleRoot
<1>4. /\ g \in Groups(Dir) /\ g \in Nat /\ o = GEnd(Dir, g) /\ o \in Nat /\ o > g /\ InSlots(g..o)
  BY <1>2, <1>3, StepInfo
<1>5. /\ GonePut(ent[e], x) /\ RelocPut(ent[Root], o + 1, y) /\ TwoPuts(ent, ent', e, x, y)
      /\ SetBy(data', g..o, EMPTY_ENTRY)
  BY DEF RemoveBy
<1> HIDE DEF o
<1>6. MovesCur(ent[Root], y, fat)
  <2> DEFINE n == o + 1
  <2>1. n \in Nat /\ RelocPut(ent[Root], n, y)
    BY <1>4, <1>5
  <2> HIDE DEF n
  <2> QED BY <2>1, RootReloc
<1>7. IsEntry(x) /\ SameFile(ent[e], x) /\ x.valid = -1
  <2> DEFINE z == ent[e]
  <2>1. IsEntry(z) /\ GonePut(z, x)
    BY <1>2, <1>5
  <2> HIDE DEF z
  <2>2. IsEntry(x) /\ SameFile(z, x) /\ x.valid = -1
    BY <2>1, GoneIs
  <2> QED BY <2>2 DEF z
<1>8. /\ Changed(ent, ent', e, x, y) /\ Works(ent, ent', e)
      /\ Mine(ent, ent', p) /\ SameHeads(ent, ent') /\ CurMoves(ent, ent', todo, fat, p)
  <2>1. x.valid = 0 => ent[e].valid = 0
    BY <1>7
  <2> QED BY <1>2, <1>5, <1>6, <1>7, <2>1, ChangedSame
<1>9. ent[e].name \in Removed(load)
  <2>1. 1 \in 1..Len(todo[p])
    BY <1>2, FirstIs
  <2> QED BY <1>1, <1>2, <2>1 DEF Asked
<1>10. /\ NoHead(todo[p]) /\ NoHead(r) /\ LocalOK(r, ent', fat, data')
       /\ \A f \in File : ~Creating(todo[p], f) /\ ~Creating(r, f)
  BY <1>2, RemoveNext
<1>11. CtlOK(load, calls, ent', todo', file)
  <2>1. SameOpen(file[p], file[p])
    BY DEF SameOpen
  <2> QED BY <1>1, <1>2, <1>8, <2>1, CtlWork DEF WorkOps
<1> DEFINE D2 == DirOf(fat, data')
<1>13. DatDom(data') /\ Untouched(ent, todo, fat, fat, data, data', p) /\ SlotsSet(Dir, D2, g..o, EMPTY_ENTRY)
  <2> DEFINE S == g..o
  <2>1. InSlots(S) /\ SetBy(data', S, EMPTY_ENTRY)
    BY <1>4, <1>5
  <2> HIDE DEF S
  <2>2. DatDom(data') /\ Untouched(ent, todo, fat, fat, data, data', p) /\ SlotsSet(Dir, D2, S, EMPTY_ENTRY)
    BY <2>1, SetCellsIs, SetSlots
  <2> QED BY <2>2 DEF S
<1>15. Gone(Dir, D2, g)
  <2>1. EMPTY_ENTRY.k = "empty"
    BY DEF EMPTY_ENTRY
  <2>2. SlotsSet(Dir, D2, g..GEnd(Dir, g), EMPTY_ENTRY)
    BY <1>4, <1>13
  <2> HIDE DEF D2, g
  <2> QED BY <1>3, <1>4, <2>1, <2>2, RemoveSlots
<1>16. DiskOK(load, ent', todo', fat, data', D2)
  <2> HIDE DEF D2
  <2> QED BY <1>1, <1>2, <1>3, <1>7, <1>8, <1>9, <1>10, <1>13, <1>15, DiskRemove
<1>17. Dir' = D2
  BY DEF Dir
<1>18. CtlOK(load, calls', ent', todo', file')
  BY <1>11
<1>19. DiskOK(load, ent', todo', fat', data', D2) /\ load' = load
  BY <1>16
<1> HIDE DEF D2
<1> QED BY <1>17, <1>18, <1>19, NextMoved
LEMMA DoEremove == ASSUME FInv, NEW p \in Procs, Eremove(p) PROVE FInv'
<1> DEFINE e == todo[p][1].e
<1>1. At(p, "eremove") /\ Pop(p) /\ UNCHANGED <<load, calls, fat, file>>
  BY DEF Eremove
<1>2. PICK r : RootWork(p, "eremove", e, r)
  BY <1>1, RootWorkIs
<1>3. Now(p) = todo[p][1] /\ e \in File /\ e # Root /\ EntDom(ent) /\ RootIdle(p) /\ todo[p] # <<>>
      /\ e \in Entry /\ Root \in Entry
  BY <1>2, FileEntry DEF RootWork
<1> DEFINE n == OrderAt(Root, ent[e].off) o == ent[e].off + n
<1>5. IF ent[e].valid = 1
      THEN /\ data' = SetCells(Root, Slots(ent[e].off, n), EMPTY_ENTRY)
           /\ ent' = [ent EXCEPT ![e].valid = -1, ![Root] = reloc_clus(@, ent[e].off + n + 1)]
      ELSE UNCHANGED <<data, ent>>
  BY <1>3, ZenonT(60) DEF Eremove
<1>6. CASE ent[e].valid = 1
  <2> DEFINE x == [ent[e] EXCEPT !.valid = -1] y == reloc_clus(ent[Root], o + 1)
  <2>2. SetBy(data', ent[e].off..o, EMPTY_ENTRY)
    BY <1>5, <1>6 DEF SetBy, Slots
  <2>3. TwoPuts(ent, ent', e, x, y)
    <3>1. ent' = [ent EXCEPT ![e].valid = -1, ![Root] = reloc_clus(@, o + 1)]
      BY <1>5, <1>6
    <3>2. ent = [d \in Entry |-> ent[d]]
      BY <1>3 DEF EntDom
    <3> HIDE DEF o, e
    <3>3. ent' = [ent EXCEPT ![e] = x, ![Root] = y]
      BY <1>3, <3>1, <3>2
    <3> QED BY <3>3 DEF TwoPuts
  <2>4. GonePut(ent[e], x) /\ RelocPut(ent[Root], o + 1, y)
    BY DEF GonePut, RelocPut
  <2>5. RemoveBy(e, o, x, y)
    <3> HIDE DEF x, y, o, e
    <3> QED BY <2>2, <2>3, <2>4 DEF RemoveBy
  <2> HIDE DEF x, y, e
  <2> QED BY <1>1, <1>2, <1>6, <2>5, WorkRemove
<1>7. CASE ent[e].valid # 1
  <2>2. UNCHANGED <<load, calls, fat, data, ent, file>>
    BY <1>1, <1>5, <1>7
  <2> HIDE DEF e
  <2> QED BY <1>2, <2>2, QuietRemove
<1> QED BY <1>6, <1>7

\* what a call does with the entry it found or made
NamedCall(c) == c.k \in {"open", "mkdir", "remove"} /\ (c.k = "open" => c.create \in BOOLEAN)
AfterIn(a, c, e) ==
  /\ AfterForm(a, e)
  /\ \A k \in 1..Len(a) : a[k].op = "remove" => c.k = "remove"
LEMMA OpIs ==
  ASSUME NEW e
  PROVE  /\ elock(e).op = "elock" /\ elock(e).e = e /\ eunlock(e).op = "eunlock" /\ eunlock(e).e = e
         /\ eput(e).op = "eput" /\ eput(e).e = e
BY DEF elock, eunlock, eput
LEMMA AfterPut ==
  ASSUME NEW e \in File, NEW c, NEW a, a = <<eunlock(Root)>> \o <<eput(e)>>
  PROVE  AfterIn(a, c, e)
<1> DEFINE u == eunlock(Root) b == eput(e)
<1>1. u.op = "eunlock" /\ u.e = Root /\ b.op = "eput" /\ b.e = e
  BY OpIs
<1>2. a = <<u>> \o <<b>>
  OBVIOUS
<1> HIDE DEF u, b
<1>3. IsSeq(<<u>>) /\ Len(<<u>>) = 1 /\ <<u>>[1] = u /\ IsSeq(<<b>>) /\ Len(<<b>>) = 1 /\ <<b>>[1] = b
  BY Tup1
<1>4. IsSeq(a) /\ Len(a) = 2 /\ a[1] = u /\ a[2] = b
  <2>1. /\ IsSeq(<<u>> \o <<b>>) /\ Len(<<u>> \o <<b>>) = Len(<<u>>) + Len(<<b>>)
        /\ \A k \in 1..Len(<<u>>) : (<<u>> \o <<b>>)[k] = <<u>>[k]
        /\ \A k \in 1..Len(<<b>>) : (<<u>> \o <<b>>)[Len(<<u>>) + k] = <<b>>[k]
    BY ONLY <1>3, CatIs
  <2> QED BY ONLY <1>2, <1>3, <2>1
<1> QED BY <1>1, <1>4 DEF AfterIn, AfterForm
LocksThen(a, e, b) == a = <<eunlock(Root)>> \o <<elock(e), b>>
LEMMA AfterTwo ==
  ASSUME NEW e \in File, NEW c, NEW b, b.e = e, b.op = "opened" \/ (b.op = "remove" /\ c.k = "remove"),
         NEW a, LocksThen(a, e, b)
  PROVE  AfterIn(a, c, e) /\ Len(a) = 3 /\ a[2].op = "elock" /\ a[3].op = b.op
<1> DEFINE u == eunlock(Root) w == elock(e)
<1>1. u.op = "eunlock" /\ u.e = Root /\ w.op = "elock" /\ w.e = e
  BY OpIs
<1>2. a = <<u>> \o <<w, b>>
  BY DEF LocksThen
<1> HIDE DEF u, w
<1>3. IsSeq(<<u>>) /\ Len(<<u>>) = 1 /\ <<u>>[1] = u /\ IsSeq(<<w, b>>) /\ Len(<<w, b>>) = 2 /\ <<w, b>>[1] = w /\ <<w, b>>[2] = b
  BY Tup1, Tup2
<1>4. IsSeq(a) /\ Len(a) = 3 /\ a[1] = u /\ a[2] = w /\ a[3] = b
  <2>1. /\ IsSeq(<<u>> \o <<w, b>>) /\ Len(<<u>> \o <<w, b>>) = Len(<<u>>) + Len(<<w, b>>)
        /\ \A k \in 1..Len(<<u>>) : (<<u>> \o <<w, b>>)[k] = <<u>>[k]
        /\ \A k \in 1..Len(<<w, b>>) : (<<u>> \o <<w, b>>)[Len(<<u>>) + k] = <<w, b>>[k]
    BY ONLY <1>3, CatIs
  <2> QED BY ONLY <1>2, <1>3, <2>1
<1> QED BY <1>1, <1>4 DEF AfterIn, AfterForm
LEMMA AfterThree ==
  ASSUME NEW e \in File, NEW c, NEW a, a = <<eunlock(Root)>> \o <<elock(e), eunlock(e), eput(e)>>
  PROVE  AfterIn(a, c, e) /\ Len(a) = 4
<1> DEFINE u == eunlock(Root) w == elock(e) b == eunlock(e) z == eput(e)
<1>1. /\ u.op = "eunlock" /\ u.e = Root /\ w.op = "elock" /\ w.e = e
      /\ b.op = "eunlock" /\ b.e = e /\ z.op = "eput" /\ z.e = e
  BY OpIs
<1>2. a = <<u>> \o <<w, b, z>>
  OBVIOUS
<1> HIDE DEF u, w, b, z
<1>3. /\ IsSeq(<<u>>) /\ Len(<<u>>) = 1 /\ <<u>>[1] = u /\ IsSeq(<<w, b, z>>) /\ Len(<<w, b, z>>) = 3
      /\ <<w, b, z>>[1] = w /\ <<w, b, z>>[2] = b /\ <<w, b, z>>[3] = z
  BY Tup1, Tup3
<1>4. IsSeq(a) /\ Len(a) = 4 /\ a[1] = u /\ a[2] = w /\ a[3] = b /\ a[4] = z
  <2>1. /\ IsSeq(<<u>> \o <<w, b, z>>) /\ Len(<<u>> \o <<w, b, z>>) = Len(<<u>>) + Len(<<w, b, z>>)
        /\ \A k \in 1..Len(<<u>>) : (<<u>> \o <<w, b, z>>)[k] = <<u>>[k]
        /\ \A k \in 1..Len(<<w, b, z>>) : (<<u>> \o <<w, b, z>>)[Len(<<u>>) + k] = <<w, b, z>>[k]
    BY ONLY <1>3, CatIs
  <2> QED BY ONLY <1>2, <1>3, <2>1
<1> QED BY <1>1, <1>4 DEF AfterIn, AfterForm
LEMMA AfterIs ==
  ASSUME NEW c, NamedCall(c), NEW e \in File, NEW dir \in BOOLEAN, NEW a, a = After(c, e, dir)
  PROVE  /\ AfterIn(a, c, e)
         /\ Creates(c) /\ (dir <=> c.k = "mkdir") =>
              (Len(a) = 3 /\ a[2].op = "elock" /\ a[3].op = "opened") \/ Len(a) = 4
<1>0. a = After(c, e, dir)
  OBVIOUS
<1>1. CASE Creates(c) /\ dir # (c.k = "mkdir")
  <2>1. a = <<eunlock(Root)>> \o <<eput(e)>>
    BY <1>0, <1>1 DEF After, NamedCall, Creates
  <2> QED BY ONLY <1>1, <2>1, AfterPut
<1>2. CASE c.k = "open" /\ ~(c.create /\ dir)
  <2> DEFINE b == [op |-> "opened", e |-> e, c |-> c]
  <2>1. a = <<eunlock(Root)>> \o <<elock(e), b>>
    BY <1>0, <1>2 DEF After, NamedCall, Creates
  <2>2. b.op = "opened" /\ b.e = e
    OBVIOUS
  <2> HIDE DEF b
  <2>3. LocksThen(a, e, b) /\ (b.op = "opened" \/ (b.op = "remove" /\ c.k = "remove"))
    BY <2>1, <2>2 DEF LocksThen
  <2>4. AfterIn(a, c, e) /\ Len(a) = 3 /\ a[2].op = "elock" /\ a[3].op = b.op
    BY <2>2, <2>3, AfterTwo
  <2> QED BY <2>2, <2>4
<1>3. CASE c.k = "mkdir" /\ dir
  <2>1. a = <<eunlock(Root)>> \o <<elock(e), eunlock(e), eput(e)>>
    BY <1>0, <1>3 DEF After, NamedCall, Creates
  <2> QED BY ONLY <2>1, AfterThree, e \in File
<1>4. CASE c.k = "remove"
  <2> DEFINE b == [op |-> "remove", e |-> e]
  <2>1. a = <<eunlock(Root)>> \o <<elock(e), b>>
    BY <1>0, <1>4 DEF After, NamedCall, Creates
  <2>2. b.op = "remove" /\ b.e = e
    OBVIOUS
  <2> HIDE DEF b
  <2>3. LocksThen(a, e, b) /\ (b.op = "opened" \/ (b.op = "remove" /\ c.k = "remove"))
    BY <1>4, <2>1, <2>2 DEF LocksThen
  <2>4. AfterIn(a, c, e)
    BY <2>2, <2>3, AfterTwo
  <2> QED BY <1>4, <2>4 DEF Creates
<1> QED BY <1>1, <1>2, <1>3, <1>4 DEF NamedCall, Creates

\* the heads when the entry e, which nobody uses, is given up
Evict(E, T, D, e) ==
  [i \in Idx |-> IF i = Ie(e) THEN 0
                 ELSE IF E[e].valid = 1 /\ i = Ig(E[e].off) THEN E[e].first
                 ELSE Heads(E, T, D)[i]]
Evicts(h, E, T, D, e) == h = Evict(E, T, D, e)
Evicted(h, E, T, D, e) ==
  /\ h[Ie(e)] = 0 /\ (E[e].valid = 1 /\ E[e].off \in Nat => h[Ig(E[e].off)] = E[e].first)
  /\ \A d \in Entry : d # e => h[Ie(d)] = EntryHead(E, T, d)
  /\ \A p \in Procs : h[Ip(p)] = Held(T[p])
  /\ \A g \in Nat : E[e].valid # 1 \/ E[e].off # g => h[Ig(g)] = DiskHead(E, T, D, g)
  /\ \A i \in Idx : i # Ie(e) /\ (E[e].valid # 1 \/ i # Ig(E[e].off)) => h[i] = Heads(E, T, D)[i]
LEMMA EvictIs ==
  ASSUME NEW E, NEW T, NEW D, NEW e \in File, NEW h, Evicts(h, E, T, D, e)
  PROVE  Evicted(h, E, T, D, e)
<1>1. \A i \in Idx : h[i] = IF i = Ie(e) THEN 0
                            ELSE IF E[e].valid = 1 /\ i = Ig(E[e].off) THEN E[e].first ELSE Heads(E, T, D)[i]
  BY DEF Evicts, Evict
<1>2. e \in Entry /\ Ie(e) \in Idx
  BY FileEntry, IdxIs
<1>3. h[Ie(e)] = 0
  BY <1>1, <1>2
<1>4. E[e].valid = 1 /\ E[e].off \in Nat => h[Ig(E[e].off)] = E[e].first
  BY <1>1, IdxIs, IdxApart
<1>5. ASSUME NEW d \in Entry, d # e PROVE h[Ie(d)] = EntryHead(E, T, d)
  <2>1. Ie(d) \in Idx /\ Ie(d) # Ie(e) /\ Ie(d) # Ig(E[e].off)
    BY <1>5, IdxIs, IdxApart
  <2>2. h[Ie(d)] = Heads(E, T, D)[Ie(d)]
    BY <1>1, <2>1
  <2> QED BY <2>2, HeadsIs
<1>6. ASSUME NEW p \in Procs PROVE h[Ip(p)] = Held(T[p])
  <2>1. Ip(p) \in Idx /\ Ip(p) # Ie(e) /\ Ip(p) # Ig(E[e].off)
    BY IdxIs, IdxApart
  <2>2. h[Ip(p)] = Heads(E, T, D)[Ip(p)]
    BY <1>1, <2>1
  <2> QED BY <2>2, HeadsIs
<1>7. ASSUME NEW g \in Nat, E[e].valid # 1 \/ E[e].off # g PROVE h[Ig(g)] = DiskHead(E, T, D, g)
  <2>1. Ig(g) \in Idx /\ Ig(g) # Ie(e) /\ (E[e].valid # 1 \/ Ig(g) # Ig(E[e].off))
    BY <1>7, IdxIs, IdxApart
  <2>2. h[Ig(g)] = Heads(E, T, D)[Ig(g)]
    BY <1>1, <2>1
  <2> QED BY <2>2, HeadsIs
<1> QED BY <1>1, <1>3, <1>4, <1>5, <1>6, <1>7 DEF Evicted
LEMMA UnusedHead ==
  ASSUME NEW l, NEW K, NEW E, NEW T, NEW F, CtlOK(l, K, E, T, F), NEW e \in File, E[e].ref = 0
  PROVE  /\ ~Cut(T, e) /\ ~Made(T, e) /\ E[e].lock = NoProc
         /\ EntryHead(E, T, e) = IF E[e].valid = 1 THEN E[e].first ELSE 0
<1>1. E[e].lock = NoProc
  BY UnusedFree
<1>2. ASSUME NEW p \in Procs, OnEntry(T[p], {"etrunc"}, e) PROVE FALSE
  <2>1. T[p] # <<>> /\ T[p][1].op \in NeedsLock /\ T[p][1].e = e
    BY <1>2 DEF OnEntry, NeedsLock
  <2>2. E[e].lock = p
    BY <2>1, HeadLocked
  <2> QED BY <1>1, <2>2, ProcsAssumption
<1>3. ASSUME NEW p \in Procs, Creating(T[p], e) PROVE FALSE
  <2>1. E[e].lock = p
    BY <1>3, MakerIs
  <2> QED BY <1>1, <2>1, ProcsAssumption
<1>4. ~Cut(T, e) /\ ~Made(T, e)
  BY <1>2, <1>3 DEF Cut, Made
<1> QED BY <1>1, <1>4 DEF EntryHead, InMem
LEMMA EvictOK ==
  ASSUME NEW l, NEW K, NEW E, NEW T, NEW F, CtlOK(l, K, E, T, F), NEW t, NEW d, NEW D, DiskOK(l, E, T, t, d, D),
         NEW e \in File, E[e].ref = 0, NEW h, Evicts(h, E, T, D, e)
  PROVE  FatOK(l, h, t)
<1> DEFINE h0 == Heads(E, T, D)
<1>1. FatOK(l, h0, t) /\ Sizes(E) /\ CacheOK(E, T, D)
  BY DiskParts
<1>2. EntryHead(E, T, e) = IF E[e].valid = 1 THEN E[e].first ELSE 0
  BY UnusedHead
<1>3. e \in Entry /\ Ie(e) \in Idx /\ h0[Ie(e)] = EntryHead(E, T, e)
  BY FileEntry, IdxIs, HeadsIs
<1>0. Evicted(h, E, T, D, e)
  BY EvictIs
<1>4. /\ h[Ie(e)] = 0 /\ (E[e].valid = 1 /\ E[e].off \in Nat => h[Ig(E[e].off)] = E[e].first)
      /\ \A i \in Idx : i # Ie(e) /\ (E[e].valid # 1 \/ i # Ig(E[e].off)) => h[i] = h0[i]
  BY <1>0 DEF Evicted
<1>5. CASE E[e].valid # 1
  <2>1. Alikes(h0, h)
    <3>1. \A i \in Idx : h[i] = h0[i]
      BY <1>2, <1>3, <1>4, <1>5
    <3> QED BY <3>1 DEF Alikes
  <2> HIDE DEF h0
  <2> QED BY <1>1, <2>1, FatAlike
<1>6. CASE E[e].valid = 1
  <2> DEFINE g == E[e].off
  <2>1. g \in Nat /\ Ig(g) \in Idx /\ Ie(e) # Ig(g)
    BY <1>1, <1>3, IdxIs, IdxApart DEF Sizes
  <2>2. h0[Ig(g)] = 0
    <3>1. ~OnDisk(E, T, D, g)
      BY <1>6 DEF OnDisk, Bound
    <3>2. h0[Ig(g)] = DiskHead(E, T, D, g)
      BY <2>1, HeadsIs
    <3> QED BY <3>1, <3>2 DEF DiskHead
  <2>3. h[Ig(g)] = h0[Ie(e)] /\ h[Ie(e)] \in {0, EOC} /\ ~Cl(h0[Ig(g)])
    BY <1>2, <1>3, <1>4, <1>6, <2>1, <2>2, ClNot
  <2>4. Moves(h0, h, Ie(e), Ig(g))
    BY <1>4 DEF Moves
  <2> DEFINE a == Ie(e) b == Ig(g)
  <2>5. a \in Idx /\ b \in Idx /\ a # b /\ Moves(h0, h, a, b) /\ ~Cl(h0[b]) /\ h[b] = h0[a] /\ h[a] \in {0, EOC}
    BY <1>3, <2>1, <2>3, <2>4
  <2> HIDE DEF h0, a, b
  <2> QED BY <1>1, <2>5, FatMove
<1> QED BY <1>5, <1>6
\* the heads when something else is in that entry
Placed(E, x) == \A f \in File : E[f].valid = 1 => E[f].off # x.off
LEMMA EvictHeads ==
  ASSUME NEW l, NEW K, NEW E, NEW T, NEW F, CtlOK(l, K, E, T, F), NEW t, NEW d, NEW D, DiskOK(l, E, T, t, d, D),
         NEW e \in File, E[e].ref = 0, NEW h, Evicts(h, E, T, D, e),
         NEW p \in Procs, NEW r, NEW T2, Becomes(T, T2, p, r), NoHead(T[p]), NoHead(r),
         \A f \in File : ~Creating(T[p], f) /\ (f # e => ~Creating(r, f)), \A q \in Procs, f \in File : ~Creating(T[q], f),
         NEW E2, NEW x, NEW y, Changed(E, E2, e, x, y), Bound(E2, T2, e) => Placed(E, x)
  PROVE  LET h2 == Heads(E2, T2, D) IN
         /\ \A a \in Entry : a # e => h2[Ie(a)] = h[Ie(a)]
         /\ \A q \in Procs : h2[Ip(q)] = h[Ip(q)]
         /\ \A g \in Nat : (Bound(E2, T2, e) /\ x.off = g) \/ h2[Ig(g)] = h[Ig(g)]
         /\ \A g \in Nat : Bound(E2, T2, e) /\ x.off = g => h2[Ig(g)] = 0 /\ h[Ig(g)] = IF g \in Groups(D) THEN GInfo(D, g).first ELSE 0
         /\ \A a \in Entry : Cut(T2, a) <=> Cut(T, a)
<1> DEFINE h2 == Heads(E2, T2, D)
<1>1. /\ \A a \in Entry : h2[Ie(a)] = EntryHead(E2, T2, a)
      /\ \A q \in Procs : h2[Ip(q)] = Held(T2[q])
      /\ \A g \in Nat : h2[Ig(g)] = DiskHead(E2, T2, D, g)
  BY HeadsIs
<1>2. /\ h[Ie(e)] = 0 /\ (E[e].valid = 1 /\ E[e].off \in Nat => h[Ig(E[e].off)] = E[e].first)
      /\ \A a \in Entry : a # e => h[Ie(a)] = EntryHead(E, T, a)
      /\ \A q \in Procs : h[Ip(q)] = Held(T[q])
      /\ \A g \in Nat : E[e].valid # 1 \/ E[e].off # g => h[Ig(g)] = DiskHead(E, T, D, g)
  <2>1. Evicted(h, E, T, D, e)
    BY EvictIs
  <2> QED BY <2>1 DEF Evicted
<1>3. /\ EntDom(E2) /\ E2[e] = x /\ E2[Root] = y /\ Alike(E[Root], y)
      /\ \A f \in File : f # e => E2[f] = E[f]
  BY DEF Changed
<1>4. ASSUME NEW a \in Entry PROVE Cut(T2, a) <=> Cut(T, a)
  <2>1. OnEntry(T[p], {"etrunc"}, a) <=> OnEntry(r, {"etrunc"}, a)
    BY NoHeld
  <2> QED BY <2>1, CutSame
<1>5. ASSUME NEW a \in Entry, a # e PROVE h2[Ie(a)] = h[Ie(a)]
  <2>1. EntryHead(E2, T2, a) = EntryHead(E, T, a)
    <3>1. InMem(E2[a]) = InMem(E[a]) /\ E2[a].first = E[a].first
      <4>1. CASE a = Root
        BY <1>3, <4>1 DEF Alike, InMem
      <4>2. CASE a # Root
        BY <1>3, <1>5, <4>2, FileEntry
      <4> QED BY <4>1, <4>2
    <3> QED BY <1>4, <3>1 DEF EntryHead
  <2> QED BY <1>1, <1>2, <1>5, <2>1
<1>6. ASSUME NEW q \in Procs PROVE h2[Ip(q)] = h[Ip(q)]
  <2>0. Held(T[p]) = 0 /\ Held(r) = 0
    BY NoHeld
  <2>1. Held(T2[q]) = Held(T[q])
    BY <2>0 DEF Becomes
  <2> QED BY <1>1, <1>2, <2>1
<1>7. /\ \A f \in File : f # e => (Bound(E2, T2, f) <=> Bound(E, T, f)) /\ E2[f].off = E[f].off
      /\ \A f \in File : Bound(E, T, f) <=> E[f].valid = 1
  <2>1. ASSUME NEW f \in File PROVE ~Made(T, f) /\ (f # e => ~Made(T2, f))
    BY DEF Made, Becomes
  <2> QED BY <1>3, <2>1 DEF Bound
<1>8. ASSUME NEW g \in Nat, ~(Bound(E2, T2, e) /\ x.off = g) PROVE h2[Ig(g)] = h[Ig(g)]
  <2>1. OnDisk(E2, T2, D, g) <=> (g \in Groups(D) /\ \A f \in File : f # e /\ E[f].valid = 1 => E[f].off # g)
    BY <1>3, <1>7, <1>8 DEF OnDisk
  <2>2. CASE E[e].valid = 1 /\ E[e].off = g
    <3>1. h[Ig(g)] = E[e].first
      BY <1>2, <2>2
    <3>2. CacheOK(E, T, D)
      BY DiskParts
    <3>3. InStep(E[e], D) /\ g \in Groups(D) /\ GInfo(D, g).first = E[e].first
      BY <2>2, <3>2 DEF CacheOK, InStep
    <3>4. OnDisk(E2, T2, D, g)
      BY <1>7, <2>1, <2>2, <3>2, <3>3 DEF CacheOK
    <3> QED BY <1>1, <3>1, <3>3, <3>4 DEF DiskHead
  <2>3. CASE ~(E[e].valid = 1 /\ E[e].off = g)
    <3>1. OnDisk(E, T, D, g) <=> OnDisk(E2, T2, D, g)
      BY <1>7, <2>1, <2>3 DEF OnDisk
    <3> QED BY <1>1, <1>2, <2>3, <3>1 DEF DiskHead
  <2> QED BY <2>2, <2>3
<1>9. ASSUME NEW g \in Nat, Bound(E2, T2, e), x.off = g
      PROVE  h2[Ig(g)] = 0 /\ h[Ig(g)] = IF g \in Groups(D) THEN GInfo(D, g).first ELSE 0
  <2>1. ~OnDisk(E2, T2, D, g)
    BY <1>3, <1>9 DEF OnDisk
  <2>2. \A f \in File : E[f].valid = 1 => E[f].off # g
    BY <1>9 DEF Placed
  <2>3. OnDisk(E, T, D, g) <=> g \in Groups(D)
    BY <1>7, <2>2 DEF OnDisk
  <2>4. h[Ig(g)] = DiskHead(E, T, D, g)
    BY <1>2, <2>2
  <2> QED BY <1>1, <2>1, <2>3, <2>4 DEF DiskHead
<1> QED BY <1>4, <1>5, <1>6, <1>8, <1>9

\* what an entry of the cache says of the clusters of its file
NewEntry(x, t) ==
  /\ (x.first = 0 \/ Cl(x.first)) /\ x.size \in Nat /\ x.off \in Nat /\ (x.size > 0 => x.first # 0)
  /\ InMem(x) /\ Cl(x.first) => At1(t, x.first, x.cur, x.cnt)
\* dirlookup() puts something else into the entry e, which nobody uses
LEMMA DiskLook ==
  ASSUME NEW l, NEW K, NEW E, NEW T, NEW F, CtlOK(l, K, E, T, F), NEW t, NEW d, NEW D, DiskOK(l, E, T, t, d, D),
         NEW p \in Procs, E[Root].lock = p, NEW e \in File, E[e].ref = 0,
         NEW r, NEW T2, Becomes(T, T2, p, r), NoHead(T[p]), NoHead(r),
         \A f \in File : ~Creating(T[p], f) /\ (f # e => ~Creating(r, f)), \A q \in Procs, f \in File : ~Creating(T[q], f),
         NEW E2, NEW x, NEW y, MovesCur(E[Root], y, t), Changed(E, E2, e, x, y), NewEntry(x, t),
         FatOK(l, Heads(E2, T2, D), t), LocalOK(r, E2, t, d), DirOK(E2, T2, D),
         x.valid = 1 => InStep(x, D), Bound(E2, T2, e) => Placed(E, x)
  PROVE  DiskOK(l, E2, T2, t, d, D)
<1>1. /\ FatOK(l, Heads(E, T, D), t) /\ DatDom(d) /\ CurOK(E, T, t) /\ Sizes(E) /\ RootOK(E)
      /\ NamesOK(l, D) /\ CacheOK(E, T, D)
  BY DiskParts
<1>2. /\ EntDom(E2) /\ E2[e] = x /\ E2[Root] = y /\ Alike(E[Root], y)
      /\ \A f \in File : f # e => E2[f] = E[f]
  BY DEF Changed
<1>3. Mine(E, E2, p)
  <2>1. E[e].lock = NoProc
    BY UnusedFree
  <2>2. ASSUME NEW f \in Entry PROVE E[f].lock \in {p, NoProc} \/ Steady(E[f], E2[f])
    <3>1. CASE f = e
      BY <2>1, <3>1
    <3>2. CASE f = Root
      BY <3>2
    <3>3. CASE f # e /\ f # Root
      BY <1>2, <3>3, FileEntry DEF Steady
    <3> QED BY <3>1, <3>2, <3>3
  <2> QED BY <2>2 DEF Mine
<1>4. Untouched(E, T, t, t, d, d, p)
  BY KeepsSame
<1>5. Sizes(E2) /\ RootOK(E2)
  BY <1>1, ChangedRest DEF NewEntry
<1>6. ASSUME NEW a \in Entry PROVE Cut(T2, a) <=> Cut(T, a)
  <2>1. OnEntry(T[p], {"etrunc"}, a) <=> OnEntry(r, {"etrunc"}, a)
    BY NoHeld
  <2> QED BY <2>1, CutSame
<1>7. CurOK(E2, T2, t)
  <2>1. ASSUME NEW f \in Entry, InMem(E2[f]), Cl(E2[f].first), ~Cut(T2, f)
        PROVE  At1(t, E2[f].first, E2[f].cur, E2[f].cnt)
    <3>1. CASE f = e
      BY <1>2, <2>1, <3>1 DEF NewEntry
    <3>2. CASE f = Root
      BY <1>2, <3>2 DEF MovesCur
    <3>3. CASE f # e /\ f # Root
      BY <1>1, <1>2, <1>6, <2>1, <3>3, FileEntry DEF CurOK
    <3> QED BY <3>1, <3>2, <3>3
  <2> QED BY <2>1 DEF CurOK
<1>8. ASSUME NEW f \in File, f # e PROVE (Bound(E2, T2, f) <=> E[f].valid = 1) /\ (Bound(E, T, f) <=> E[f].valid = 1)
  <2>1. ~Made(T, f) /\ ~Made(T2, f)
    BY <1>8 DEF Made, Becomes
  <2> QED BY <1>2, <1>8, <2>1 DEF Bound
<1>9. CacheOK(E2, T2, D)
  <2>1. ASSUME NEW f \in File, E2[f].valid = 1 PROVE InStep(E2[f], D)
    BY <1>1, <1>2, <2>1 DEF CacheOK
  <2>2. ASSUME NEW f \in File, NEW g \in File, Bound(E2, T2, f), Bound(E2, T2, g), E2[f].off = E2[g].off, f # g PROVE FALSE
    <3>1. CASE f = e
      <4>1. g # e /\ E[g].valid = 1 /\ E[g].off = x.off
        BY <1>2, <1>8, <2>2, <3>1
      <4> QED BY <2>2, <3>1, <4>1 DEF Placed
    <3>2. CASE g = e
      <4>1. f # e /\ E[f].valid = 1 /\ E[f].off = x.off
        BY <1>2, <1>8, <2>2, <3>2
      <4> QED BY <2>2, <3>2, <4>1 DEF Placed
    <3>3. CASE f # e /\ g # e
      BY <1>1, <1>2, <1>8, <2>2, <3>3 DEF CacheOK
    <3> QED BY <3>1, <3>2, <3>3
  <2> QED BY <2>1, <2>2 DEF CacheOK
<1>10. FatOK(l, Heads(E2, T2, D), t) /\ LocalOK(r, E2, t, d) /\ DirOK(E2, T2, D) /\ DatDom(d) /\ NamesOK(l, D)
  BY <1>1
<1> QED BY <1>3, <1>4, <1>5, <1>7, <1>9, <1>10, DiskStep

\* a process at dirlookup() in the root, for the call c
LookAt(p, c) ==
  /\ todo[p] # <<>> /\ todo[p][1].op = "lookup" /\ Len(todo[p]) = 1 /\ NoHead(todo[p]) /\ SeqOK(todo[p])
  /\ NamedCall(c) /\ c.name \in Names /\ c.name # <<>> /\ (c.k = "remove" => c.name \in Removed(load))
  /\ RootIdle(p) /\ (\A q \in Procs, f \in File : ~Creating(todo[q], f)) /\ EntDom(ent)
LEMMA LookAtIs ==
  ASSUME FInv, NEW p \in Procs, At(p, "lookup"), NEW c, c = Now(p).c
  PROVE  LookAt(p, c)
<1>1. CtlOK(load, calls, ent, todo, file) /\ Ctl /\ CallsAre(load)
  BY DEF FInv, Ctl
<1>2. todo[p] # <<>> /\ todo[p][1].op = "lookup" /\ Now(p) = todo[p][1] /\ SeqOK(todo[p])
  BY <1>1, AtIs
<1>3. Len(todo[p]) = 1 /\ ent[Root].lock = p /\ \A d : ~Creating(todo[p], d)
  BY <1>1, <1>2, LookupIs
<1>4. Asked(load, p, todo[p], ent) /\ EntDom(ent)
  BY <1>1, Ready
<1>5. c \in CallsOf(load, p) /\ c.k \in {"open", "mkdir", "remove"}
  <2>1. 1 \in 1..Len(todo[p])
    BY <1>3
  <2> QED BY <1>2, <1>4, <2>1 DEF Asked
<1>6. CallIs(c)
  BY <1>1, <1>5 DEF CallsAre
<1>7. NamedCall(c) /\ c.name \in Names
  BY <1>5, <1>6 DEF CallIs, NamedCall
<1>8. c.name # <<>>
  <2>1. Len(c.name) \in Nat \ {0}
    BY <1>7, NamesAssumption
  <2>2. Len(<<>>) = 0
    OBVIOUS
  <2> QED BY <2>1, <2>2
<1>9. c.k = "remove" => c.name \in Removed(load)
  BY <1>5, <1>7 DEF Removed
<1>10. RootIdle(p)
  BY <1>3 DEF RootIdle
<1>11. \A q \in Procs, f \in File : ~Creating(todo[q], f)
  BY <1>10, IdleRoot
<1>12. NoHead(todo[p])
  BY <1>2 DEF NoHead
<1> QED BY <1>2, <1>3, <1>4, <1>7, <1>8, <1>9, <1>10, <1>11, <1>12 DEF LookAt
\* what dirlookup() finds
FileFound(c, r) == r = [found |-> TRUE, off |-> r.off, info |-> GInfo(Dir, r.off)]
                   /\ r.off \in Groups(Dir) /\ GName(Dir, r.off) = c.name
NoFile(c, r) == /\ r = [found |-> FALSE, off |-> r.off] /\ r.off \in Nat /\ Regular(Dir, r.off) /\ Free(Dir, r.off)
                /\ \A g \in Groups(Dir) : GName(Dir, g) # c.name
Finds(c, r) == r = dirlookup(ent[Root].first, c.name)
LEMMA FindsIs ==
  ASSUME FInv, NEW p \in Procs, NEW c, LookAt(p, c), NEW r, Finds(c, r)
  PROVE  FileFound(c, r) \/ NoFile(c, r)
<1>1. RootIdle(p) /\ c.name # <<>>
  BY DEF LookAt
<1>2. DirSound /\ ent[Root].first = 2
  BY <1>1, IdleRoot
<1>3. r = dirlookup(2, c.name)
  BY <1>2 DEF Finds
<1>4. \/ /\ r = [found |-> TRUE, off |-> r.off, info |-> GInfo(Dir, r.off)]
         /\ r.off \in Groups(Dir) /\ GName(Dir, r.off) = c.name
      \/ /\ r = [found |-> FALSE, off |-> r.off]
         /\ r.off \in Nat /\ Regular(Dir, r.off) /\ Free(Dir, r.off)
         /\ \A g \in Groups(Dir) : GName(Dir, g) # c.name
  <2> DEFINE nm == c.name
  <2>1. nm # <<>>
    BY <1>1
  <2>2. r = dirlookup(2, nm)
    BY <1>3
  <2> HIDE DEF nm
  <2>3. \/ /\ r = [found |-> TRUE, off |-> r.off, info |-> GInfo(Dir, r.off)]
           /\ r.off \in Groups(Dir) /\ GName(Dir, r.off) = nm
        \/ /\ r = [found |-> FALSE, off |-> r.off]
           /\ r.off \in Nat /\ Regular(Dir, r.off) /\ Free(Dir, r.off)
           /\ \A g \in Groups(Dir) : GName(Dir, g) # nm
    BY <1>2, <2>1, <2>2, DirlookupIs
  <2> QED BY <2>3 DEF nm
<1> QED BY <1>4 DEF FileFound, NoFile
\* an entry that has no references
LEMMA VictimIs ==
  ASSUME NEW e \in Victim
  PROVE  e \in File /\ e \in Entry /\ e # Root /\ ent[e].ref = 0
<1>1. e \in Unused
  BY DEF Victim
<1> QED BY <1>1 DEF Unused, File
\* the changes that dirlookup() and ealloc() make to the cache
RootThen(E, E2, e, x, y) == E2 = [E EXCEPT ![Root] = y, ![e] = x]
LEMMA RootThenIs ==
  ASSUME NEW E, EntDom(E), NEW e \in File, NEW x, NEW y, NEW E2, RootThen(E, E2, e, x, y)
  PROVE  TwoPuts(E, E2, e, x, y)
<1>1. E = [d \in Entry |-> E[d]] /\ e \in Entry /\ e # Root /\ Root \in Entry
  BY FileEntry DEF EntDom
<1>2. E2 = [d \in Entry |-> IF d = e THEN x ELSE IF d = Root THEN y ELSE E[d]]
  BY <1>1 DEF RootThen
<1>3. [E EXCEPT ![e] = x, ![Root] = y] = [d \in Entry |-> IF d = e THEN x ELSE IF d = Root THEN y ELSE E[d]]
  BY <1>1
<1> QED BY <1>2, <1>3 DEF TwoPuts
Dropped(x, y) == y = [x EXCEPT !.valid = 0]
RootThenDrop(E, E2, e, y) == E2 = [E EXCEPT ![Root] = y, ![e].valid = 0]
LEMMA RootDropIs ==
  ASSUME NEW E, EntDom(E), NEW e \in File, NEW y, NEW E2, RootThenDrop(E, E2, e, y), NEW x, Dropped(E[e], x)
  PROVE  TwoPuts(E, E2, e, x, y)
<1>1. E = [d \in Entry |-> E[d]] /\ e \in Entry /\ e # Root /\ Root \in Entry
  BY FileEntry DEF EntDom
<1>2. E2 = [d \in Entry |-> IF d = e THEN x ELSE IF d = Root THEN y ELSE E[d]]
  BY <1>1 DEF RootThenDrop, Dropped
<1>3. [E EXCEPT ![e] = x, ![Root] = y] = [d \in Entry |-> IF d = e THEN x ELSE IF d = Root THEN y ELSE E[d]]
  BY <1>1
<1> QED BY <1>2, <1>3 DEF TwoPuts
\* the steps that follow the lookup are all that the process has to do
LEMMA LookPush ==
  ASSUME FInv, NEW p \in Procs, NEW c, LookAt(p, c), NEW a, IsSeq(a), Push(p, a)
  PROVE  Becomes(todo, todo', p, a)
<1>1. Ctl /\ todo[p] # <<>> /\ Len(todo[p]) = 1
  BY DEF FInv, LookAt
<1>2. PICK r : Puts(r, a, todo[p]) /\ Becomes(todo, todo', p, r)
  BY <1>1, DoPush
<1>3. r = a
  BY <1>1, <1>2, PutsAll
<1> QED BY <1>2, <1>3

\* what follows a lookup that finds or takes an entry
IsAfter(a, c, e, dir) == a = After(c, e, dir)
FollowsOK(a, c, e) ==
  /\ AfterIn(a, c, e) /\ IsSeq(a) /\ NoHead(a) /\ (\A d : ~Creating(a, d))
  /\ \A E, t, d : LocalOK(a, E, t, d)
LEMMA AfterLocal ==
  ASSUME NEW a, NEW c, NEW e, AfterIn(a, c, e)
  PROVE  FollowsOK(a, c, e)
<1>1. AfterForm(a, e)
  BY DEF AfterIn
<1>2. AfterFits(a, e)
  BY <1>1, AfterFit
<1>3. IsSeq(a) /\ a # <<>> /\ a[1].op = "eunlock" /\ a[1].e = Root /\ a[2].op \in {"eput", "elock"}
  BY <1>1, <1>2 DEF AfterForm, AfterFits
<1>4. NoHead(a)
  BY <1>3 DEF NoHead
<1>5. ASSUME NEW E, NEW t, NEW d PROVE LocalOK(a, E, t, d)
  BY <1>3 DEF LocalOK, Shaped, Is
<1>6. \A d : ~Creating(a, d)
  BY <1>2 DEF AfterFits
<1> QED BY <1>3, <1>4, <1>5, <1>6 DEF FollowsOK
LEMMA AfterOK ==
  ASSUME FInv, NEW p \in Procs, NEW c, LookAt(p, c), NEW e \in File, NEW dir \in BOOLEAN, NEW a, IsAfter(a, c, e, dir)
  PROVE  FollowsOK(a, c, e)
<1>1. NamedCall(c) /\ a = After(c, e, dir)
  BY DEF LookAt, IsAfter
<1>2. AfterIn(a, c, e)
  BY <1>1, AfterIs
<1> QED BY <1>2, AfterLocal
\* one more reference
RefAdd(x, y) == y = [x EXCEPT !.ref = @ + 1]
RefMore(E, E2, e) == E2 = [E EXCEPT ![e].ref = @ + 1]
LEMMA RefAddIs ==
  ASSUME NEW x, IsEntry(x), NEW y, RefAdd(x, y)
  PROVE  IsEntry(y) /\ Steady(x, y) /\ y.lock = x.lock /\ y.ref = x.ref + 1
<1>1. y = [name |-> x.name, dir |-> x.dir, first |-> x.first, size |-> x.size, cur |-> x.cur,
                 cnt |-> x.cnt, dirty |-> x.dirty, valid |-> x.valid, ref |-> x.ref + 1, off |-> x.off,
                 lock |-> x.lock]
  BY DEF RefAdd, IsEntry, IsEnt
<1> QED BY <1>1 DEF IsEntry, IsEnt, Steady
LEMMA RefMoreIs ==
  ASSUME NEW E, EntDom(E), NEW e \in Entry, NEW E2, RefMore(E, E2, e), NEW y, RefAdd(E[e], y)
  PROVE  Puts1(E, e, y, E2)
BY DEF RefMore, RefAdd, Puts1
\* dirlookup() finds the entry in the cache
LEMMA DoHit ==
  ASSUME FInv, NEW p \in Procs, NEW c, LookAt(p, c), NEW e \in File, ent[e].valid = 1, ent[e].name = c.name,
         RefMore(ent, ent', e), NEW a, IsAfter(a, c, e, ent[e].dir), Push(p, a),
         UNCHANGED <<load, calls, fat, data, file>>
  PROVE  FInv'
<1>1. CtlOK(load, calls, ent, todo, file) /\ DiskOK(load, ent, todo, fat, data, Dir)
  BY DEF FInv, Ctl, Disk
<1>2. /\ todo[p] # <<>> /\ todo[p][1].op = "lookup" /\ NoHead(todo[p]) /\ EntDom(ent)
      /\ (c.k = "remove" => c.name \in Removed(load)) /\ \A f \in File : ~Creating(todo[p], f)
  BY DEF LookAt
<1>3. IsEntry(ent[e]) /\ e \in Entry /\ ent[e].dir \in BOOLEAN
  <2>1. e \in Entry
    BY FileEntry
  <2>2. IsEntry(ent[e])
    BY <1>2, <2>1, EntIs
  <2> QED BY <2>1, <2>2 DEF IsEntry
<1>4. FollowsOK(a, c, e)
  BY <1>3, AfterOK
<1>5. Becomes(todo, todo', p, a)
  BY <1>4, LookPush DEF FollowsOK
<1> DEFINE y == [ent[e] EXCEPT !.ref = @ + 1]
<1>6. RefAdd(ent[e], y)
  BY DEF RefAdd
<1> HIDE DEF y
<1>7. IsEntry(y) /\ Steady(ent[e], y) /\ y.lock = ent[e].lock /\ y.ref = ent[e].ref + 1
  BY <1>3, <1>6, RefAddIs
<1>8. Puts1(ent, e, y, ent')
  BY <1>2, <1>3, <1>6, RefMoreIs
<1>9. EntDom(ent') /\ ent'[e] = y /\ \A d \in Entry : d # e => ent'[d] = ent[d]
  BY <1>2, <1>3, <1>7, <1>8, EntSet
<1>10. Looked(ent, ent', e)
  BY <1>7, <1>9, FileEntry DEF Looked
<1>11. ent'[e].ref = ent[e].ref + 1 /\ ent'[e].valid = 1 /\ ent'[e].name = ent[e].name /\ ent[e].ref \in Nat
  BY <1>3, <1>7, <1>9 DEF Steady, IsEntry
<1>12. AfterForm(a, e) /\ \A k \in 1..Len(a) : a[k].op = "remove" => ent'[e].name \in Removed(load)
  BY <1>2, <1>4, <1>11 DEF FollowsOK, AfterIn
<1>13. CtlOK(load, calls, ent', todo', file)
  BY <1>1, <1>2, <1>5, <1>10, <1>11, <1>12, CtlFound
<1>14. RefMoves(ent, ent')
  <2>1. ASSUME NEW x \in Entry
        PROVE  /\ Steady(ent[x], ent'[x]) /\ (ent[x].first = 0 \/ (InMem(ent[x]) <=> InMem(ent'[x])))
               /\ x \in File /\ ent[x].valid = 1 /\ ent'[x].ref = 0 => Clean(ent[x]) \/ ent[x].ref = 0
    <3>1. CASE x = e
      <4>1. ent'[e].ref # 0
        BY <1>11
      <4> QED BY <1>7, <1>9, <1>11, <3>1, <4>1 DEF InMem
    <3>2. CASE x # e
      BY <1>9, <3>2 DEF Steady
    <3> QED BY <3>1, <3>2
  <2> QED BY <2>1 DEF RefMoves
<1>15. SameMaking(todo[p], a, ent) /\ NoHead(a) /\ LocalOK(a, ent', fat, data)
  <2>1. \A d \in File : ~Creating(todo[p], d) /\ ~Creating(a, d)
    BY <1>2, <1>4 DEF FollowsOK
  <2>2. SameMaking(todo[p], a, ent)
    BY <2>1, NoneMakes
  <2> QED BY <1>4, <2>2 DEF FollowsOK
<1>16. DiskOK(load, ent', todo', fat, data, Dir)
  BY <1>1, <1>2, <1>5, <1>14, <1>15, DiskRef
<1>17. Dir' = Dir
  BY DirSame
<1>18. CtlOK(load, calls', ent', todo', file') /\ DiskOK(load, ent', todo', fat', data', Dir')
  BY <1>13, <1>16, <1>17
<1> QED BY <1>18, NextInv

\* the heads h without the entry e, and those with the entry x in its place
Reheaded(l, h, t, E2, T2, D, e, x) ==
  /\ FatOK(l, h, t) /\ h[Ie(e)] = 0
  /\ \A z \in Idx : \/ z = Ie(e) \/ Heads(E2, T2, D)[z] = h[z]
                    \/ Bound(E2, T2, e) /\ z = Ig(x.off)
  /\ Bound(E2, T2, e) => /\ Heads(E2, T2, D)[Ig(x.off)] = 0
                         /\ h[Ig(x.off)] = IF x.off \in Groups(D) THEN GInfo(D, x.off).first ELSE 0
  /\ \A a \in Entry : Cut(T2, a) <=> Cut(todo, a)
Evictee(e) == e \in File /\ ent[e].ref = 0
LEMMA LookEvict ==
  ASSUME FInv, NEW p \in Procs, NEW c, LookAt(p, c), NEW e, Evictee(e),
         NEW r, NEW T2, Becomes(todo, T2, p, r), NoHead(r), \A f \in File : f # e => ~Creating(r, f),
         NEW E2, NEW x, NEW y, Changed(ent, E2, e, x, y), x.off \in Nat, Bound(E2, T2, e) => Placed(ent, x)
  PROVE  \E h : Reheaded(load, h, fat, E2, T2, Dir, e, x)
<1>1. CtlOK(load, calls, ent, todo, file) /\ DiskOK(load, ent, todo, fat, data, Dir)
  BY DEF FInv, Ctl, Disk
<1>2. NoHead(todo[p]) /\ \A q \in Procs, f \in File : ~Creating(todo[q], f)
  BY DEF LookAt
<1>3. e \in File /\ ent[e].ref = 0 /\ e \in Entry
  BY FileEntry DEF Evictee
<1> DEFINE h == Evict(ent, todo, Dir, e)
<1>4. Evicts(h, ent, todo, Dir, e)
  BY DEF Evicts
<1> HIDE DEF h
<1>5. FatOK(load, h, fat) /\ Evicted(h, ent, todo, Dir, e)
  BY <1>1, <1>3, <1>4, EvictOK, EvictIs
<1> DEFINE h2 == Heads(E2, T2, Dir)
<1>6. /\ \A a \in Entry : a # e => h2[Ie(a)] = h[Ie(a)]
      /\ \A q \in Procs : h2[Ip(q)] = h[Ip(q)]
      /\ \A g \in Nat : (Bound(E2, T2, e) /\ x.off = g) \/ h2[Ig(g)] = h[Ig(g)]
      /\ \A g \in Nat : Bound(E2, T2, e) /\ x.off = g => h2[Ig(g)] = 0 /\ h[Ig(g)] = IF g \in Groups(Dir) THEN GInfo(Dir, g).first ELSE 0
      /\ \A a \in Entry : Cut(T2, a) <=> Cut(todo, a)
  <2>1. \A f \in File : ~Creating(todo[p], f) /\ (f # e => ~Creating(r, f))
    BY <1>2
  <2> QED BY <1>1, <1>2, <1>3, <1>4, <2>1, EvictHeads
<1>7. ASSUME NEW z \in Idx PROVE z = Ie(e) \/ h2[z] = h[z] \/ (Bound(E2, T2, e) /\ z = Ig(x.off))
  <2>1. CASE \E a \in Entry : z = Ie(a)
    <3>1. PICK a \in Entry : z = Ie(a)
      BY <2>1
    <3>2. CASE a = e
      BY <3>1, <3>2
    <3>3. CASE a # e
      BY <1>6, <3>1, <3>3
    <3> QED BY <3>2, <3>3
  <2>2. CASE \E q \in Procs : z = Ip(q)
    BY <1>6, <2>2
  <2>3. CASE \E g \in Nat : z = Ig(g)
    <3>1. PICK g \in Nat : z = Ig(g)
      BY <2>3
    <3> QED BY <1>6, <3>1
  <2> QED BY <2>1, <2>2, <2>3, IdxIs
<1>8. Reheaded(load, h, fat, E2, T2, Dir, e, x)
  BY <1>5, <1>6, <1>7 DEF Reheaded, Evicted
<1> QED BY <1>8
LEMMA OneUnlock ==
  ASSUME NEW r, r = <<eunlock(Root)>>
  PROVE  /\ IsSeq(r) /\ Len(r) = 1 /\ r # <<>> /\ r[1].op = "eunlock" /\ r[1].e = Root /\ NoHead(r)
         /\ (\A d : ~Creating(r, d)) /\ \A E, t, d : LocalOK(r, E, t, d)
<1>1. IsSeq(r) /\ Len(r) = 1 /\ r # <<>> /\ r[1].op = "eunlock" /\ r[1].e = Root
  BY Tup1 DEF eunlock
<1>2. NoHead(r) /\ \A d : ~Creating(r, d)
  BY <1>1 DEF NoHead, Creating, Has
<1>3. ASSUME NEW E, NEW t, NEW d PROVE LocalOK(r, E, t, d)
  BY <1>1 DEF LocalOK, Shaped, Is
<1> QED BY <1>1, <1>2, <1>3
LEMMA DroppedIs ==
  ASSUME NEW x, IsEntry(x), NEW y, Dropped(x, y)
  PROVE  IsEntry(y) /\ y.valid = 0 /\ y.first = x.first /\ y.size = x.size /\ y.off = x.off /\ y.ref = x.ref /\ y.lock = x.lock
<1>1. y = [name |-> x.name, dir |-> x.dir, first |-> x.first, size |-> x.size, cur |-> x.cur,
                 cnt |-> x.cnt, dirty |-> x.dirty, valid |-> 0, ref |-> x.ref, off |-> x.off, lock |-> x.lock]
  BY DEF Dropped, IsEntry, IsEnt
<1> QED BY <1>1 DEF IsEntry, IsEnt
\* dirlookup() finds nothing, and ealloc() has nothing to make
LEMMA DoNothing ==
  ASSUME FInv, NEW p \in Procs, NEW c, LookAt(p, c), NEW e, Evictee(e),
         NEW o \in Nat, NEW y, RelocPut(ent[Root], o, y), RootThenDrop(ent, ent', e, y), NEW r, r = <<eunlock(Root)>>, Push(p, r),
         UNCHANGED <<load, calls, fat, data, file>>
  PROVE  FInv'
<1>1. CtlOK(load, calls, ent, todo, file) /\ DiskOK(load, ent, todo, fat, data, Dir)
  BY DEF FInv, Ctl, Disk
<1>2. /\ todo[p] # <<>> /\ todo[p][1].op = "lookup" /\ NoHead(todo[p]) /\ EntDom(ent) /\ RootIdle(p)
      /\ \A q \in Procs, f \in File : ~Creating(todo[q], f)
  BY DEF LookAt
<1>3. e \in File /\ ent[e].ref = 0 /\ e \in Entry /\ IsEntry(ent[e])
  <2>1. e \in File /\ ent[e].ref = 0 /\ e \in Entry
    BY FileEntry DEF Evictee
  <2> QED BY <1>2, <2>1, EntIs
<1>4. /\ IsSeq(r) /\ Len(r) = 1 /\ r[1].op = "eunlock" /\ r[1].e = Root /\ NoHead(r)
      /\ (\A d : ~Creating(r, d)) /\ \A E, t, d : LocalOK(r, E, t, d)
  BY OneUnlock
<1>5. Becomes(todo, todo', p, r)
  BY <1>4, LookPush
<1>6. MovesCur(ent[Root], y, fat)
  BY RootReloc
<1> DEFINE x == [ent[e] EXCEPT !.valid = 0]
<1>7. Dropped(ent[e], x)
  BY DEF Dropped
<1> HIDE DEF x
<1>8. IsEntry(x) /\ x.valid = 0 /\ x.first = ent[e].first /\ x.size = ent[e].size /\ x.off = ent[e].off /\ x.ref = 0
      /\ x.lock = ent[e].lock
  BY <1>3, <1>7, DroppedIs
<1>9. TwoPuts(ent, ent', e, x, y)
  BY <1>2, <1>3, <1>7, RootDropIs
<1>10. Changed(ent, ent', e, x, y)
  BY <1>2, <1>3, <1>6, <1>8, <1>9, ChangedIs
<1>11. Looked(ent, ent', e) /\ ent'[e].ref = 0 /\ ent'[e] = x
  <2>1. /\ EntDom(ent') /\ ent'[e] = x /\ ent'[Root] = y /\ y.lock = ent[Root].lock
        /\ \A d \in File : d # e => ent'[d] = ent[d]
    BY <1>10 DEF Changed
  <2>2. ASSUME NEW d \in Entry PROVE ent'[d].lock = ent[d].lock
    <3>1. CASE d = e
      BY <1>8, <2>1, <3>1
    <3>2. CASE d = Root
      BY <2>1, <3>2
    <3>3. CASE d # e /\ d # Root
      BY <2>1, <3>3, FileEntry
    <3> QED BY <3>1, <3>2, <3>3
  <2> QED BY <1>3, <1>8, <2>1, <2>2 DEF Looked
<1>12. CtlOK(load, calls, ent', todo', file)
  BY <1>1, <1>2, <1>3, <1>4, <1>5, <1>11, CtlNothing
<1>13. NewEntry(x, fat)
  <2>1. Sizes(ent)
    BY <1>1, DiskParts
  <2>2. ~InMem(x)
    BY <1>8 DEF InMem
  <2> QED BY <1>3, <1>8, <2>1, <2>2 DEF Sizes, NewEntry
<1>14. \A q \in Procs, f \in File : ~Creating(todo'[q], f)
  BY <1>2, <1>4, <1>5 DEF Becomes
<1>15. ~Bound(ent', todo', e)
  <2>1. ent'[e].valid # 1
    BY <1>8, <1>11
  <2>2. ~Made(todo', e)
    BY <1>3, <1>14 DEF Made
  <2> QED BY <2>1, <2>2 DEF Bound
<1>16. PICK h : Reheaded(load, h, fat, ent', todo', Dir, e, x)
  <2>1. x.off \in Nat /\ \A f \in File : f # e => ~Creating(r, f)
    BY <1>4, <1>13 DEF NewEntry
  <2> QED BY <1>4, <1>5, <1>10, <1>15, <2>1, LookEvict
<1>17. FatOK(load, Heads(ent', todo', Dir), fat)
  <2> DEFINE h2 == Heads(ent', todo', Dir)
  <2>1. h2[Ie(e)] = 0
    <3>1. h2[Ie(e)] = EntryHead(ent', todo', e)
      BY <1>3, HeadsIs
    <3> QED BY <1>8, <1>11, <3>1 DEF EntryHead, InMem
  <2>2. FatOK(load, h, fat) /\ h[Ie(e)] = 0 /\ \A z \in Idx : z = Ie(e) \/ h2[z] = h[z]
    BY <1>15, <1>16 DEF Reheaded
  <2>3. Alikes(h, h2)
    BY <2>1, <2>2 DEF Alikes
  <2> HIDE DEF h2
  <2>4. FatOK(load, h2, fat)
    BY <2>2, <2>3, FatAlike
  <2> QED BY <2>4 DEF h2
<1>18. DirOK(ent', todo', Dir)
  <2>1. DirShape(Dir)
    BY <1>2, IdleRoot
  <2> QED BY <1>14, <2>1 DEF DirOK
<1>19. LocalOK(r, ent', fat, data) /\ ent[Root].lock = p /\ (x.valid = 1 => InStep(x, Dir)) /\ (Bound(ent', todo', e) => Placed(ent, x))
       /\ \A f \in File : ~Creating(todo[p], f) /\ (f # e => ~Creating(r, f))
  BY <1>2, <1>4, <1>8, <1>15 DEF RootIdle
<1>20. DiskOK(load, ent', todo', fat, data, Dir)
  BY <1>1, <1>2, <1>3, <1>4, <1>5, <1>6, <1>10, <1>13, <1>17, <1>18, <1>19, DiskLook
<1>21. Dir' = Dir
  BY DirSame
<1>22. CtlOK(load, calls', ent', todo', file') /\ DiskOK(load, ent', todo', fat', data', Dir')
  BY <1>12, <1>20, <1>21
<1> QED BY <1>22, NextInv

\* the entry that a lookup that found c in the slots makes
Filled(x, c, i, o) == x = Fill(c.name, i.dir, i.first, i.size, o)
LEMMA FilledIs ==
  ASSUME NEW c, NEW i, IsShort(i), NEW o \in Nat, NEW x, Filled(x, c, i, o)
  PROVE  /\ IsEntry(x) /\ x.valid = 1 /\ x.ref = 1 /\ x.name = c.name /\ x.dir = i.dir /\ x.first = i.first
         /\ x.size = i.size /\ x.off = o /\ x.cur = i.first /\ x.cnt = 0 /\ x.lock = NoProc /\ Clean(x)
<1>1. x = [name |-> c.name, dir |-> i.dir, first |-> i.first, size |-> i.size, cur |-> i.first, cnt |-> 0,
           dirty |-> FALSE, valid |-> 1, ref |-> 1, off |-> o, lock |-> NoProc]
  BY DEF Filled, Fill
<1>2. i.dir \in BOOLEAN
  BY DEF IsShort
<1> QED BY <1>1, <1>2 DEF IsEntry, IsEnt, Clean
NoHits(c) == \A f \in File : ~(ent[f].valid = 1 /\ ent[f].name = c.name)
\* dirlookup() finds the file on the disk
LEMMA DoFill ==
  ASSUME FInv, NEW p \in Procs, NEW c, LookAt(p, c), NEW f, FileFound(c, f), NoHits(c), NEW e, Evictee(e),
         NEW y, RelocPut(ent[Root], f.off, y), NEW x, Filled(x, c, f.info, f.off), RootThen(ent, ent', e, x, y),
         NEW r, IsAfter(r, c, e, f.info.dir), Push(p, r), UNCHANGED <<load, calls, fat, data, file>>
  PROVE  FInv'
<1>1. CtlOK(load, calls, ent, todo, file) /\ DiskOK(load, ent, todo, fat, data, Dir)
  BY DEF FInv, Ctl, Disk
<1>2. /\ todo[p] # <<>> /\ todo[p][1].op = "lookup" /\ NoHead(todo[p]) /\ EntDom(ent) /\ RootIdle(p)
      /\ (c.k = "remove" => c.name \in Removed(load))
      /\ \A q \in Procs, d \in File : ~Creating(todo[q], d)
  BY DEF LookAt
<1>3. e \in File /\ ent[e].ref = 0 /\ e \in Entry
  BY FileEntry DEF Evictee
<1> DEFINE o == f.off i == f.info
<1>4. o \in Groups(Dir) /\ o \in Nat /\ GName(Dir, o) = c.name /\ i = GInfo(Dir, o) /\ IsShort(i)
  <2>1. o \in Groups(Dir) /\ GName(Dir, o) = c.name /\ i = GInfo(Dir, o)
    BY DEF FileFound
  <2>2. NamesOK(load, Dir)
    BY <1>1, DiskParts
  <2> QED BY <2>1, <2>2 DEF NamesOK, Groups
<1>5. i.dir \in BOOLEAN /\ (i.first = 0 \/ Cl(i.first)) /\ i.size \in Nat /\ (i.size > 0 => i.first # 0)
  BY <1>4 DEF IsShort
<1>6. RelocPut(ent[Root], o, y) /\ Filled(x, c, i, o) /\ IsAfter(r, c, e, i.dir)
  OBVIOUS
<1> HIDE DEF o, i
<1>7. FollowsOK(r, c, e)
  BY <1>3, <1>5, <1>6, AfterOK
<1>8. /\ AfterForm(r, e) /\ IsSeq(r) /\ NoHead(r) /\ (\A d : ~Creating(r, d)) /\ LocalOK(r, ent', fat, data)
      /\ \A k \in 1..Len(r) : r[k].op = "remove" => c.k = "remove"
  BY <1>7 DEF FollowsOK, AfterIn
<1>9. Becomes(todo, todo', p, r)
  BY <1>8, LookPush
<1>10. MovesCur(ent[Root], y, fat)
  BY <1>4, <1>6, RootReloc
<1>11. /\ IsEntry(x) /\ x.valid = 1 /\ x.ref = 1 /\ x.name = c.name /\ x.dir = i.dir /\ x.first = i.first
       /\ x.size = i.size /\ x.off = o /\ x.cur = i.first /\ x.cnt = 0 /\ x.lock = NoProc /\ Clean(x)
  BY <1>4, <1>6, FilledIs
<1>12. TwoPuts(ent, ent', e, x, y)
  BY <1>2, <1>3, RootThenIs
<1>13. Changed(ent, ent', e, x, y)
  BY <1>2, <1>3, <1>10, <1>11, <1>12, ChangedIs
<1>14. ent[e].lock = NoProc /\ ~Cut(todo, e)
  BY <1>1, <1>3, UnusedHead
<1>15. Looked(ent, ent', e) /\ ent'[e] = x
  <2>1. /\ EntDom(ent') /\ ent'[e] = x /\ ent'[Root] = y /\ y.lock = ent[Root].lock
        /\ \A d \in File : d # e => ent'[d] = ent[d]
    BY <1>13 DEF Changed
  <2>2. ASSUME NEW d \in Entry PROVE ent'[d].lock = ent[d].lock
    <3>1. CASE d = e
      BY <1>11, <1>14, <2>1, <3>1
    <3>2. CASE d = Root
      BY <2>1, <3>2
    <3>3. CASE d # e /\ d # Root
      BY <2>1, <3>3, FileEntry
    <3> QED BY <3>1, <3>2, <3>3
  <2> QED BY <1>3, <2>1, <2>2 DEF Looked
<1>16. CtlOK(load, calls, ent', todo', file)
  <2>1. ent'[e].ref = ent[e].ref + 1 /\ ent'[e].valid = 1
    BY <1>3, <1>11, <1>15
  <2>2. \A k \in 1..Len(r) : r[k].op = "remove" => ent'[e].name \in Removed(load)
    BY <1>2, <1>8, <1>11, <1>15
  <2> QED BY <1>1, <1>2, <1>3, <1>8, <1>9, <1>15, <2>1, <2>2, CtlFound
<1>17. Placed(ent, x)
  <2>1. ASSUME NEW d \in File, ent[d].valid = 1, ent[d].off = x.off PROVE FALSE
    <3>1. CacheOK(ent, todo, Dir)
      BY <1>1, DiskParts
    <3>2. GName(Dir, ent[d].off) = ent[d].name
      BY <2>1, <3>1 DEF CacheOK, InStep
    <3>3. ent[d].name = c.name
      BY <1>4, <1>11, <2>1, <3>2
    <3> QED BY <2>1, <3>3 DEF NoHits
  <2> QED BY <2>1 DEF Placed
<1>18. Bound(ent', todo', e) /\ InMem(x)
  BY <1>11, <1>15 DEF Bound, InMem
<1>19. PICK h : Reheaded(load, h, fat, ent', todo', Dir, e, x)
  <2>1. x.off \in Nat /\ (\A d \in File : d # e => ~Creating(r, d)) /\ (Bound(ent', todo', e) => Placed(ent, x))
    BY <1>4, <1>8, <1>11, <1>17
  <2> QED BY <1>8, <1>9, <1>13, <2>1, LookEvict
<1> DEFINE h2 == Heads(ent', todo', Dir)
<1>20. /\ FatOK(load, h, fat) /\ h[Ie(e)] = 0 /\ h2[Ig(o)] = 0 /\ h[Ig(o)] = i.first
       /\ (\A z \in Idx : z = Ie(e) \/ h2[z] = h[z] \/ z = Ig(o)) /\ ~Cut(todo', e)
  BY <1>3, <1>4, <1>11, <1>14, <1>18, <1>19 DEF Reheaded
<1>21. h2[Ie(e)] = h[Ig(o)]
  <2>1. h2[Ie(e)] = EntryHead(ent', todo', e)
    BY <1>3, HeadsIs
  <2> QED BY <1>11, <1>15, <1>18, <1>20, <2>1 DEF EntryHead
<1>22. FatOK(load, h2, fat)
  <2> DEFINE a == Ig(o) b == Ie(e)
  <2>1. a \in Idx /\ b \in Idx /\ a # b
    BY <1>3, <1>4, IdxIs, IdxApart
  <2>2. Moves(h, h2, a, b) /\ ~Cl(h[b]) /\ h2[b] = h[a] /\ h2[a] \in {0, EOC}
    BY <1>20, <1>21, ClNot DEF Moves
  <2> HIDE DEF a, b, h2
  <2> QED BY <1>20, <2>1, <2>2, FatMove
<1>23. NewEntry(x, fat)
  <2>1. ASSUME Cl(x.first) PROVE At1(fat, x.first, x.cur, x.cnt)
    <3>1. Ig(o) \in Idx /\ HeadsOK(h, fat)
      BY <1>4, <1>20, IdxIs DEF FatOK
    <3>2. IsHead(fat, x.first)
      BY <1>11, <1>20, <2>1, <3>1 DEF HeadsOK
    <3>3. x.cur = To(fat, x.first, 0) /\ Live(fat, x.cur)
      BY <1>11, <3>2, ToIs DEF IsHead
    <3> QED BY <1>11, <3>3 DEF At1
  <2> QED BY <1>4, <1>5, <1>11, <2>1 DEF NewEntry
<1>24. InStep(x, Dir)
  BY <1>4, <1>11 DEF InStep
<1>25. DirOK(ent', todo', Dir)
  <2>1. DirShape(Dir)
    BY <1>2, IdleRoot
  <2>2. \A q \in Procs, d \in File : ~Creating(todo'[q], d)
    BY <1>2, <1>8, <1>9 DEF Becomes
  <2> QED BY <2>1, <2>2 DEF DirOK
<1>26. DiskOK(load, ent', todo', fat, data, Dir)
  <2>1. FatOK(load, Heads(ent', todo', Dir), fat)
    BY <1>22
  <2>2. ent[Root].lock = p /\ (x.valid = 1 => InStep(x, Dir)) /\ (Bound(ent', todo', e) => Placed(ent, x))
       /\ \A d \in File : ~Creating(todo[p], d) /\ (d # e => ~Creating(r, d))
    BY <1>2, <1>8, <1>17, <1>24 DEF RootIdle
  <2> HIDE DEF h2
  <2> QED BY <1>1, <1>2, <1>3, <1>8, <1>9, <1>10, <1>13, <1>23, <1>25, <2>1, <2>2, DiskLook
<1>27. Dir' = Dir
  BY DirSame
<1>28. CtlOK(load, calls', ent', todo', file') /\ DiskOK(load, ent', todo', fat', data', Dir')
  BY <1>16, <1>26, <1>27
<1> QED BY <1>28, NextInv

\* two sequences one after the other
Joins(r, a, b) == r = a \o b
IsJoined(r, a, b) ==
  /\ IsSeq(r) /\ Len(r) = Len(a) + Len(b) /\ (\A k \in 1..Len(a) : r[k] = a[k])
  /\ \A k \in 1..Len(b) : r[Len(a) + k] = b[k]
LEMMA JoinedIs ==
  ASSUME NEW a, NEW b, IsSeq(a), IsSeq(b), NEW r, Joins(r, a, b)
  PROVE  IsJoined(r, a, b)
<1>1. /\ IsSeq(a \o b) /\ Len(a \o b) = Len(a) + Len(b)
      /\ \A k \in 1..Len(a) : (a \o b)[k] = a[k]
      /\ \A k \in 1..Len(b) : (a \o b)[Len(a) + k] = b[k]
  BY CatIs
<1>2. r = a \o b
  BY DEF Joins
<1> QED BY <1>1, <1>2 DEF IsJoined
\* the steps of ealloc() and emake() for a new entry
ValidAt(e) == [op |-> "valid", e |-> e]
NewDir(e) == <<alloc_clus(e, "dir"), [op |-> "emake", e |-> e, x |-> e, off |-> 0],
                 [op |-> "emake", e |-> e, x |-> Root, off |-> 1]>>
NewInRoot(e, o) == <<[op |-> "emake", e |-> Root, x |-> e, off |-> o], ValidAt(e)>>
MadeSteps(a, c, e, o) == a = (IF c.k = "mkdir" THEN NewDir(e) ELSE <<>>) \o NewInRoot(e, o)
FirstStep(a, e) ==
  \/ a[1] = alloc_clus(e, "dir")
  \/ a[1].op = "emake" /\ a[1].e = Root
MadeStepsOK(a, e, x) == MakeForm(a, e, x) /\ IsSeq(a) /\ Len(a) \in Nat \ {0} /\ FirstStep(a, e)
LEMMA NewInRootIs ==
  ASSUME NEW e, NEW o, NEW m, m = NewInRoot(e, o), NEW x, x.off = o
  PROVE  IsSeq(m) /\ Len(m) = 2 /\ EmakeRoot(m[1], e, x) /\ ValidStep(m[2], e) /\ m[1].op = "emake" /\ m[1].e = Root
BY Tup2 DEF NewInRoot, EmakeRoot, ValidStep, ValidAt
LEMMA NewDirIs ==
  ASSUME NEW e, NEW m, m = NewDir(e)
  PROVE  IsSeq(m) /\ Len(m) = 3 /\ FirstMakes(m, e) /\ m[1] = alloc_clus(e, "dir")
BY Tup3 DEF NewDir, FirstMakes, alloc_clus
LEMMA MadeStepsIs ==
  ASSUME NEW e, NEW c, NEW o, NEW a, MadeSteps(a, c, e, o), NEW x, x.off = o
  PROVE  MadeStepsOK(a, e, x)
<1> DEFINE m == NewInRoot(e, o)
<1>1. IsSeq(m) /\ Len(m) = 2 /\ EmakeRoot(m[1], e, x) /\ ValidStep(m[2], e) /\ m[1].op = "emake" /\ m[1].e = Root
  BY NewInRootIs
<1>2. CASE c.k = "mkdir"
  <2> DEFINE n == NewDir(e)
  <2>1. IsSeq(n) /\ Len(n) = 3 /\ FirstMakes(n, e) /\ n[1] = alloc_clus(e, "dir")
    BY NewDirIs
  <2>2. Joins(a, n, m)
    BY <1>2 DEF MadeSteps, Joins
  <2> HIDE DEF m, n
  <2>3. /\ IsSeq(a) /\ Len(a) = Len(n) + Len(m) /\ (\A k \in 1..Len(n) : a[k] = n[k])
        /\ \A k \in 1..Len(m) : a[Len(n) + k] = m[k]
    <3>1. IsJoined(a, n, m)
      BY <1>1, <2>1, <2>2, JoinedIs
    <3> QED BY <3>1 DEF IsJoined
  <2>4. Len(a) = 5 /\ a[1] = n[1] /\ a[2] = n[2] /\ a[3] = n[3]
    BY <1>1, <2>1, <2>3
  <2>5. a[4] = m[1] /\ a[5] = m[2]
    <3>1. a[3 + 1] = m[1] /\ a[3 + 2] = m[2]
      BY <1>1, <2>1, <2>3
    <3> QED BY <3>1
  <2> QED BY <1>1, <2>1, <2>3, <2>4, <2>5 DEF MadeStepsOK, MakeForm, FirstMakes, FirstStep
<1>3. CASE c.k # "mkdir"
  <2>2. a = <<>> \o m
    BY <1>3 DEF MadeSteps
  <2>1. IsSeq(<<>>) /\ Len(<<>>) = 0
    BY Tup0
  <2> DEFINE n == <<>>
  <2> HIDE DEF m
  <2>3. /\ IsSeq(a) /\ Len(a) = 0 + Len(m) /\ \A k \in 1..Len(m) : a[0 + k] = m[k]
    BY <1>1, <2>1, <2>2, CatIs
  <2>4. Len(a) = 2 /\ a[1] = m[1] /\ a[2] = m[2]
    BY <1>1, <2>3
  <2> QED BY <1>1, <2>3, <2>4 DEF MadeStepsOK, MakeForm, FirstStep
<1> QED BY <1>2, <1>3
\* what follows them
ThenValid(v, e, s) == v = <<ValidAt(e)>> \o s
ValidFirst(v, e, s) ==
  IsSeq(v) /\ Len(v) = Len(s) + 1 /\ v[1].op = "valid" /\ v[1].e = e /\ \A k \in 1..Len(s) : v[k + 1] = s[k]
LEMMA ThenValidIs ==
  ASSUME NEW e, NEW s, IsSeq(s), NEW v, ThenValid(v, e, s)
  PROVE  ValidFirst(v, e, s)
<1> DEFINE u == <<ValidAt(e)>>
<1>1. IsSeq(u) /\ Len(u) = 1 /\ u[1].op = "valid" /\ u[1].e = e
  BY Tup1 DEF ValidAt
<1>2. Joins(v, u, s)
  BY DEF ThenValid, Joins
<1> HIDE DEF u
<1>3. IsSeq(v) /\ Len(v) = 1 + Len(s) /\ v[1] = u[1] /\ \A k \in 1..Len(s) : v[1 + k] = s[k]
  <2>1. IsJoined(v, u, s)
    BY <1>1, <1>2, JoinedIs
  <2> QED BY <1>1, <2>1 DEF IsJoined
<1>4. Len(s) \in Nat
  BY DEF IsSeq
<1>5. ASSUME NEW k \in 1..Len(s) PROVE v[k + 1] = s[k]
  <2>1. 1 + k = k + 1
    BY <1>4, <1>5
  <2> QED BY <1>3, <2>1
<1> QED BY <1>1, <1>3, <1>4, <1>5 DEF ValidFirst
MadeCall(c, dir) == NamedCall(c) /\ Creates(c) /\ dir \in BOOLEAN /\ (dir <=> c.k = "mkdir")
LEMMA MadeValid ==
  ASSUME NEW c, NEW dir, MadeCall(c, dir), NEW e \in File, NEW s, IsAfter(s, c, e, dir), NEW v, ThenValid(v, e, s)
  PROVE  ValidForm(v, e) /\ IsSeq(s)
<1>1. s = After(c, e, dir) /\ NamedCall(c) /\ dir \in BOOLEAN /\ Creates(c) /\ (dir <=> c.k = "mkdir")
  BY DEF IsAfter, MadeCall
<1>2. AfterIn(s, c, e) /\ ((Len(s) = 3 /\ s[2].op = "elock" /\ s[3].op = "opened") \/ Len(s) = 4)
  BY <1>1, AfterIs
<1> HIDE DEF IsAfter
<1>3. AfterForm(s, e) /\ IsSeq(s)
  BY <1>2 DEF AfterIn, AfterForm
<1>4. IsSeq(v) /\ Len(v) = Len(s) + 1 /\ v[1].op = "valid" /\ v[1].e = e /\ \A k \in 1..Len(s) : v[k + 1] = s[k]
  <2>1. ValidFirst(v, e, s)
    BY <1>3, ThenValidIs
  <2> QED BY <2>1 DEF ValidFirst
<1>5. CASE Len(s) = 3
  <2>1. s[1].op = "eunlock" /\ s[1].e = Root /\ s[2].op = "elock" /\ s[2].e = e /\ s[3].op = "opened" /\ s[3].e = e
    BY <1>2, <1>3, <1>5 DEF AfterForm
  <2>2. Len(v) = 4 /\ v[2] = s[1] /\ v[3] = s[2] /\ v[4] = s[3]
    BY <1>4, <1>5
  <2> QED BY <1>3, <1>4, <2>1, <2>2 DEF ValidForm
<1>6. CASE Len(s) = 4
  <2>1. /\ s[1].op = "eunlock" /\ s[1].e = Root /\ s[2].op = "elock" /\ s[2].e = e /\ s[3].op = "eunlock" /\ s[3].e = e
        /\ s[4].op = "eput" /\ s[4].e = e
    BY <1>3, <1>6 DEF AfterForm
  <2>2. Len(v) = 5 /\ v[2] = s[1] /\ v[3] = s[2] /\ v[4] = s[3] /\ v[5] = s[4]
    BY <1>4, <1>6
  <2> QED BY <1>3, <1>4, <2>1, <2>2 DEF ValidForm
<1> QED BY <1>2, <1>3, <1>5, <1>6
LEMMA MadePuts ==
  ASSUME NEW e, NEW s, IsSeq(s), NEW v, ThenValid(v, e, s), NEW a, IsSeq(a), Len(a) \in Nat, NEW r, r = a \o s
  PROVE  Puts(r, a, v) /\ IsSeq(r) /\ (Len(a) # 0 => r[1] = a[1])
<1>1. IsSeq(v) /\ Len(v) = Len(s) + 1 /\ \A k \in 1..Len(s) : v[k + 1] = s[k]
  <2>1. ValidFirst(v, e, s)
    BY ThenValidIs
  <2> QED BY <2>1 DEF ValidFirst
<1>2. /\ IsSeq(r) /\ Len(r) = Len(a) + Len(s) /\ (\A k \in 1..Len(a) : r[k] = a[k])
      /\ \A k \in 1..Len(s) : r[Len(a) + k] = s[k]
  BY CatIs
<1>3. Len(s) \in Nat
  BY DEF IsSeq
<1>4. ASSUME NEW k \in 2..Len(v) PROVE r[Len(a) + k - 1] = v[k]
  <2>1. k - 1 \in 1..Len(s)
    BY <1>1, <1>3, <1>4
  <2>2. r[Len(a) + (k - 1)] = s[k - 1] /\ v[(k - 1) + 1] = s[k - 1]
    BY <1>1, <1>2, <2>1
  <2>3. Len(a) + (k - 1) = Len(a) + k - 1 /\ (k - 1) + 1 = k
    BY <1>1, <1>3, <1>4
  <2> QED BY <2>2, <2>3
<1>5. Len(r) = Len(a) + Len(v) - 1
  BY <1>1, <1>2, <1>3
<1>6. Len(a) # 0 => r[1] = a[1]
  BY <1>2
<1> QED BY <1>2, <1>4, <1>5, <1>6 DEF Puts

\* the entry that ealloc() makes for a file that is not there
MadeNew(x, c, dir, o, p) == x = [Fill(c.name, dir, 0, 0, o) EXCEPT !.valid = 0, !.lock = p]
LEMMA MadeNewIs ==
  ASSUME NEW c, NEW dir \in BOOLEAN, NEW o, NEW p \in Procs, NEW x, MadeNew(x, c, dir, o, p)
  PROVE  /\ IsEntry(x) /\ x.valid = 0 /\ x.ref = 1 /\ x.name = c.name /\ x.dir = dir /\ x.first = 0
         /\ x.size = 0 /\ x.off = o /\ x.lock = p /\ Clean(x)
<1>1. x = [name |-> c.name, dir |-> dir, first |-> 0, size |-> 0, cur |-> 0, cnt |-> 0,
           dirty |-> FALSE, valid |-> 0, ref |-> 1, off |-> o, lock |-> p]
  BY DEF MadeNew, Fill
<1> QED BY <1>1 DEF IsEntry, IsEnt, Clean
\* the slots that are to be written for the new entry begin behind all files
LEMMA NewSlots ==
  ASSUME NEW l, NEW D, NamesOK(l, D), NEW W \in Nat, Regular(D, W), Free(D, W),
         NEW x, x.off = W, x.name \in Names, \A g \in Groups(D) : GName(D, g) # x.name,
         NEW r, NEW e \in File, FirstStep(r, e)
  PROVE  MadeSoFar(D, x, r) /\ W \notin Groups(D)
<1>1. WrittenTo(r, x) = W
  <2>1. e # Root
    BY FileEntry
  <2>2. r[1].op \in {"alloc", "emake"} /\ (r[1].op = "alloc" => r[1].e # Root)
    BY <2>1 DEF FirstStep, alloc_clus
  <2>3. ~OnEntry(r, {"store"}, Root) /\ ~OnEntry(r, {"alloc", "link"}, Root) /\ r[1].op # "valid"
    BY <2>2 DEF OnEntry
  <2> QED BY <2>3 DEF WrittenTo
<1>2. Partly(D, W, W, x.name, Short(<<>>, x))
  <2>1. IsName(x.name)
    BY NameIs
  <2> QED BY <2>1, PartStart
<1>3. \A g \in Groups(D) : g \in Nat /\ GEnd(D, g) \in Nat /\ GEnd(D, g) > g /\ GEnd(D, g) < W
  BY GroupBefore, GroupIs DEF Groups
<1>4. W >= 2
  <2>1. PICK g \in Groups(D) : TRUE
    BY DEF NamesOK
  <2> QED BY <1>3, <2>1
<1>5. W \notin Groups(D)
  BY <1>3
<1> QED BY <1>1, <1>2, <1>4, <1>5 DEF MadeSoFar
LEMMA FirstLocal ==
  ASSUME NEW a, NEW e \in File, FirstStep(a, e), NEW E, E[e].first = 0, Cl(E[Root].first), NEW t, NEW d
  PROVE  NoHead(a) /\ LocalOK(a, E, t, d)
<1>1. CASE a[1] = alloc_clus(e, "dir")
  <2>1. a[1].op = "alloc" /\ a[1].e = e /\ a[1].how = "dir" /\ a[1] = [op |-> "alloc", e |-> a[1].e, sec |-> a[1].sec, how |-> a[1].how]
    BY <1>1 DEF alloc_clus
  <2>2. Shaped(a[1]) /\ GrowOK(a[1], E, t)
    BY <2>1 DEF Shaped, GrowOK
  <2> QED BY <2>1, <2>2 DEF LocalOK, NoHead
<1>2. CASE a[1].op = "emake" /\ a[1].e = Root
  <2>1. Shaped(a[1])
    BY <1>2 DEF Shaped
  <2> QED BY <1>2, <2>1 DEF LocalOK, NoHead
<1> QED BY <1>1, <1>2 DEF FirstStep
LEMMA AtEntry ==
  ASSUME NEW E, NEW e, NEW x, E[e] = x, NEW a, NEW p, Fresh(x), MakeForm(a, e, x), x.lock = p
  PROVE  MakeForm(a, e, E[e]) /\ E[e].lock = p /\ Fresh(E[e])
OBVIOUS
\* dirlookup() finds nothing, and ealloc() begins to make the file
LEMMA DoMake ==
  ASSUME FInv, NEW p \in Procs, NEW c, LookAt(p, c), NEW f, NoFile(c, f), NEW e, Evictee(e),
         NEW dir, MadeCall(c, dir), NEW y, RelocPut(ent[Root], f.off, y), NEW x, MadeNew(x, c, dir, f.off, p),
         RootThen(ent, ent', e, x, y), NEW a, MadeSteps(a, c, e, f.off), NEW s, IsAfter(s, c, e, dir),
         NEW r, r = a \o s, Push(p, r), UNCHANGED <<load, calls, fat, data, file>>
  PROVE  FInv'
<1>1. CtlOK(load, calls, ent, todo, file) /\ DiskOK(load, ent, todo, fat, data, Dir)
  BY DEF FInv, Ctl, Disk
<1>2. /\ todo[p] # <<>> /\ todo[p][1].op = "lookup" /\ NoHead(todo[p]) /\ EntDom(ent) /\ RootIdle(p)
      /\ c.name \in Names
      /\ \A q \in Procs, d \in File : ~Creating(todo[q], d)
  BY DEF LookAt
<1>3. e \in File /\ ent[e].ref = 0 /\ e \in Entry
  BY FileEntry DEF Evictee
<1> DEFINE o == f.off
<1>4. o \in Nat /\ Regular(Dir, o) /\ Free(Dir, o) /\ \A g \in Groups(Dir) : GName(Dir, g) # c.name
  BY DEF NoFile
<1>5. RelocPut(ent[Root], o, y) /\ MadeNew(x, c, dir, o, p) /\ MadeSteps(a, c, e, o) /\ dir \in BOOLEAN
  BY DEF MadeCall
<1> HIDE DEF o
<1>6. /\ IsEntry(x) /\ x.valid = 0 /\ x.ref = 1 /\ x.name = c.name /\ x.dir = dir /\ x.first = 0
      /\ x.size = 0 /\ x.off = o /\ x.lock = p /\ Clean(x)
  BY <1>5, MadeNewIs
<1>7. MadeStepsOK(a, e, x)
  BY <1>5, <1>6, MadeStepsIs
<1> DEFINE v == <<ValidAt(e)>> \o s
<1>8. ThenValid(v, e, s)
  BY DEF ThenValid
<1> HIDE DEF v
<1>9. ValidForm(v, e) /\ IsSeq(s)
  BY <1>3, <1>8, MadeValid
<1>10. MakeForm(a, e, x) /\ IsSeq(a) /\ Len(a) \in Nat \ {0} /\ FirstStep(a, e)
  BY <1>7 DEF MadeStepsOK
<1>11. Puts(r, a, v) /\ IsSeq(r) /\ r[1] = a[1]
  <2>1. Len(a) \in Nat /\ Len(a) # 0
    BY <1>10
  <2> QED BY <1>8, <1>9, <1>10, <2>1, MadePuts
<1>12. FirstStep(r, e)
  BY <1>10, <1>11 DEF FirstStep
<1>13. Becomes(todo, todo', p, r)
  BY ONLY FInv, p \in Procs, LookAt(p, c), Push(p, r), <1>11, LookPush
<1>14. MakerOK(r, e, x)
  BY <1>9, <1>10, <1>11, MakeFit
<1>15. Creating(r, e) /\ \A d \in File : d # e => ~Creating(r, d)
  BY <1>14 DEF MakerOK
<1>16. MovesCur(ent[Root], y, fat)
  BY <1>4, <1>5, RootReloc
<1>17. TwoPuts(ent, ent', e, x, y)
  BY <1>2, <1>3, RootThenIs
<1>18. Changed(ent, ent', e, x, y)
  BY <1>2, <1>3, <1>6, <1>16, <1>17, ChangedIs
<1>19. /\ EntDom(ent') /\ ent'[e] = x /\ ent'[Root] = y /\ y.lock = ent[Root].lock /\ Alike(ent[Root], y)
       /\ \A d \in File : d # e => ent'[d] = ent[d]
  BY <1>18 DEF Changed
<1>20. \A d \in Entry : d # e => ent'[d].lock = ent[d].lock /\ (d # Root => ent'[d] = ent[d])
  BY <1>19, FileEntry
<1>21. CtlOK(load, calls, ent', todo', file)
  <2>1. MakeForm(a, e, ent'[e]) /\ ent'[e].lock = p /\ Fresh(ent'[e])
    <3>1. Fresh(x)
      BY <1>2, <1>6 DEF Fresh
    <3>2. MakeForm(a, e, x) /\ x.lock = p /\ ent'[e] = x
      BY <1>6, <1>10, <1>19
    <3> QED BY ONLY <3>1, <3>2
  <2>2. EntDom(ent') /\ ent[e].ref = 0
    BY <1>3, <1>19
  <2>3. CtlOK(load, calls, ent, todo, file) /\ todo[p] # <<>> /\ todo[p][1].op = "lookup"
    BY <1>1, <1>2
  <2>4. ValidForm(v, e) /\ Puts(r, a, v)
    BY <1>9, <1>11
  <2> QED BY ONLY <1>13, <1>20, <2>1, <2>2, <2>3, <2>4, p \in Procs, CtlMake
<1>22. MadeSoFar(Dir, x, r) /\ o \notin Groups(Dir)
  <2>1. NamesOK(load, Dir)
    BY <1>1, DiskParts
  <2>2. x.name \in Names /\ \A g \in Groups(Dir) : GName(Dir, g) # x.name
    BY <1>2, <1>4, <1>6
  <2> QED BY ONLY <1>3, <1>4, <1>6, <1>12, <2>1, <2>2, NewSlots
<1>23. Placed(ent, x)
  <2>1. ASSUME NEW d \in File, ent[d].valid = 1, ent[d].off = x.off PROVE FALSE
    <3>1. CacheOK(ent, todo, Dir)
      BY <1>1, DiskParts
    <3>2. ent[d].off \in Groups(Dir)
      BY <2>1, <3>1 DEF CacheOK, InStep
    <3> QED BY <1>6, <1>22, <2>1, <3>2
  <2> QED BY <2>1 DEF Placed
<1>24. ent[Root].first = 2 /\ Cl(ent'[Root].first) /\ NoHead(r) /\ LocalOK(r, ent', fat, data)
  <2>1. ent[Root].first = 2
    BY <1>2, IdleRoot
  <2>2. Cl(ent'[Root].first) /\ ent'[e].first = 0
    BY <1>6, <1>19, <2>1, Bounds DEF Alike, Cl
  <2> QED BY ONLY <1>3, <1>12, <2>1, <2>2, FirstLocal
<1>25. PICK h : Reheaded(load, h, fat, ent', todo', Dir, e, x)
  <2>1. x.off \in Nat /\ (Bound(ent', todo', e) => Placed(ent, x))
    BY <1>4, <1>6, <1>23
  <2> QED BY ONLY FInv, p \in Procs, LookAt(p, c), Evictee(e), <1>13, <1>15, <1>18, <1>24, <2>1, LookEvict
<1>26. FatOK(load, Heads(ent', todo', Dir), fat)
  <2> DEFINE h2 == Heads(ent', todo', Dir)
  <2>1. h2[Ie(e)] = 0
    <3>1. h2[Ie(e)] = EntryHead(ent', todo', e)
      BY <1>3, HeadsIs
    <3> QED BY <1>6, <1>19, <3>1 DEF EntryHead
  <2>2. Bound(ent', todo', e)
    BY <1>13, <1>15 DEF Bound, Made, Becomes
  <2>3. /\ FatOK(load, h, fat) /\ h[Ie(e)] = 0 /\ h2[Ig(o)] = 0 /\ h[Ig(o)] = 0
        /\ \A z \in Idx : z = Ie(e) \/ h2[z] = h[z] \/ z = Ig(o)
    BY <1>6, <1>22, <1>25, <2>2 DEF Reheaded
  <2>4. Alikes(h, h2)
    BY <2>1, <2>3 DEF Alikes
  <2> HIDE DEF h2
  <2>5. FatOK(load, h2, fat)
    BY <2>3, <2>4, FatAlike
  <2> QED BY <2>5 DEF h2
<1>27. DirOK(ent', todo', Dir)
  <2>1. todo'[p] = r /\ \A q \in Procs, d \in File : Creating(todo'[q], d) => q = p /\ d = e
    BY <1>2, <1>13, <1>15 DEF Becomes
  <2>2. Creating(todo'[p], e)
    BY <1>15, <2>1
  <2>3. ASSUME NEW q \in Procs, NEW d \in File, Creating(todo'[q], d) PROVE MadeSoFar(Dir, ent'[d], todo'[q])
    <3>1. q = p /\ d = e
      BY <2>1, <2>3
    <3> QED BY <1>19, <1>22, <2>1, <3>1
  <2> QED BY <1>3, <2>2, <2>3 DEF DirOK
<1>28. NewEntry(x, fat)
  BY <1>4, <1>6, ClNot DEF NewEntry
<1>29. ent[Root].lock = p /\ (x.valid = 1 => InStep(x, Dir)) /\ (Bound(ent', todo', e) => Placed(ent, x))
       /\ \A d \in File : ~Creating(todo[p], d) /\ (d # e => ~Creating(r, d))
  BY <1>2, <1>6, <1>15, <1>23 DEF RootIdle
<1>30. DiskOK(load, ent', todo', fat, data, Dir)
  BY ONLY p \in Procs, <1>1, <1>2, <1>3, <1>13, <1>16, <1>18, <1>24, <1>26, <1>27, <1>28, <1>29, DiskLook
<1>31. Dir' = Dir
  BY DirSame
<1>32. CtlOK(load, calls', ent', todo', file') /\ DiskOK(load, ent', todo', fat', data', Dir')
  BY <1>21, <1>30, <1>31
<1> QED BY <1>32, NextInv

\* the four cases of dirlookup() and ealloc()
Rest == UNCHANGED <<load, calls, fat, data, file>>
Hits(c) == {e \in Entry \ {Root} : ent[e].valid = 1 /\ ent[e].name = c.name}
HitsOf(p) == Hits(Now(p).c)
FoundOf(p) == dirlookup(ent[Root].first, Now(p).c.name)
RootOf(p) == reloc_clus(ent[Root], FoundOf(p).off)
LookHit(p) == \E e \in HitsOf(p) : ent' = [ent EXCEPT ![e].ref = @ + 1] /\ Push(p, After(Now(p).c, e, ent[e].dir))
LookFill(p) ==
  \E e \in Victim :
    /\ ent' = [ent EXCEPT ![Root] = RootOf(p),
                ![e] = Fill(Now(p).c.name, FoundOf(p).info.dir, FoundOf(p).info.first, FoundOf(p).info.size, FoundOf(p).off)]
    /\ Push(p, After(Now(p).c, e, FoundOf(p).info.dir))
LookNone(p) ==
  \E e \in Victim : /\ ent' = [ent EXCEPT ![Root] = RootOf(p), ![e].valid = 0]
                    /\ Push(p, <<eunlock(Root)>>)
LookMake(p) ==
  \E e \in Victim :
    /\ ent' = [ent EXCEPT ![Root] = RootOf(p),
                ![e] = [Fill(Now(p).c.name, Now(p).c.k = "mkdir", 0, 0, FoundOf(p).off) EXCEPT
                          !.valid = 0, !.lock = p]]
    /\ Push(p, (IF Now(p).c.k = "mkdir"
                THEN <<alloc_clus(e, "dir"),
                       [op |-> "emake", e |-> e, x |-> e, off |-> 0],
                       [op |-> "emake", e |-> e, x |-> Root, off |-> 1]>>
                ELSE <<>>) \o
               <<[op |-> "emake", e |-> Root, x |-> e, off |-> FoundOf(p).off],
                 [op |-> "valid", e |-> e]>> \o After(Now(p).c, e, Now(p).c.k = "mkdir"))
LookCases(p) ==
  CASE HitsOf(p) # {} -> LookHit(p)
    [] HitsOf(p) = {} /\ FoundOf(p).found -> LookFill(p)
    [] HitsOf(p) = {} /\ ~FoundOf(p).found /\ ~Creates(Now(p).c) -> LookNone(p)
    [] HitsOf(p) = {} /\ ~FoundOf(p).found /\ Creates(Now(p).c) -> LookMake(p)
LEMMA LookupCases ==
  ASSUME NEW p, Lookup(p)
  PROVE  /\ Rest /\ At(p, "lookup")
         /\ LookCases(p)
BY Zenon DEF Lookup, LookCases, Rest, Hits, HitsOf, FoundOf, RootOf, LookHit, LookFill, LookNone, LookMake
\* the call and the slots, named
LookNow(p, c, f, y) == c = Now(p).c /\ f = FoundOf(p) /\ y = RootOf(p)
LEMMA LookNowIs ==
  ASSUME NEW p, NEW c, NEW f, NEW y, LookNow(p, c, f, y)
  PROVE  Finds(c, f) /\ RelocPut(ent[Root], f.off, y)
BY DEF LookNow, Finds, RelocPut, FoundOf, RootOf
LEMMA CaseHit ==
  ASSUME FInv, NEW p \in Procs, NEW c, LookAt(p, c), NEW f, NEW y, LookNow(p, c, f, y), LookHit(p), Rest
  PROVE  FInv'
<1>1. PICK e \in Hits(c) : ent' = [ent EXCEPT ![e].ref = @ + 1] /\ Push(p, After(c, e, ent[e].dir))
  BY DEF LookHit, HitsOf, LookNow
<1>2. e \in File /\ ent[e].valid = 1 /\ ent[e].name = c.name
  BY DEF Hits, File
<1>3. RefMore(ent, ent', e)
  BY <1>1 DEF RefMore
<1> DEFINE a == After(c, e, ent[e].dir)
<1>4. IsAfter(a, c, e, ent[e].dir) /\ Push(p, a)
  BY <1>1 DEF IsAfter
<1>5. UNCHANGED <<load, calls, fat, data, file>>
  BY DEF Rest
<1> HIDE DEF a
<1> QED BY ONLY FInv, p \in Procs, LookAt(p, c), <1>2, <1>3, <1>4, <1>5, DoHit
LEMMA CaseFill ==
  ASSUME FInv, NEW p \in Procs, NEW c, LookAt(p, c), NEW f, NEW y, LookNow(p, c, f, y), LookFill(p), Rest,
         NoHits(c), FileFound(c, f)
  PROVE  FInv'
<1>1. PICK e \in Victim :
        /\ ent' = [ent EXCEPT ![Root] = y, ![e] = Fill(c.name, f.info.dir, f.info.first, f.info.size, f.off)]
        /\ Push(p, After(c, e, f.info.dir))
  BY DEF LookFill, LookNow
<1>2. Evictee(e)
  BY VictimIs DEF Evictee
<1> DEFINE x == Fill(c.name, f.info.dir, f.info.first, f.info.size, f.off)
<1>3. Filled(x, c, f.info, f.off) /\ RootThen(ent, ent', e, x, y)
  BY <1>1 DEF Filled, RootThen
<1> DEFINE r == After(c, e, f.info.dir)
<1>4. IsAfter(r, c, e, f.info.dir) /\ Push(p, r)
  BY <1>1 DEF IsAfter
<1>5. UNCHANGED <<load, calls, fat, data, file>>
  BY DEF Rest
<1>6. RelocPut(ent[Root], f.off, y)
  BY LookNowIs
<1> HIDE DEF r, x
<1> QED BY ONLY FInv, p \in Procs, LookAt(p, c), NoHits(c), FileFound(c, f), <1>2, <1>3, <1>4, <1>5, <1>6, DoFill
LEMMA CaseNone ==
  ASSUME FInv, NEW p \in Procs, NEW c, LookAt(p, c), NEW f, NEW y, LookNow(p, c, f, y), LookNone(p), Rest, NoFile(c, f)
  PROVE  FInv'
<1>1. PICK e \in Victim : ent' = [ent EXCEPT ![Root] = y, ![e].valid = 0] /\ Push(p, <<eunlock(Root)>>)
  BY DEF LookNone, LookNow
<1>2. Evictee(e)
  BY VictimIs DEF Evictee
<1>3. RootThenDrop(ent, ent', e, y)
  BY <1>1 DEF RootThenDrop
<1>4. UNCHANGED <<load, calls, fat, data, file>>
  BY DEF Rest
<1> DEFINE o == f.off
<1>5. RelocPut(ent[Root], o, y) /\ o \in Nat
  BY LookNowIs DEF NoFile
<1> DEFINE r == <<eunlock(Root)>>
<1>6. r = <<eunlock(Root)>> /\ Push(p, r)
  BY <1>1
<1> HIDE DEF o
<1> QED BY ONLY FInv, p \in Procs, LookAt(p, c), <1>2, <1>3, <1>4, <1>5, <1>6, DoNothing
LEMMA CaseMake ==
  ASSUME FInv, NEW p \in Procs, NEW c, LookAt(p, c), NEW f, NEW y, LookNow(p, c, f, y), LookMake(p), Rest,
         NoFile(c, f), Creates(c)
  PROVE  FInv'
<1>1. PICK dir \in BOOLEAN : dir = (c.k = "mkdir")
  OBVIOUS
<1>2. PICK e \in Victim :
        /\ ent' = [ent EXCEPT ![Root] = y, ![e] = [Fill(c.name, dir, 0, 0, f.off) EXCEPT !.valid = 0, !.lock = p]]
        /\ Push(p, ((IF c.k = "mkdir" THEN NewDir(e) ELSE <<>>) \o NewInRoot(e, f.off)) \o After(c, e, dir))
  <2>1. PICK e \in Victim :
          /\ ent' = [ent EXCEPT ![Root] = y, ![e] = [Fill(c.name, c.k = "mkdir", 0, 0, f.off) EXCEPT !.valid = 0, !.lock = p]]
          /\ Push(p, ((IF c.k = "mkdir" THEN NewDir(e) ELSE <<>>) \o NewInRoot(e, f.off)) \o After(c, e, c.k = "mkdir"))
    BY Zenon DEF LookMake, LookNow, NewDir, NewInRoot, ValidAt
  <2> QED BY <1>1, <2>1, Zenon
<1>3. Evictee(e)
  BY VictimIs DEF Evictee
<1> DEFINE x == [Fill(c.name, dir, 0, 0, f.off) EXCEPT !.valid = 0, !.lock = p]
<1> DEFINE a == (IF c.k = "mkdir" THEN NewDir(e) ELSE <<>>) \o NewInRoot(e, f.off)
<1> DEFINE s == After(c, e, dir)
<1> DEFINE r == a \o s
<1>4. MadeNew(x, c, dir, f.off, p) /\ RootThen(ent, ent', e, x, y)
  BY <1>2 DEF MadeNew, RootThen
<1>5. MadeSteps(a, c, e, f.off)
  BY DEF MadeSteps
<1>6. IsAfter(s, c, e, dir)
  BY DEF IsAfter
<1>7. Push(p, r)
  BY <1>2
<1>8. UNCHANGED <<load, calls, fat, data, file>>
  BY DEF Rest
<1>9. RelocPut(ent[Root], f.off, y)
  BY LookNowIs
<1>10. MadeCall(c, dir)
  BY <1>1 DEF MadeCall, LookAt
<1> HIDE DEF x, a, s
<1>11. r = a \o s
  OBVIOUS
<1> HIDE DEF r
<1> QED BY ONLY FInv, p \in Procs, LookAt(p, c), NoFile(c, f), <1>3, <1>4, <1>5, <1>6, <1>7, <1>8, <1>9, <1>10, <1>11, DoMake
LEMMA DoLookup == ASSUME FInv, NEW p \in Procs, Lookup(p) PROVE FInv'
<1> DEFINE c == Now(p).c
<1> DEFINE f == FoundOf(p)
<1> DEFINE y == RootOf(p)
<1>1. Rest /\ At(p, "lookup")
  BY LookupCases
<1>2. LookAt(p, c)
  BY <1>1, LookAtIs
<1>3. LookNow(p, c, f, y)
  BY DEF LookNow
<1>4. LookCases(p)
  BY LookupCases
<1>5. FileFound(c, f) \/ NoFile(c, f)
  <2>1. Finds(c, f)
    BY <1>3, LookNowIs
  <2> HIDE DEF c, f
  <2> QED BY <1>2, <2>1, FindsIs
<1>6. (FileFound(c, f) => f.found = TRUE) /\ (NoFile(c, f) => f.found = FALSE)
  BY DEF FileFound, NoFile
<1>7. HitsOf(p) = {} => NoHits(c)
  BY DEF HitsOf, Hits, NoHits, File
<1>8. CASE HitsOf(p) # {}
  <2>1. LookHit(p)
    BY <1>4, <1>8, Zenon DEF LookCases
  <2> HIDE DEF c, f, y
  <2> QED BY <1>1, <1>2, <1>3, <2>1, CaseHit
<1>9. CASE HitsOf(p) = {} /\ FileFound(c, f)
  <2>1. LookFill(p)
    <3>1. FoundOf(p).found /\ ~(HitsOf(p) # {})
      BY <1>6, <1>9
    <3> QED BY <1>4, <1>9, <3>1 DEF LookCases
  <2> HIDE DEF c, f, y
  <2> QED BY <1>1, <1>2, <1>3, <1>7, <1>9, <2>1, CaseFill
<1>10. CASE HitsOf(p) = {} /\ NoFile(c, f) /\ ~Creates(c)
  <2>1. LookNone(p)
    <3>1. ~FoundOf(p).found /\ ~(HitsOf(p) # {})
      BY <1>6, <1>10
    <3> QED BY <1>4, <1>10, <3>1 DEF LookCases
  <2> HIDE DEF c, f, y
  <2> QED BY <1>1, <1>2, <1>3, <1>10, <2>1, CaseNone
<1>11. CASE HitsOf(p) = {} /\ NoFile(c, f) /\ Creates(c)
  <2>1. LookMake(p)
    <3>1. ~FoundOf(p).found /\ ~(HitsOf(p) # {})
      BY <1>6, <1>11
    <3> QED BY <1>4, <1>11, <3>1 DEF LookCases
  <2> HIDE DEF c, f, y
  <2> QED BY <1>1, <1>2, <1>3, <1>11, <2>1, CaseMake
<1> QED BY <1>5, <1>8, <1>9, <1>10, <1>11

-----------------------------------------------------------------------------
(* Every step *)
\* no call renames: no process has one of these steps to do
LEMMA NoRename == ASSUME FInv, NEW p \in Procs, NEW op, At(p, op) PROVE op \in Ops
<1>1. todo[p] # <<>> /\ todo[p][1].op = op /\ SeqOK(todo[p])
  BY AtIs DEF FInv
<1>2. Whole(todo[p], 1)
  BY <1>1, FirstIs
<1> QED BY <1>1, <1>2 DEF Whole
LEMMA FStep == ASSUME FInv, [Next]_vars PROVE FInv'
<1>1. CASE UNCHANGED vars
  BY <1>1, SameInv DEF vars
<1>2. ASSUME NEW p \in Procs,
             CallName(p) \/ CallWrite(p) \/ CallRead(p) \/ CallClose(p)
      PROVE  FInv'
  BY <1>2, DoCallName, DoCallWrite, DoCallRead, DoCallClose
<1>3. ASSUME NEW p \in Procs,
             Elock(p) \/ Eunlock(p) \/ Lookup(p) \/ Emake(p) \/ Valid(p) \/ Opened(p) \/ SetFile(p)
      PROVE  FInv'
  BY <1>3, DoElock, DoEunlock, DoLookup, DoEmake, DoValid, DoOpened, DoSetFile
<1>4. ASSUME NEW p \in Procs,
             Ewrite(p) \/ StoreStep(p) \/ Alloc(p) \/ Link(p) \/ Wrote(p) \/ Etrunc(p)
      PROVE  FInv'
  BY <1>4, DoEwrite, DoStoreStep, DoAlloc, DoLink, DoWrote, DoEtrunc
<1>5. ASSUME NEW p \in Procs, Eput(p) \/ Drop(p) \/ Eupdate(p) \/ Remove(p) \/ Eremove(p) PROVE FInv'
  BY <1>5, DoEput, DoDrop, DoEupdate, DoRemove, DoEremove
<1>6. ASSUME NEW p \in Procs, Target(p) \/ Renamed(p) PROVE FALSE
  <2>1. At(p, "target") \/ At(p, "renamed")
    BY <1>6 DEF Target, Renamed
  <2> QED BY <2>1, NoRename DEF Ops
<1> QED BY <1>1, <1>2, <1>3, <1>4, <1>5, <1>6 DEF Next

-----------------------------------------------------------------------------
(* From the invariant to the properties of the runs *)
\* the chain of a head: its clusters are live and different, and the last one ends it
LEMMA HeadChain ==
  ASSUME TableOK(fat), NEW h, IsHead(fat, h)
  PROVE  /\ Range(Chain(h)) = {c \in 2..LAST : \E n \in Nat : To(fat, h, n) = c}
         /\ Len(Chain(h)) \in Nat /\ IsLength(fat, h, Len(Chain(h)))
         /\ Cardinality(Range(Chain(h))) = Len(Chain(h))
         /\ read_fat(Chain(h)[Len(Chain(h))]) = EOC
<1>1. PICK l : IsLength(fat, h, l)
  BY HasLength
<1>2. Chain(h) = [k \in 1..l |-> To(fat, h, k - 1)]
  BY <1>1, ChainIs, ChIs
<1> DEFINE s == Chain(h)
<1>3. l \in Nat /\ l >= 1 /\ (\A k \in 0..(l - 1) : Live(fat, To(fat, h, k))) /\ \A k \in Nat : k >= l => To(fat, h, k) = EOC
  BY <1>1, Bounds DEF IsLength
<1>4. DOMAIN s = 1..l /\ (\A k \in 1..l : s[k] = To(fat, h, k - 1)) /\ s = [k \in 1..l |-> s[k]]
  BY <1>2
<1> HIDE DEF s
<1>5. Len(s) = l
  BY <1>3, <1>4
<1>6. \A k \in 1..l : Live(fat, s[k])
  BY <1>3, <1>4
<1>7. ASSUME NEW j \in 1..l, NEW k \in 1..l, s[j] = s[k] PROVE j = k
  <2>1. To(fat, h, j - 1) = To(fat, h, k - 1) /\ To(fat, h, j - 1) # EOC /\ j - 1 \in Nat /\ k - 1 \in Nat
    BY <1>4, <1>6, <1>7, LiveNotEOC
  <2>2. j - 1 = k - 1
    BY <2>1, Apart
  <2> QED BY <2>2
<1>8. Range(s) = {s[k] : k \in 1..l}
  BY <1>4 DEF Range
<1>9. Cardinality(Range(s)) = l
  <2>1. s \in Bijection(1..l, Range(s))
    <3>1. s \in [1..l -> Range(s)]
      BY <1>4, <1>8
    <3>2. IsInjective(s)
      BY <1>4, <1>7 DEF IsInjective
    <3> QED BY <1>8, <3>1, <3>2 DEF Bijection, Injection, Surjection
  <2>2. ExistsBijection(1..l, Range(s))
    BY <2>1 DEF ExistsBijection
  <2> QED BY <1>3, <2>2, FS_CountingElements
<1>10. Range(s) = {c \in 2..LAST : \E n \in Nat : To(fat, h, n) = c}
  <2>1. ASSUME NEW k \in 1..l PROVE s[k] \in 2..LAST /\ k - 1 \in Nat /\ To(fat, h, k - 1) = s[k]
    BY <1>4, <1>6 DEF Live
  <2>2. ASSUME NEW c \in 2..LAST, NEW n \in Nat, To(fat, h, n) = c PROVE n + 1 \in 1..l /\ s[n + 1] = c
    <3>1. c # EOC
      BY Bounds
    <3>2. n < l
      BY <1>3, <2>2, <3>1
    <3>3. n + 1 \in 1..l /\ (n + 1) - 1 = n
      BY <1>3, <3>2
    <3> QED BY <1>4, <2>2, <3>3
  <2> QED BY <1>8, <2>1, <2>2
<1>11. read_fat(s[l]) = EOC
  <2>1. l - 1 \in Nat /\ l \in 1..l /\ l - 1 \in 0..(l - 1) /\ (l - 1) + 1 = l /\ l >= l
    BY <1>3
  <2>2. Live(fat, To(fat, h, l - 1)) /\ To(fat, h, l) = EOC /\ s[l] = To(fat, h, l - 1)
    BY <1>3, <1>4, <2>1
  <2>3. To(fat, h, l) = Succ(fat)[To(fat, h, l - 1)]
    BY <2>1, ToIs
  <2>4. fat[s[l]] = EOC
    BY <2>2, <2>3, SuccIs
  <2>5. s[l] \in 2..LAST /\ s[l] < EOC
    BY <2>2, LiveNotEOC DEF Live
  <2>6. s[l] <= LAST /\ s[l] \in Nat
    BY <2>5, Bounds
  <2> QED BY <2>4, <2>5, <2>6, Bounds DEF read_fat
<1> QED BY <1>1, <1>3, <1>5, <1>9, <1>10, <1>11 DEF s
LEMMA NoChain == ASSUME NEW h, ~IsCluster(h) PROVE Range(Chain(h)) = {}
<1>1. Chain(h) = <<>>
  BY ChainIs, ChEmpty
<1> QED BY <1>1 DEF Range

\* nobody writes a slot of the directory while it is not locked
LEMMA QuietIs ==
  ASSUME FInv, Quiet
  PROVE  /\ \A q \in Procs, e \in File : ~Creating(todo[q], e)
         /\ DirShape(Dir) /\ DirSound /\ ent[Root].first = 2 /\ TableOK(fat) /\ IsHead(fat, 2)
         /\ Listing = {Row(Dir, g) : g \in Groups(Dir)}
<1>1. CtlOK(load, calls, ent, todo, file) /\ DiskOK(load, ent, todo, fat, data, Dir)
  BY DEF FInv, Ctl, Disk
<1>2. ASSUME NEW q \in Procs, NEW e \in File, Creating(todo[q], e) PROVE FALSE
  <2>1. ent[Root].lock = q
    BY <1>1, <1>2, MakerIs
  <2> QED BY <2>1, ProcsAssumption DEF Quiet
<1>3. DirShape(Dir) /\ ent[Root].first = 2 /\ ent[Root].valid = 1
  BY <1>1, <1>2, DiskParts DEF DirOK, RootOK
<1>4. FatOK(load, Heads(ent, todo, Dir), fat)
  BY <1>1, DiskParts
<1>5. IsHead(fat, 2)
  <2>1. Root \in Entry /\ Root \notin File
    BY FileEntry
  <2>2. ~Cut(todo, Root)
    <3> SUFFICES ASSUME NEW q \in Procs, OnEntry(todo[q], {"etrunc"}, Root) PROVE FALSE
      BY DEF Cut
    <3>1. SeqOK(todo[q]) /\ todo[q] # <<>> /\ todo[q][1].op = "etrunc" /\ todo[q][1].e = Root
      BY <1>1 DEF CtlOK, OnEntry
    <3>2. Whole(todo[q], 1)
      BY <3>1, FirstIs
    <3> QED BY <3>1, <3>2 DEF Whole, OnFile
  <2>3. Heads(ent, todo, Dir)[Ie(Root)] = 2 /\ Ie(Root) \in Idx
    BY <1>3, <2>1, <2>2, HeadsIs, IdxIs DEF EntryHead, InMem
  <2>4. Cl(2)
    BY Bounds DEF Cl
  <2> QED BY <1>4, <2>3, <2>4 DEF FatOK, HeadsOK
<1>6. TableOK(fat)
  BY <1>4 DEF FatOK
<1>7. DirSound
  BY <1>3, <1>5, <1>6 DEF DirSound, DirShape
<1> QED BY <1>2, <1>3, <1>5, <1>6, <1>7, ListingIs

-----------------------------------------------------------------------------
\* a file that Cached() does not find is on disk only
LEMMA CachedIs ==
  ASSUME FInv, Quiet, NEW g \in Groups(Dir)
  PROVE  Cached(GName(Dir, g)) = {} <=> OnDisk(ent, todo, Dir, g)
<1>1. CtlOK(load, calls, ent, todo, file) /\ DiskOK(load, ent, todo, fat, data, Dir)
  BY DEF FInv, Ctl, Disk
<1>2. CacheOK(ent, todo, Dir) /\ NamesOK(load, Dir)
  BY <1>1, DiskParts
<1>3. \A e \in File : Named(e) <=> ent[e].valid = 1
  <2> SUFFICES ASSUME NEW e \in File, NEW p \in Procs, NEW i \in Steps(p), i.op = "renamed" PROVE FALSE
    BY DEF Named, Renaming
  <2>1. SeqOK(todo[p])
    BY <1>1 DEF CtlOK
  <2>2. DOMAIN todo[p] = 1..Len(todo[p])
    BY <2>1 DEF SeqOK, IsSeq
  <2>3. PICK k \in 1..Len(todo[p]) : i = todo[p][k]
    BY <2>2 DEF Steps
  <2>4. Whole(todo[p], k)
    BY <2>1 DEF SeqOK
  <2> QED BY <2>3, <2>4 DEF Whole, Ops
<1>4. \A e \in File : Bound(ent, todo, e) <=> ent[e].valid = 1
  BY QuietIs DEF Bound, Made
<1>5. ASSUME NEW e \in File, ent[e].valid = 1
      PROVE  ent[e].name = GName(Dir, g) <=> ent[e].off = g
  <2>1. InStep(ent[e], Dir)
    BY <1>2, <1>5 DEF CacheOK
  <2>2. ent[e].off \in Groups(Dir) /\ GName(Dir, ent[e].off) = ent[e].name
    BY <2>1 DEF InStep
  <2> QED BY <1>2, <2>2 DEF NamesOK
<1>6. Cached(GName(Dir, g)) = {e \in File : ent[e].valid = 1 /\ ent[e].name = GName(Dir, g)}
  BY <1>3 DEF Cached, File
<1>7. OnDisk(ent, todo, Dir, g) <=> \A e \in File : ent[e].valid = 1 => ent[e].off # g
  BY <1>4 DEF OnDisk
<1> QED BY <1>5, <1>6, <1>7

\* where the clusters of an owner are counted
EntryOwner(e) == [e |-> e, name |-> <<>>, first |-> FirstOf(e)]
DiskOwner(g) == [e |-> -1, name |-> GName(Dir, g), first |-> GInfo(Dir, g).first]
OwnerAt(o, x) ==
  \/ \E e \in InMemory : o = EntryOwner(e) /\ (IF Truncating(e) = {} THEN x = Ie(e)
                                              ELSE \E q \in Truncating(e) : x = Ip(q))
  \/ \E g \in Groups(Dir) : o = DiskOwner(g) /\ OnDisk(ent, todo, Dir, g) /\ x = Ig(g)
LEMMA OwnersAre ==
  ASSUME FInv, Quiet
  PROVE  Owners = {EntryOwner(e) : e \in InMemory} \cup {DiskOwner(g) : g \in {j \in Groups(Dir) : OnDisk(ent, todo, Dir, j)}}
<1>1. Listing = {Row(Dir, g) : g \in Groups(Dir)}
  BY QuietIs
<1>2. {[e |-> -1, name |-> l.name, first |-> l.info.first] : l \in {m \in Listing : Cached(m.name) = {}}}
      = {DiskOwner(g) : g \in {j \in Groups(Dir) : OnDisk(ent, todo, Dir, j)}}
  <2>1. \A g \in Groups(Dir) : Row(Dir, g).name = GName(Dir, g) /\ Row(Dir, g).info = GInfo(Dir, g)
    BY DEF Row
  <2>2. {m \in Listing : Cached(m.name) = {}} = {Row(Dir, g) : g \in {j \in Groups(Dir) : OnDisk(ent, todo, Dir, j)}}
    BY <1>1, <2>1, CachedIs
  <2> QED BY <2>1, <2>2 DEF DiskOwner
<1>3. {[e |-> e, name |-> <<>>, first |-> FirstOf(e)] : e \in InMemory} = {EntryOwner(e) : e \in InMemory}
  BY DEF EntryOwner
<1> QED BY <1>2, <1>3 DEF Owners
LEMMA CutIs == ASSUME NEW e PROVE Cut(todo, e) <=> Truncating(e) # {}
<1>1. ASSUME NEW p \in Procs, OnEntry(todo[p], {"etrunc"}, e) PROVE p \in Truncating(e)
  BY <1>1 DEF OnEntry, Truncating, Now
<1>2. ASSUME NEW p \in Truncating(e) PROVE p \in Procs /\ OnEntry(todo[p], {"etrunc"}, e)
  BY <1>2 DEF OnEntry, Truncating, Now
<1> QED BY <1>1, <1>2 DEF Cut
LEMMA TruncatingIs ==
  ASSUME FInv, NEW e, NEW p \in Truncating(e)
  PROVE  /\ p \in Procs /\ Held(todo[p]) = Now(p).c /\ Now(p).e = e
         /\ \A q \in Truncating(e) : q = p
<1>1. CtlOK(load, calls, ent, todo, file)
  BY DEF FInv, Ctl
<1>2. ASSUME NEW q \in Truncating(e)
      PROVE  q \in Procs /\ todo[q] # <<>> /\ Now(q) = todo[q][1] /\ todo[q][1].op = "etrunc" /\ todo[q][1].e = e
  BY DEF Truncating, Now
<1>3. ASSUME NEW q \in Truncating(e) PROVE ent[e].lock = q
  BY <1>1, <1>2, HeadLocked DEF NeedsLock
<1>4. Held(todo[p]) = Now(p).c
  BY <1>2 DEF Held
<1> QED BY <1>2, <1>3, <1>4
LEMMA OwnerHas ==
  ASSUME FInv, Quiet, NEW o \in Owners
  PROVE  \E x \in Idx : OwnerAt(o, x) /\ Heads(ent, todo, Dir)[x] = o.first
<1>1. CASE \E e \in InMemory : o = EntryOwner(e)
  <2>1. PICK e \in InMemory : o = EntryOwner(e)
    BY <1>1
  <2>2. o.first = FirstOf(e) /\ e \in Entry /\ InMem(ent[e])
    BY <2>1 DEF EntryOwner, InMemory, InMem
  <2>3. CASE Truncating(e) = {}
    <3>1. EntryHead(ent, todo, e) = o.first
      BY <2>2, <2>3, CutIs DEF EntryHead, FirstOf
    <3>2. Ie(e) \in Idx /\ Heads(ent, todo, Dir)[Ie(e)] = o.first
      BY <2>2, <3>1, IdxIs, HeadsIs
    <3>3. OwnerAt(o, Ie(e))
      BY <2>1, <2>3 DEF OwnerAt
    <3> QED BY <3>2, <3>3
  <2>4. CASE Truncating(e) # {}
    <3> DEFINE p == CHOOSE q \in Truncating(e) : TRUE
    <3>1. p \in Truncating(e) /\ FirstOf(e) = Now(p).c
      BY <2>4 DEF FirstOf
    <3> HIDE DEF p
    <3>2. p \in Procs /\ Held(todo[p]) = o.first
      BY <2>2, <3>1, TruncatingIs
    <3>3. Ip(p) \in Idx /\ Heads(ent, todo, Dir)[Ip(p)] = o.first
      BY <3>2, IdxIs, HeadsIs
    <3>4. OwnerAt(o, Ip(p))
      BY <2>1, <2>4, <3>1 DEF OwnerAt
    <3> QED BY <3>3, <3>4
  <2> QED BY <2>3, <2>4
<1>2. CASE \E g \in Groups(Dir) : OnDisk(ent, todo, Dir, g) /\ o = DiskOwner(g)
  <2>1. PICK g \in Groups(Dir) : OnDisk(ent, todo, Dir, g) /\ o = DiskOwner(g)
    BY <1>2
  <2>2. g \in Nat /\ DiskHead(ent, todo, Dir, g) = o.first
    BY <2>1 DEF Groups, DiskHead, DiskOwner
  <2>3. Ig(g) \in Idx /\ Heads(ent, todo, Dir)[Ig(g)] = o.first
    BY <2>2, IdxIs, HeadsIs
  <2>4. OwnerAt(o, Ig(g))
    BY <2>1 DEF OwnerAt
  <2> QED BY <2>3, <2>4
<1>3. o \in {EntryOwner(e) : e \in InMemory} \cup {DiskOwner(g) : g \in {j \in Groups(Dir) : OnDisk(ent, todo, Dir, j)}}
  BY OwnersAre
<1> QED BY <1>1, <1>2, <1>3
LEMMA OwnerOne ==
  ASSUME FInv, NEW o, NEW r, NEW x, OwnerAt(o, x), OwnerAt(r, x)
  PROVE  o = r
<1>1. CASE \E g \in Groups(Dir) : x = Ig(g)
  <2>1. PICK g \in Groups(Dir) : x = Ig(g)
    BY <1>1
  <2>2. o = DiskOwner(g)
    BY <2>1, IdxApart DEF OwnerAt
  <2>3. r = DiskOwner(g)
    BY <2>1, IdxApart DEF OwnerAt
  <2> QED BY <2>2, <2>3
<1>2. CASE ~\E g \in Groups(Dir) : x = Ig(g)
  <2>1. PICK e \in InMemory : o = EntryOwner(e) /\ (IF Truncating(e) = {} THEN x = Ie(e)
                                                    ELSE \E q \in Truncating(e) : x = Ip(q))
    BY <1>2 DEF OwnerAt
  <2>2. PICK f \in InMemory : r = EntryOwner(f) /\ (IF Truncating(f) = {} THEN x = Ie(f)
                                                    ELSE \E q \in Truncating(f) : x = Ip(q))
    BY <1>2 DEF OwnerAt
  <2>3. CASE Truncating(e) = {}
    BY <2>1, <2>2, <2>3, IdxApart
  <2>4. CASE Truncating(e) # {}
    <3>1. PICK q \in Truncating(e) : x = Ip(q)
      BY <2>1, <2>4
    <3>2. Truncating(f) # {}
      BY <2>2, <3>1, IdxApart
    <3>3. PICK y \in Truncating(f) : x = Ip(y)
      BY <2>2, <3>2
    <3>4. q = y
      BY <3>1, <3>3, IdxApart
    <3>5. Now(q).e = e /\ Now(y).e = f
      BY <3>1, <3>3, TruncatingIs
    <3> QED BY <2>1, <2>2, <3>4, <3>5
  <2> QED BY <2>3, <2>4
<1> QED BY <1>1, <1>2

LEMMA OwnerHead ==
  ASSUME FInv, Quiet, NEW o \in Owners, IsCluster(o.first)
  PROVE  IsHead(fat, o.first)
<1>1. PICK x \in Idx : OwnerAt(o, x) /\ Heads(ent, todo, Dir)[x] = o.first
  BY OwnerHas
<1>2. FatOK(load, Heads(ent, todo, Dir), fat)
  BY DiskParts DEF FInv, Disk
<1>3. o.first \in {0, EOC} \cup (2..LAST)
  BY <1>1, <1>2 DEF FatOK, NumsOK
<1>4. Cl(o.first)
  <2>1. o.first # 0 /\ o.first # EOC
    BY Bounds DEF IsCluster
  <2> QED BY <1>3, <2>1 DEF Cl
<1> QED BY <1>1, <1>2, <1>4 DEF FatOK, HeadsOK
LEMMA OwnersApart ==
  ASSUME FInv, Quiet, NEW o \in Owners, NEW r \in Owners, o # r, IsCluster(o.first)
  PROVE  o.first # r.first
<1>1. PICK x \in Idx : OwnerAt(o, x) /\ Heads(ent, todo, Dir)[x] = o.first
  BY OwnerHas
<1>2. PICK y \in Idx : OwnerAt(r, y) /\ Heads(ent, todo, Dir)[y] = r.first
  BY OwnerHas
<1>3. FatOK(load, Heads(ent, todo, Dir), fat)
  BY DiskParts DEF FInv, Disk
<1>4. Cl(o.first)
  <2>1. o.first \in {0, EOC} \cup (2..LAST)
    BY <1>1, <1>3 DEF FatOK, NumsOK
  <2>2. o.first # 0 /\ o.first # EOC
    BY Bounds DEF IsCluster
  <2> QED BY <2>1, <2>2 DEF Cl
<1>5. x # y
  BY <1>1, <1>2, OwnerOne
<1> QED BY <1>1, <1>2, <1>3, <1>4, <1>5 DEF FatOK, HeadsOK
LEMMA ChainsFollow == ASSUME FInv PROVE ChainsDisjoint
<1> SUFFICES ASSUME Quiet
             PROVE  /\ \A o \in Owners : IsCluster(o.first) =>
                         LET s == Chain(o.first) IN
                         /\ Cardinality(Range(s)) = Len(s) /\ read_fat(s[Len(s)]) = EOC
                         /\ Range(s) \subseteq 2..LAST
                    /\ \A o, q \in Owners : o # q => Range(Chain(o.first)) \cap Range(Chain(q.first)) = {}
  BY DEF ChainsDisjoint
<1>1. TableOK(fat)
  BY QuietIs
<1>2. ASSUME NEW o \in Owners, IsCluster(o.first)
      PROVE  LET s == Chain(o.first) IN
             /\ Cardinality(Range(s)) = Len(s) /\ read_fat(s[Len(s)]) = EOC
             /\ Range(s) \subseteq 2..LAST
  <2>1. IsHead(fat, o.first)
    BY <1>2, OwnerHead
  <2> QED BY <1>1, <2>1, HeadChain
<1>3. ASSUME NEW o \in Owners, NEW q \in Owners, o # q
      PROVE  Range(Chain(o.first)) \cap Range(Chain(q.first)) = {}
  <2>1. CASE ~IsCluster(o.first) \/ ~IsCluster(q.first)
    BY <2>1, NoChain
  <2>2. CASE IsCluster(o.first) /\ IsCluster(q.first)
    <3>1. IsHead(fat, o.first) /\ IsHead(fat, q.first) /\ o.first # q.first
      BY <1>3, <2>2, OwnerHead, OwnersApart
    <3>2. /\ Range(Chain(o.first)) = {c \in 2..LAST : \E n \in Nat : To(fat, o.first, n) = c}
          /\ Range(Chain(q.first)) = {c \in 2..LAST : \E n \in Nat : To(fat, q.first, n) = c}
      BY <1>1, <3>1, HeadChain
    <3>3. ASSUME NEW m \in Nat, NEW n \in Nat, To(fat, o.first, m) = To(fat, q.first, n), To(fat, o.first, m) \in 2..LAST
          PROVE  FALSE
      <4>1. To(fat, o.first, m) # EOC
        BY <3>3, Bounds
      <4> QED BY <1>1, <3>1, <3>3, <4>1, Apart
    <3> QED BY <3>2, <3>3
  <2> QED BY <2>1, <2>2
<1> QED BY <1>2, <1>3

LEMMA DirectoryFollows == ASSUME FInv PROVE DirectoryRight
<1> SUFFICES ASSUME Quiet
             PROVE  LET d == ent[Root].first list == Listing IN
                    /\ \A l, m \in list : l.name = m.name => l = m
                    /\ \A o \in 0..(C * Len(Chain(d)) - 1) : Kind(d, o) \in {"byte", "empty"} \/
                         \E l \in list : o \in l.off..(l.off + Len(l.name))
                    /\ \A e \in Entry \ {Root} : ent[e].valid = 1 =>
                         \E l \in list :
                           /\ l.off = ent[e].off /\ l.name = ent[e].name
                           /\ ent[e].ref > 0 \/ (l.info.first = ent[e].first /\ l.info.size = ent[e].size)
  BY DEF DirectoryRight
<1>1. DirShape(Dir) /\ ent[Root].first = 2 /\ TableOK(fat) /\ IsHead(fat, 2)
      /\ Listing = {Row(Dir, g) : g \in Groups(Dir)}
  BY QuietIs
<1>2. NamesOK(load, Dir) /\ CacheOK(ent, todo, Dir) /\ EntDom(ent)
  BY DiskParts DEF FInv, Disk, Ctl, CtlOK
<1>3. \A g \in Groups(Dir) : Row(Dir, g).name = GName(Dir, g) /\ Row(Dir, g).off = g /\ Row(Dir, g).info = GInfo(Dir, g)
  BY DEF Row
<1>4. \A l, m \in Listing : l.name = m.name => l = m
  BY <1>1, <1>2, <1>3 DEF NamesOK
<1>5. ASSUME NEW o \in 0..(C * Len(Chain(2)) - 1)
      PROVE  Kind(2, o) \in {"byte", "empty"} \/ \E l \in Listing : o \in l.off..(l.off + Len(l.name))
  <2>1. o \in Nat
    BY <1>1, HeadChain, Bounds
  <2>2. Kind(2, o) = Dir[o].k
    BY <2>1, CellDir DEF Kind
  <2>3. PICK N \in Nat : Regular(Dir, N) /\ Free(Dir, N)
    BY <1>1 DEF DirShape
  <2>4. CASE o >= N
    BY <2>1, <2>2, <2>3, <2>4 DEF Free
  <2>5. CASE o < N
    <3>1. Dir[o].k = "empty" \/ \E g \in 0..o : IsGroup(Dir, g) /\ o <= GEnd(Dir, g) /\ GEnd(Dir, g) < N
      BY <2>1, <2>3, <2>5 DEF Regular
    <3>2. ASSUME NEW g \in 0..o, IsGroup(Dir, g), o <= GEnd(Dir, g)
          PROVE  \E l \in Listing : o \in l.off..(l.off + Len(l.name))
      <4>1. g \in Nat /\ g <= o /\ g \in Groups(Dir)
        BY <2>1, <3>2 DEF Groups
      <4>2. Dir[g].order \in Nat
        BY <3>2 DEF IsGroup
      <4>3. Len(GName(Dir, g)) = Dir[g].order
        BY <4>2 DEF GName
      <4>4. o \in g..(g + Len(GName(Dir, g)))
        BY <2>1, <3>2, <4>1, <4>2, <4>3 DEF GEnd
      <4> QED BY <1>1, <1>3, <4>1, <4>4
    <3> QED BY <2>2, <3>1, <3>2
  <2> QED BY <2>1, <2>3, <2>4, <2>5
<1>6. ASSUME NEW e \in Entry \ {Root}, ent[e].valid = 1
      PROVE  \E l \in Listing :
               /\ l.off = ent[e].off /\ l.name = ent[e].name
               /\ ent[e].ref > 0 \/ (l.info.first = ent[e].first /\ l.info.size = ent[e].size)
  <2>1. InStep(ent[e], Dir) /\ ent[e].ref \in Nat
    BY <1>2, <1>6 DEF CacheOK, File, EntDom
  <2> DEFINE g == ent[e].off
  <2>2. g \in Groups(Dir) /\ GName(Dir, g) = ent[e].name
    BY <2>1 DEF InStep
  <2>3. ent[e].ref > 0 \/ (GInfo(Dir, g).first = ent[e].first /\ GInfo(Dir, g).size = ent[e].size)
    BY <2>1 DEF InStep
  <2>4. Row(Dir, g) \in Listing
    BY <1>1, <2>2
  <2> QED BY <1>3, <2>2, <2>3, <2>4
<1> QED BY <1>1, <1>4, <1>5, <1>6

LEMMA NoneLost == ASSUME FInv PROVE NoClusterLost
<1> SUFFICES ASSUME \A p \in Procs : todo[p] = <<>>,
                    NEW c \in 2..LAST, fat[c] # 0, load.fat[c] # BAD
             PROVE  \E o \in Owners : c \in Range(Chain(o.first))
  BY DEF NoClusterLost, Idle
<1>1. CtlOK(load, calls, ent, todo, file) /\ DiskOK(load, ent, todo, fat, data, Dir)
  BY DEF FInv, Ctl, Disk
<1>2. Quiet
  <2>1. \A p \in Procs : ~Holds(todo[p], Root)
    <3> SUFFICES ASSUME NEW p \in Procs PROVE ~HoldsRoot(todo[p])
      BY DEF Holds
    <3>1. \A e : ~Creating(<<>>, e)
      BY Tup0 DEF Creating, Has
    <3> QED BY <3>1 DEF HoldsRoot, OnEntry
  <2>2. \A p \in Procs : ent[Root].lock # p
    BY <1>1, <2>1, FileEntry DEF CtlOK, Locks
  <2>3. ent[Root].lock \in Procs \cup {NoProc}
    BY <1>1, FileEntry DEF CtlOK, EntDom
  <2> QED BY <2>2, <2>3 DEF Quiet
<1>3. FatOK(load, Heads(ent, todo, Dir), fat)
  BY <1>1, DiskParts
<1>4. fat[c] # BAD
  BY <1>3 DEF FatOK, Marks
<1>5. PICK x \in Idx, n \in Nat : Cl(Heads(ent, todo, Dir)[x]) /\ To(fat, Heads(ent, todo, Dir)[x], n) = c
  BY <1>3, <1>4 DEF FatOK, Covered
<1> DEFINE h == Heads(ent, todo, Dir)[x]
<1>6. \E o \in Owners : o.first = h
  <2>1. CASE \E e \in Entry : x = Ie(e)
    <3>1. PICK e \in Entry : x = Ie(e)
      BY <2>1
    <3>2. h = EntryHead(ent, todo, e) /\ h # 0
      BY <1>5, <3>1, HeadsIs, ClNot
    <3>3. InMem(ent[e]) /\ ~Cut(todo, e) /\ h = ent[e].first
      BY <3>2 DEF EntryHead
    <3>4. e \in InMemory /\ FirstOf(e) = h
      BY <3>3, CutIs DEF InMemory, InMem, FirstOf
    <3>5. EntryOwner(e) \in Owners /\ EntryOwner(e).first = h
      BY <1>2, <3>4, OwnersAre DEF EntryOwner
    <3> QED BY <3>5
  <2>2. CASE \E p \in Procs : x = Ip(p)
    <3>1. PICK p \in Procs : x = Ip(p)
      BY <2>2
    <3>2. h = Held(todo[p])
      BY <3>1, HeadsIs
    <3>3. h = 0
      BY <3>2 DEF Held
    <3> QED BY <1>5, <3>3, ClNot
  <2>3. CASE \E g \in Nat : x = Ig(g)
    <3>1. PICK g \in Nat : x = Ig(g)
      BY <2>3
    <3>2. h = DiskHead(ent, todo, Dir, g) /\ h # 0
      BY <1>5, <3>1, HeadsIs, ClNot
    <3>3. OnDisk(ent, todo, Dir, g) /\ h = GInfo(Dir, g).first
      BY <3>2 DEF DiskHead
    <3>4. g \in {j \in Groups(Dir) : OnDisk(ent, todo, Dir, j)}
      BY <3>3 DEF OnDisk
    <3>5. DiskOwner(g) \in Owners /\ DiskOwner(g).first = h
      BY <1>2, <3>3, <3>4, OwnersAre DEF DiskOwner
    <3> QED BY <3>5
  <2> QED BY <2>1, <2>2, <2>3, IdxIs
<1>7. PICK o \in Owners : o.first = h
  BY <1>6
<1>8. IsHead(fat, h) /\ TableOK(fat)
  BY <1>3, <1>5 DEF FatOK, HeadsOK
<1>9. c \in Range(Chain(h))
  BY <1>5, <1>8, HeadChain
<1> QED BY <1>7, <1>9

-----------------------------------------------------------------------------
(* The initial states *)
IsFirst(x, b, n, v) == x = [Fill(<<>>, b, n, 0, 0) EXCEPT !.valid = v, !.ref = v]
FirstIsRoot(x) == IsFirst(x, TRUE, 2, 1)
FirstIsFree(x) == IsFirst(x, FALSE, 0, 0)
EntFirst(x, n, v) ==
  /\ IsEnt(x) /\ x.dir \in BOOLEAN /\ x.dirty \in BOOLEAN /\ x.valid \in {-1, 0, 1}
  /\ x.ref \in Nat /\ x.lock \in Procs \cup {NoProc}
  /\ x.lock = NoProc /\ x.dirty = FALSE /\ x.size = 0 /\ x.off = 0 /\ x.cnt = 0 /\ x.cur = x.first
  /\ x.first = n /\ x.valid = v /\ x.ref = v
LEMMA FirstEnts == ASSUME NEW x PROVE (FirstIsRoot(x) => EntFirst(x, 2, 1)) /\ (FirstIsFree(x) => EntFirst(x, 0, 0))
<1>1. ASSUME FirstIsRoot(x) PROVE EntFirst(x, 2, 1)
  <2>1. x = [name |-> <<>>, dir |-> TRUE, first |-> 2, size |-> 0, cur |-> 2, cnt |-> 0, dirty |-> FALSE,
             valid |-> 1, ref |-> 1, off |-> 0, lock |-> NoProc]
    BY <1>1 DEF FirstIsRoot, IsFirst, Fill
  <2> QED BY <2>1 DEF EntFirst, IsEnt
<1>2. ASSUME FirstIsFree(x) PROVE EntFirst(x, 0, 0)
  <2>1. x = [name |-> <<>>, dir |-> FALSE, first |-> 0, size |-> 0, cur |-> 0, cnt |-> 0, dirty |-> FALSE,
             valid |-> 0, ref |-> 0, off |-> 0, lock |-> NoProc]
    BY <1>2 DEF FirstIsFree, IsFirst, Fill
  <2> QED BY <2>1 DEF EntFirst, IsEnt
<1> QED BY <1>1, <1>2
LEMMA InitIs ==
  ASSUME Init
  PROVE  /\ calls = load.calls /\ fat = load.fat /\ data = load.data /\ Dir = RootDir(load)
         /\ todo = [p \in Procs |-> <<>>] /\ file = [p \in Procs |-> None]
         /\ EntDom(ent) /\ Root \in Entry
         /\ \A e \in Entry : ent[e].lock = NoProc /\ ent[e].dirty = FALSE /\ ent[e].size = 0 /\ ent[e].off = 0 /\ ent[e].cnt = 0
                             /\ ent[e].cur = ent[e].first
         /\ ent[Root].first = 2 /\ ent[Root].valid = 1
         /\ \A e \in File : ent[e].valid = 0 /\ ent[e].ref = 0 /\ ent[e].first = 0
<1>1. calls = load.calls /\ fat = load.fat /\ data = load.data /\ todo = [p \in Procs |-> <<>>] /\ file = [p \in Procs |-> None]
      /\ ent = [e \in Entry |->
           [Fill(<<>>, e = Root, IF e = Root THEN 2 ELSE 0, 0, 0) EXCEPT
              !.valid = IF e = Root THEN 1 ELSE 0, !.ref = IF e = Root THEN 1 ELSE 0]]
  BY DEF Init
<1>2. Root \in Entry
  BY SizesAssumption DEF Root, Entry
<1>3. ASSUME NEW e \in Entry
      PROVE  IF e = Root THEN FirstIsRoot(ent[e]) ELSE FirstIsFree(ent[e])
  <2>1. CASE e = Root
    <3>1. FirstIsRoot(ent[e])
      BY <1>1, <2>1 DEF IsFirst, FirstIsRoot
    <3> QED BY <2>1, <3>1
  <2>2. CASE e # Root
    <3>1. FirstIsFree(ent[e])
      BY <1>1, <2>2 DEF IsFirst, FirstIsFree
    <3> QED BY <2>2, <3>1
  <2> QED BY <2>1, <2>2
<1>4. ASSUME NEW e \in Entry
      PROVE  /\ IsEnt(ent[e]) /\ ent[e].dir \in BOOLEAN /\ ent[e].dirty \in BOOLEAN /\ ent[e].valid \in {-1, 0, 1}
             /\ ent[e].ref \in Nat /\ ent[e].lock \in Procs \cup {NoProc}
             /\ ent[e].lock = NoProc /\ ent[e].dirty = FALSE /\ ent[e].size = 0 /\ ent[e].off = 0 /\ ent[e].cnt = 0
             /\ ent[e].cur = ent[e].first
             /\ IF e = Root THEN ent[e].first = 2 /\ ent[e].valid = 1
                ELSE ent[e].valid = 0 /\ ent[e].ref = 0 /\ ent[e].first = 0
  <2>1. IF e = Root THEN EntFirst(ent[e], 2, 1) ELSE EntFirst(ent[e], 0, 0)
    BY <1>3, FirstEnts
  <2> QED BY <2>1 DEF EntFirst
<1>5. ent = [e \in Entry |-> ent[e]]
  BY <1>1
<1>6. EntDom(ent)
  BY <1>4, <1>5 DEF EntDom
<1>7. Dir = RootDir(load)
  BY <1>1 DEF Dir, RootDir
<1>8. ent[Root].first = 2 /\ ent[Root].valid = 1
  BY <1>2, <1>4
<1>9. \A e \in File : ent[e].valid = 0 /\ ent[e].ref = 0 /\ ent[e].first = 0
  BY <1>4, FileEntry DEF File
<1>10. \A e \in Entry : ent[e].lock = NoProc /\ ent[e].dirty = FALSE /\ ent[e].size = 0 /\ ent[e].off = 0 /\ ent[e].cnt = 0
                        /\ ent[e].cur = ent[e].first
  BY <1>4
<1> QED BY <1>1, <1>2, <1>6, <1>7, <1>8, <1>9, <1>10

\* nobody has anything to do
LEMMA NothingToDo ==
  /\ SeqOK(<<>>) /\ (\A f : UsesOK(<<>>, f)) /\ (\A l, p, E : Asked(l, p, <<>>, E)) /\ (\A e, x : CreateOK(<<>>, e, x))
  /\ \A e : ~Creating(<<>>, e) /\ ~Gives(<<>>, e) /\ ~OnEntry(<<>>, {"etrunc"}, e) /\ ~Holds(<<>>, e)
  /\ Held(<<>>) = 0 /\ \A E, t, d : LocalOK(<<>>, E, t, d)
<1>1. 1..Len(<<>>) = {} /\ IsSeq(<<>>)
  BY Tup0
<1>2. SeqOK(<<>>) /\ (\A f : UsesOK(<<>>, f)) /\ (\A l, p, E : Asked(l, p, <<>>, E)) /\ (\A e, x : CreateOK(<<>>, e, x))
  BY <1>1 DEF SeqOK, UsesOK, Asked, CreateOK
<1>3. \A e : ~Creating(<<>>, e) /\ ~Gives(<<>>, e)
  BY <1>1 DEF Creating, Gives, Has
<1>4. \A e, S : ~OnEntry(<<>>, S, e)
  BY DEF OnEntry
<1>5. \A e : ~Holds(<<>>, e)
  BY <1>3, <1>4 DEF Holds, HoldsRoot, HoldsEntry
<1>6. Held(<<>>) = 0 /\ \A E, t, d : LocalOK(<<>>, E, t, d)
  BY DEF Held, LocalOK
<1> QED BY <1>2, <1>3, <1>4, <1>5, <1>6

LEMMA InitCtl == ASSUME Init, Ordinary(load) PROVE CallsAre(load) /\ Ctl
<1>1. OrdinaryCalls(load)
  BY DEF Ordinary
<1>2. CallsAre(load) /\ load.calls = [p \in Procs |-> load.calls[p]] /\ \A p \in Procs : IsSeq(load.calls[p])
  BY <1>1 DEF OrdinaryCalls
<1>3. calls = load.calls /\ EntDom(ent) /\ todo = [p \in Procs |-> <<>>] /\ file = [p \in Procs |-> None]
  BY InitIs
<1>4. todo = [p \in Procs |-> todo[p]] /\ \A p \in Procs : todo[p] = <<>> /\ file[p] = None
  BY <1>3
<1>5. file = [p \in Procs |-> file[p]]
  BY <1>3
<1>6. \A p \in Procs : SeqOK(todo[p]) /\ UsesOK(todo[p], file[p]) /\ Asked(load, p, todo[p], ent)
  BY <1>4, NothingToDo
<1>7. \A p \in Procs : \A e \in File : CreateOK(todo[p], e, ent[e])
  BY <1>4, NothingToDo
<1>8. Locks(ent, todo)
  BY <1>4, NothingToDo, InitIs, ProcsAssumption DEF Locks
<1>9. Refs(ent, todo, file)
  <2> SUFFICES ASSUME NEW e \in File PROVE ent[e].ref >= Cardinality(Openers(file, e)) + Cardinality(Givers(todo, e))
    BY DEF Refs
  <2>1. Openers(file, e) = {} /\ Givers(todo, e) = {}
    BY <1>4, NothingToDo DEF Openers, Givers, FileIs
  <2>2. Cardinality({}) = 0
    BY FS_EmptySet
  <2>3. ent[e].ref = 0
    BY InitIs
  <2> QED BY <2>1, <2>2, <2>3
<1>10. Files1(file)
  BY <1>4, <1>5 DEF Files1, IsFile
<1>11. States(ent, todo)
  BY <1>4, NothingToDo, InitIs DEF States
<1>12. Calls1(load, calls)
  BY <1>2, <1>3 DEF Calls1, AreCalls, CallsOf
<1>13. CtlOK(load, calls, ent, todo, file)
  BY <1>3, <1>4, <1>6, <1>7, <1>8, <1>9, <1>10, <1>11, <1>12 DEF CtlOK
<1> QED BY <1>2, <1>13 DEF Ctl

LEMMA InitTable ==
  ASSUME Init, Ordinary(load)
  PROVE  /\ TableOK(fat) /\ TabDom(fat) /\ DatDom(data) /\ IsHead(fat, 2) /\ FilesOf(Dir) = Groups(Dir)
         /\ DirShape(Dir) /\ NamesOK(load, Dir)
<1>1. fat = load.fat /\ data = load.data /\ Dir = RootDir(load)
  BY InitIs
<1>2. OrdinaryTable(load) /\ OrdinarySlots(Dir) /\ OrdinaryNames(load, Dir) /\ OrdinaryChains(load, Dir)
  BY <1>1 DEF Ordinary
<1>3. TableOK(fat) /\ TabDom(fat) /\ DatDom(data)
  <2>1. fat \in [Cluster -> 0..BAD] /\ fat[0] # 0 /\ fat[1] # 0 /\ TableOK(fat) /\ data = [c \in Cluster |-> data[c]]
    BY <1>1, <1>2 DEF OrdinaryTable
  <2>2. fat \in [Cluster -> Nat]
    BY <2>1, Bounds
  <2> QED BY <2>1, <2>2 DEF TabDom, DatDom
<1>4. IsHead(fat, 2)
  <2>1. -1 \in Homes(Dir) /\ Start(Dir, -1) = 2
    BY DEF Homes, Start
  <2>2. Cl(2)
    BY Bounds DEF Cl
  <2> QED BY <1>1, <1>2, <2>1, <2>2 DEF OrdinaryChains
<1>5. FilesOf(Dir) = Groups(Dir)
  <2>1. Slot \in SUBSET Nat
    BY <1>3, <1>4, SlotIs
  <2>2. \A g \in Groups(Dir) : g \in Slot
    BY <1>3, <1>4, GroupInside DEF Groups
  <2> QED BY <2>1, <2>2 DEF FilesOf, Groups
<1>6. DirShape(Dir)
  <2>1. PICK N \in Slot :
          /\ Regular(Dir, N)
          /\ \A o \in N..(C * LAST) : Dir[o].k \in {"empty", "byte"} /\ (Dir[o].k = "byte" => Dir[o + 1].k = "byte")
    BY <1>2 DEF OrdinarySlots
  <2>2. /\ C * LAST \in Nat /\ N \in Nat
        /\ \A o \in Nat : o + 1 >= C * LAST => Dir[o].k = "byte"
    BY <1>3, <1>4, SlotIs
  <2>3. ASSUME NEW o \in Nat, o >= N
        PROVE  Dir[o].k \in {"empty", "byte"} /\ (Dir[o].k = "byte" => Dir[o + 1].k = "byte")
    <3>1. CASE o <= C * LAST
      <4>1. o \in N..(C * LAST)
        BY <2>2, <2>3, <3>1
      <4> QED BY <2>1, <4>1
    <3>2. CASE o > C * LAST
      <4>1. o + 1 \in Nat /\ o + 1 >= C * LAST /\ (o + 1) + 1 >= C * LAST
        BY <2>2, <3>2
      <4> QED BY <2>2, <4>1
    <3> QED BY <2>2, <3>1, <3>2
  <2> QED BY <2>1, <2>2, <2>3 DEF DirShape, Free
<1>7. NamesOK(load, Dir)
  BY <1>2, <1>5 DEF OrdinaryNames, NamesOK
<1> QED BY <1>3, <1>4, <1>5, <1>6, <1>7

\* where the clusters are counted of the root, -1, and of a file of the volume
Home(g) == IF g = -1 THEN Ie(Root) ELSE Ig(g)
LEMMA InitHeads ==
  ASSUME Init, Ordinary(load)
  PROVE  LET h == Heads(ent, todo, Dir) IN
         /\ \A g \in Homes(Dir) : Home(g) \in Idx /\ h[Home(g)] = Start(Dir, g)
         /\ \A x \in Idx : h[x] = 0 \/ \E g \in Homes(Dir) : x = Home(g)
<1>1. /\ todo = [p \in Procs |-> <<>>] /\ Root \in Entry /\ ent[Root].first = 2 /\ ent[Root].valid = 1
      /\ \A e \in File : ent[e].valid = 0 /\ ent[e].ref = 0 /\ ent[e].first = 0
  BY InitIs
<1>2. \A p \in Procs : todo[p] = <<>>
  BY <1>1
<1>3. \A e : ~Cut(todo, e)
  BY <1>2, NothingToDo DEF Cut
<1>4. \A e \in File : ~Bound(ent, todo, e) /\ ~InMem(ent[e])
  BY <1>1, <1>2, NothingToDo DEF Bound, Made, InMem
<1>5. EntryHead(ent, todo, Root) = 2 /\ \A e \in Entry : e # Root => EntryHead(ent, todo, e) = 0
  <2>1. EntryHead(ent, todo, Root) = 2
    BY <1>1, <1>3 DEF EntryHead, InMem
  <2>2. \A e \in Entry : e # Root => e \in File
    BY DEF File
  <2> QED BY <1>4, <2>1, <2>2 DEF EntryHead
<1>6. \A p \in Procs : Held(todo[p]) = 0
  BY <1>2, NothingToDo
<1>7. FilesOf(Dir) = Groups(Dir) /\ \A g \in Groups(Dir) : g \in Nat
  BY InitTable DEF Groups
<1>8. \A g \in Nat : DiskHead(ent, todo, Dir, g) = IF g \in Groups(Dir) THEN GInfo(Dir, g).first ELSE 0
  BY <1>4 DEF DiskHead, OnDisk
<1> DEFINE h == Heads(ent, todo, Dir)
<1>9. /\ \A e \in Entry : h[Ie(e)] = EntryHead(ent, todo, e)
      /\ \A p \in Procs : h[Ip(p)] = Held(todo[p])
      /\ \A g \in Nat : h[Ig(g)] = DiskHead(ent, todo, Dir, g)
  BY HeadsIs
<1> HIDE DEF h
<1>10. ASSUME NEW g \in Homes(Dir) PROVE Home(g) \in Idx /\ h[Home(g)] = Start(Dir, g)
  <2>1. CASE g = -1
    <3>1. Home(g) = Ie(Root) /\ Start(Dir, g) = 2
      BY <2>1 DEF Home, Start
    <3> QED BY <1>1, <1>5, <1>9, <3>1, IdxIs
  <2>2. CASE g # -1
    <3>1. g \in Groups(Dir) /\ g \in Nat
      BY <1>7, <2>2 DEF Homes
    <3>2. Home(g) = Ig(g) /\ Start(Dir, g) = GInfo(Dir, g).first
      BY <2>2 DEF Home, Start
    <3> QED BY <1>8, <1>9, <3>1, <3>2, IdxIs
  <2> QED BY <2>1, <2>2
<1>11. ASSUME NEW x \in Idx, h[x] # 0 PROVE \E g \in Homes(Dir) : x = Home(g)
  <2>1. CASE \E e \in Entry : x = Ie(e)
    <3>1. x = Ie(Root)
      BY <1>5, <1>9, <1>11, <2>1
    <3> QED BY <3>1 DEF Home, Homes
  <2>2. CASE \E p \in Procs : x = Ip(p)
    BY <1>6, <1>9, <1>11, <2>2
  <2>3. CASE \E g \in Nat : x = Ig(g)
    <3>1. PICK g \in Nat : x = Ig(g)
      BY <2>3
    <3>2. g \in Groups(Dir) /\ g # -1
      BY <1>8, <1>9, <1>11, <3>1
    <3>3. g \in Homes(Dir) /\ x = Home(g)
      BY <1>7, <3>1, <3>2 DEF Homes, Home
    <3> QED BY <3>3
  <2> QED BY <2>1, <2>2, <2>3, IdxIs
<1> QED BY <1>10, <1>11 DEF h

LEMMA InitFat == ASSUME Init, Ordinary(load) PROVE FatOK(load, Heads(ent, todo, Dir), fat)
<1> DEFINE h == Heads(ent, todo, Dir)
<1>1. fat = load.fat /\ Dir = RootDir(load)
  BY InitIs
<1>2. OrdinaryChains(load, Dir) /\ OrdinaryNames(load, Dir)
  BY <1>1 DEF Ordinary
<1>3. TableOK(fat) /\ TabDom(fat) /\ Marks(fat, load.fat) /\ FilesOf(Dir) = Groups(Dir)
  BY <1>1, InitTable DEF Marks
<1>4. /\ \A g \in Homes(Dir) : Home(g) \in Idx /\ h[Home(g)] = Start(Dir, g)
      /\ \A x \in Idx : h[x] = 0 \/ \E g \in Homes(Dir) : x = Home(g)
  BY InitHeads
<1> HIDE DEF h
<1>5. \A x \in Idx : Cl(h[x]) => \E g \in Homes(Dir) : x = Home(g) /\ h[x] = Start(Dir, g)
  BY <1>4, ClNot
<1>6. HeadsOK(h, fat)
  <2> SUFFICES ASSUME NEW x \in Idx, NEW y \in Idx, Cl(h[x])
               PROVE  IsHead(fat, h[x]) /\ (h[x] = h[y] => x = y)
    BY DEF HeadsOK
  <2>1. PICK g \in Homes(Dir) : x = Home(g) /\ h[x] = Start(Dir, g)
    BY <1>5
  <2>2. IsHead(fat, h[x])
    BY <1>1, <1>2, <2>1 DEF OrdinaryChains
  <2>3. ASSUME h[x] = h[y] PROVE x = y
    <3>1. PICK j \in Homes(Dir) : y = Home(j) /\ h[y] = Start(Dir, j)
      BY <1>5, <2>3
    <3>2. g = j
      BY <1>2, <2>1, <2>3, <3>1 DEF OrdinaryChains
    <3> QED BY <2>1, <3>1, <3>2
  <2> QED BY <2>2, <2>3
<1>7. NumsOK(h)
  <2> SUFFICES ASSUME NEW x \in Idx PROVE h[x] \in {0, EOC} \cup (2..LAST)
    BY DEF NumsOK
  <2>1. ASSUME NEW g \in Homes(Dir) PROVE Start(Dir, g) \in {0, EOC} \cup (2..LAST)
    <3>1. CASE g = -1
      BY <3>1, Bounds DEF Start
    <3>2. CASE g # -1
      <4>1. IsShort(GInfo(Dir, g))
        BY <1>2, <3>2 DEF OrdinaryNames, Homes
      <4> QED BY <3>2, <4>1 DEF IsShort, Start, Cl
    <3> QED BY <3>1, <3>2
  <2> QED BY <1>4, <2>1
<1>8. Covered(h, fat)
  <2> SUFFICES ASSUME NEW c \in 2..LAST, fat[c] # 0, fat[c] # BAD
               PROVE  \E x \in Idx, n \in Nat : Cl(h[x]) /\ To(fat, h[x], n) = c
    BY DEF Covered
  <2>1. PICK g \in Homes(Dir), n \in 0..LAST : Cl(Start(Dir, g)) /\ To(fat, Start(Dir, g), n) = c
    BY <1>1, <1>2 DEF OrdinaryChains
  <2> QED BY <1>4, <2>1, Bounds
<1>9. FatOK(load, h, fat)
  BY <1>3, <1>6, <1>7, <1>8 DEF FatOK
<1> QED BY <1>9 DEF h

LEMMA InitDisk == ASSUME Init, Ordinary(load) PROVE Disk
<1>1. /\ TableOK(fat) /\ DatDom(data) /\ IsHead(fat, 2) /\ DirShape(Dir) /\ NamesOK(load, Dir)
      /\ FatOK(load, Heads(ent, todo, Dir), fat)
  BY InitTable, InitFat
<1>2. /\ todo = [p \in Procs |-> <<>>] /\ Root \in Entry /\ ent[Root].first = 2 /\ ent[Root].valid = 1
      /\ \A e \in Entry : ent[e].size = 0 /\ ent[e].off = 0 /\ ent[e].cnt = 0 /\ ent[e].cur = ent[e].first
      /\ \A e \in File : ent[e].valid = 0 /\ ent[e].ref = 0 /\ ent[e].first = 0
  BY InitIs
<1>3. \A p \in Procs : todo[p] = <<>>
  BY <1>2
<1>4. \A e \in Entry : e # Root => e \in File
  BY DEF File
<1>5. CurOK(ent, todo, fat)
  <2> SUFFICES ASSUME NEW e \in Entry, InMem(ent[e]) PROVE At1(fat, ent[e].first, ent[e].cur, ent[e].cnt)
    BY DEF CurOK
  <2>1. e = Root
    BY <1>2, <1>4 DEF InMem
  <2>2. ent[e].first = 2 /\ ent[e].cur = 2 /\ ent[e].cnt = 0
    BY <1>2, <2>1
  <2>3. At1(fat, 2, 2, 0)
    BY <1>1, ToIs DEF At1, IsHead
  <2> QED BY <2>2, <2>3
<1>6. \A p \in Procs : LocalOK(todo[p], ent, fat, data)
  BY <1>3, NothingToDo
<1>7. Sizes(ent) /\ RootOK(ent)
  <2>1. Cl(2)
    BY Bounds DEF Cl
  <2>2. \A e \in Entry : ent[e].first = 0 \/ ent[e].first = 2
    BY <1>2, <1>4
  <2> QED BY <1>2, <2>1, <2>2 DEF Sizes, RootOK
<1>8. \A p \in Procs, e \in File : ~Creating(todo[p], e)
  BY <1>3, NothingToDo
<1>9. DirOK(ent, todo, Dir)
  BY <1>1, <1>8 DEF DirOK
<1>10. CacheOK(ent, todo, Dir)
  <2>1. \A e \in File : ~Bound(ent, todo, e) /\ ent[e].valid # 1
    BY <1>2, <1>8 DEF Bound, Made
  <2> QED BY <2>1 DEF CacheOK
<1> QED BY <1>1, <1>5, <1>6, <1>7, <1>9, <1>10 DEF Disk, DiskOK

-----------------------------------------------------------------------------
(***************************************************************************)
(* The theorems: for every number of processes, entries of the cache and   *)
(* clusters, every FAT, every directory and every list of calls that       *)
(* Ordinary admits, whatever fails on the way.                             *)
(***************************************************************************)
FatInv == Ordinary(load) => FInv
LEMMA InitInv == ASSUME Init PROVE FatInv
  BY InitCtl, InitDisk DEF FatInv, FInv
LEMMA LoadStays == ASSUME [Next]_vars PROVE load' = load
<1>1. ASSUME NEW p \in Procs,
             \/ CallName(p) \/ CallWrite(p) \/ CallRead(p) \/ CallClose(p)
             \/ Elock(p) \/ Eunlock(p) \/ Lookup(p) \/ Emake(p) \/ Valid(p) \/ Opened(p) \/ SetFile(p)
      PROVE  load' = load
  BY <1>1, Zenon DEF CallName, CallWrite, CallRead, CallClose, Elock, Eunlock, Lookup, Emake, Valid, Opened, SetFile
<1>2. ASSUME NEW p \in Procs,
             \/ Ewrite(p) \/ StoreStep(p) \/ Alloc(p) \/ Link(p) \/ Wrote(p) \/ Etrunc(p)
             \/ Eput(p) \/ Drop(p) \/ Eupdate(p) \/ Remove(p) \/ Eremove(p) \/ Target(p) \/ Renamed(p)
      PROVE  load' = load
  BY <1>2, Zenon DEF Ewrite, StoreStep, Alloc, Link, Wrote, Etrunc, Eput, Drop, Eupdate, Remove, Eremove, Target, Renamed
<1>3. CASE UNCHANGED vars
  BY <1>3 DEF vars
<1> QED BY <1>1, <1>2, <1>3 DEF Next
LEMMA StepInv == ASSUME FatInv, [Next]_vars PROVE FatInv'
<1>1. load' = load
  BY LoadStays
<1>2. Ordinary(load)' => Ordinary(load)
  BY <1>1
<1> QED BY <1>2, FStep DEF FatInv

(* The inductive invariant holds: what the lists of the processes say of   *)
(* locks, references and the calls' places, the chains of the FAT and      *)
(* their heads, the slots of the directory, and the entries of ecache      *)
(* against them, through every step of fat32.c and of its callers.         *)
THEOREM FatInvariance == Spec => []FatInv
<1>1. Init => FatInv
  BY InitInv
<1>2. FatInv /\ [Next]_vars => FatInv'
  BY StepInv
<1> QED BY <1>1, <1>2, PTL DEF Spec

(* However alloc_clus(), reloc_clus(), ewrite() and etrunc() of different  *)
(* files interleave, chains end, hold no free cluster, and never meet.     *)
THEOREM FatChainsDisjoint == Spec => [](Ordinary(load) => ChainsDisjoint)
<1>1. FatInv => (Ordinary(load) => ChainsDisjoint)
  BY ChainsFollow DEF FatInv
<1> QED BY <1>1, FatInvariance, PTL

(* emake(), eupdate() and eremove() keep the slots of the directory whole  *)
(* and the names in it distinct, an entry of ecache knows its slots, and   *)
(* once it is closed the disk has its first cluster and its size.          *)
THEOREM FatDirectoryRight == Spec => [](Ordinary(load) => DirectoryRight)
<1>1. FatInv => (Ordinary(load) => DirectoryRight)
  BY DirectoryFollows DEF FatInv
<1> QED BY <1>1, FatInvariance, PTL

(* When no call is under way every allocated cluster is in the chain of a  *)
(* file or directory: no failing step of ewrite(), eput(), create() or     *)
(* sys_remove() leaks one.                                                 *)
THEOREM FatNoClusterLost == Spec => [](Ordinary(load) => NoClusterLost)
<1>1. FatInv => (Ordinary(load) => NoClusterLost)
  BY NoneLost DEF FatInv
<1> QED BY <1>1, FatInvariance, PTL

(* reloc_clus() goes on from cur_clus, and that one is, after clus_cnt     *)
(* steps, in the chain of the entry itself, whatever was truncated, made   *)
(* anew or read by another process since; but while etrunc() has the chain *)
(* off the entry.                                                          *)
THEOREM FatCursors == Spec => [](Ordinary(load) => CurOK(ent, todo, fat))
<1>1. FatInv => (Ordinary(load) => CurOK(ent, todo, fat))
  BY DiskParts DEF FatInv, FInv, Disk
<1> QED BY <1>1, FatInvariance, PTL
=============================================================================
