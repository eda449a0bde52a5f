-------------------------------- MODULE Memory --------------------------------
(***************************************************************************)
(* Physical pages, page tables and the system calls that change them:      *)
(* kalloc.c, vm.c, exec.c and the memory part of proc.c.                   *)
(*                                                                         *)
(* Memory is a record m: the free pages, the contents of the pages used as *)
(* page tables, `left' (how many more calls of kalloc() succeed) and two   *)
(* marks, for a panic and for a page freed twice.  Every kernel function   *)
(* is an operator from m to a record [m, r] or to m.  A system call runs   *)
(* alone: what other processes do meanwhile shows only in how many pages   *)
(* they leave, so `left' is any number up to the pages that are free.      *)
(***************************************************************************)
EXTENDS Integers, FiniteSets, SequencesExt

CONSTANTS
  NPAGE,       \* pages of physical memory between kernel_end and PHYSTOP
  PTES,        \* entries of a page table page (512)
  PGSIZE,      \* bytes of a page (4096)
  NPROC,       \* slots of the process table
  MaxBytes,    \* bound on the size of a process, in bytes
  MaxLeft,     \* bound on the pages a call may take
  UMod,        \* values of a uint (2^32)
  Images,      \* the files and arguments of exec()
  Grow         \* the arguments of sbrk()

ASSUME MemoryAssumption ==
  /\ NPAGE \in Nat /\ PTES \in Nat \ {0, 1, 2, 3} /\ PGSIZE \in Nat \ {0}
  /\ NPROC \in Nat \ {0} /\ MaxBytes \in Nat /\ Grow \subseteq Int

VARIABLES mem, proc, kernel_pagetable, last
vars == <<mem, proc, kernel_pagetable, last>>

Page == 1..NPAGE
NULL == 0

(***************************************************************************)
(* Virtual addresses are page numbers.  PX(level, va) is the index into    *)
(* the table of a level.  The kernel's text and data, the kernel stack and *)
(* the trampoline have a top level entry each; user memory has those below *)
(* PX(2, MAXUVA).                                                          *)
(***************************************************************************)
PX(level, va) == (va \div (PTES ^ level)) % PTES
MAXUVA     == PTES * PTES
KERNBASE   == MAXUVA
VKSTACK    == 2 * PTES * PTES
TRAMPOLINE == PTES ^ 3 - 1
TRAPFRAME  == TRAMPOLINE - 1
Wrap(n) == n % UMod
PGROUNDUP(sz) == (sz + PGSIZE - 1) \div PGSIZE     \* in pages

\* An entry: valid, leaf (one of R, W, X), accessible to the user, target.
\* Pages of the kernel image are page NULL: kalloc() never hands them out.
PTE     == [v : BOOLEAN, leaf : BOOLEAN, u : BOOLEAN, pa : Page \cup {NULL}]
NoPte   == [v |-> FALSE, leaf |-> FALSE, u |-> FALSE, pa |-> NULL]
Leaf(pa, u) == [v |-> TRUE, leaf |-> TRUE, u |-> u, pa |-> pa]
Inner(pa) == [v |-> TRUE, leaf |-> FALSE, u |-> FALSE, pa |-> pa]
Zero    == [i \in 0..PTES-1 |-> NoPte]
Junk    == [i \in 0..PTES-1 |-> Leaf(NULL, FALSE)]
Dead(m) == m.panic # "none" \/ m.twice # {}
panic(m, why) == [m EXCEPT !.panic = why]

-----------------------------------------------------------------------------
(* kalloc.c *)
kalloc(m) ==
  IF m.left = 0 \/ m.free = {} \/ Dead(m) THEN [m |-> m, r |-> NULL]
  ELSE LET p == CHOOSE q \in m.free : \A x \in m.free : q <= x
       IN [m |-> [m EXCEPT !.free = @ \ {p}, !.left = @ - 1, !.tab[p] = Junk], r |-> p]

kfree(m, pa) ==
  IF Dead(m) THEN m
  ELSE IF pa = NULL THEN panic(m, "kfree")
  ELSE [m EXCEPT !.twice = @ \cup (m.free \cap {pa}),
                 !.free = @ \cup {pa}, !.tab[pa] = Junk]

memset0(m, pa) == IF Dead(m) THEN m ELSE [m EXCEPT !.tab[pa] = Zero]

-----------------------------------------------------------------------------
(* vm.c: walk() and what is built on it *)
\* k is the page for a missing table
Attach(x, i, k) ==
  IF k.r = NULL THEN k
  ELSE [m |-> [memset0(k.m, k.r) EXCEPT !.tab[x.r][i] = Inner(k.r)], r |-> k.r]
Down(x, level, va, alloc) ==
  IF x.r = NULL THEN x
  ELSE LET e == x.m.tab[x.r][PX(level, va)] IN
       IF e.v THEN [x EXCEPT !.r = e.pa]
       ELSE IF ~alloc THEN [x EXCEPT !.r = NULL]
       ELSE Attach(x, PX(level, va), kalloc(x.m))

\* the level 0 table that holds the entry of va
walk(m, pt, va, alloc) == Down(Down([m |-> m, r |-> pt], 2, va, alloc), 1, va, alloc)

Entry(m, table, va) == IF table = NULL THEN NoPte ELSE m.tab[table][PX(0, va)]
pteOf(m, pt, va) == Entry(m, walk(m, pt, va, FALSE).r, va)

\* NULL when va is not mapped for the user
walkaddr(m, pt, va) ==
  LET e == pteOf(m, pt, va) IN IF va <= TRAMPOLINE /\ e.v /\ e.u THEN e.pa ELSE NULL

\* x is what walk() returned
SetPte(x, va, pte) ==
  IF x.r = NULL THEN [m |-> x.m, r |-> -1]
  ELSE IF x.m.tab[x.r][PX(0, va)].v THEN [m |-> panic(x.m, "remap"), r |-> 0]
  ELSE [m |-> [x.m EXCEPT !.tab[x.r][PX(0, va)] = pte], r |-> 0]
\* one page; r = 0 or -1
mappages(m, pt, va, pa, u) == SetPte(walk(m, pt, va, TRUE), va, Leaf(pa, u))

Upto(first, n) == [i \in 1..n |-> first + i - 1]

Unmap(m, table, va, do_free) ==
  LET e == Entry(m, table, va) IN
  IF Dead(m) THEN m
  ELSE IF table = NULL THEN panic(m, "vmunmap: walk")
  ELSE IF ~e.v THEN panic(m, "vmunmap: not mapped")
  ELSE IF ~e.leaf THEN panic(m, "vmunmap: not a leaf")
  ELSE [(IF do_free THEN kfree(m, e.pa) ELSE m) EXCEPT !.tab[table][PX(0, va)] = NoPte]
vmunmap(m, pt, va, npages, do_free) ==
  FoldLeft(LAMBDA mm, a : Unmap(mm, walk(mm, pt, a, FALSE).r, a, do_free), m, Upto(va, npages))

Cleared(k) == IF k.r = NULL THEN k ELSE [k EXCEPT !.m = memset0(k.m, k.r)]
uvmcreate(m) == Cleared(kalloc(m))

\* kvmmap() of one page into the kernel's root, r
kvmmap(m, r, va) ==
  LET mapped(x) == IF x.r # 0 THEN panic(x.m, "kvmmap") ELSE x.m
  IN mapped(mappages(m, r, va, NULL, FALSE))
\* kvminit(): the kernel image at KERNBASE and the trampoline
KernelRoot(k) == [k EXCEPT !.m = kvmmap(kvmmap(k.m, k.r, KERNBASE), k.r, TRAMPOLINE)]
kvminit(m) == KernelRoot(uvmcreate(m))

uvmdealloc_KeepsKernelMap(m, pt, kpt, oldsz, newsz) ==
  IF newsz >= oldsz THEN [m |-> m, r |-> oldsz]
  ELSE [m |-> vmunmap(m, pt, PGROUNDUP(newsz), PGROUNDUP(oldsz) - PGROUNDUP(newsz), TRUE),
        r |-> newsz]
uvmdealloc(m, pt, kpt, oldsz, newsz) ==
  LET npages == PGROUNDUP(oldsz) - PGROUNDUP(newsz) IN
  IF newsz >= oldsz THEN [m |-> m, r |-> oldsz]
  ELSE [m |-> vmunmap(vmunmap(m, kpt, PGROUNDUP(newsz), npages, FALSE),
                      pt, PGROUNDUP(newsz), npages, TRUE), r |-> newsz]

\* x = [m, ok]: the loop of uvmalloc() goes on while ok.  Page a was allocated (k),
\* entered in the user's table (b) and in the kernel's (c).
Grown(c, pt, kpt, first, a) ==
  IF c.r = 0 THEN [m |-> c.m, ok |-> TRUE]
  ELSE [m |-> vmunmap(vmunmap(c.m, pt, first, a - first + 1, TRUE),
                      kpt, first, a - first, FALSE), ok |-> FALSE]
GrowUndo(m, pt, kpt, first, a) ==
  [m |-> uvmdealloc(m, pt, kpt, a * PGSIZE, first * PGSIZE).m, ok |-> FALSE]
GrowKernel(b, k, pt, kpt, first, a) ==
  IF b.r # 0 THEN GrowUndo(kfree(b.m, k.r), pt, kpt, first, a)
  ELSE Grown(mappages(b.m, kpt, a, k.r, FALSE), pt, kpt, first, a)
GrowUser_NoUndo(k, pt, kpt, first, a) ==
  IF k.r = NULL THEN [m |-> k.m, ok |-> FALSE]
  ELSE GrowKernel(mappages(memset0(k.m, k.r), pt, a, k.r, TRUE), k, pt, kpt, first, a)
GrowUser(k, pt, kpt, first, a) ==
  IF k.r = NULL THEN GrowUndo(k.m, pt, kpt, first, a)
  ELSE GrowKernel(mappages(memset0(k.m, k.r), pt, a, k.r, TRUE), k, pt, kpt, first, a)
GrowPage(x, pt, kpt, first, a) ==
  IF ~x.ok THEN x ELSE GrowUser(kalloc(x.m), pt, kpt, first, a)

uvmalloc(m, pt, kpt, oldsz, newsz) ==
  LET first == PGROUNDUP(oldsz)
      result(x) == [m |-> x.m, r |-> IF x.ok THEN newsz ELSE 0]
  IN IF newsz < oldsz THEN [m |-> m, r |-> oldsz]
     ELSE result(FoldLeft(LAMBDA y, a : GrowPage(y, pt, kpt, first, a),
                          [m |-> m, ok |-> TRUE], Upto(first, PGROUNDUP(newsz) - first)))

\* freewalk(): FreeTable(Below, m, pt) frees pt after what Below frees; a leaf panics
FreeTable(Below(_, _), m, pt) ==
  LET entry(mm, i) == LET e == mm.tab[pt][i] IN
        IF Dead(mm) \/ ~e.v THEN mm
        ELSE IF e.leaf THEN panic(mm, "freewalk: leaf")
        ELSE [Below(mm, e.pa) EXCEPT !.tab[pt][i] = NoPte]
  IN kfree(FoldLeft(entry, m, Upto(0, PTES)), pt)
freewalk(m, pt) ==
  LET level0(mm, t) == FreeTable(LAMBDA a, b : a, mm, t)
      level1(mm, t) == FreeTable(level0, mm, t)
  IN FreeTable(level1, m, pt)

uvmfree(m, pt, sz) == freewalk(vmunmap(m, pt, 0, PGROUNDUP(sz), TRUE), pt)

\* kfreewalk(): the same without the physical pages; a leaf ends the loop
KFreeTable(Below(_, _), m, kpt) ==
  LET entry(x, i) == LET e == x.m.tab[kpt][i] IN
        IF x.stop \/ ~e.v THEN x
        ELSE IF e.leaf THEN [x EXCEPT !.stop = TRUE]
        ELSE [x EXCEPT !.m = [Below(x.m, e.pa) EXCEPT !.tab[kpt][i] = NoPte]]
  IN kfree(FoldLeft(entry, [m |-> m, stop |-> FALSE], Upto(0, PTES)).m, kpt)
kfreewalk(m, kpt) ==      \* of a level 1 table
  KFreeTable(LAMBDA mm, t : KFreeTable(LAMBDA a, b : a, mm, t), m, kpt)

kvmfreeusr(m, kpt) ==
  FoldLeft(LAMBDA mm, i :
             LET e == mm.tab[kpt][i] IN
             IF ~e.v \/ e.leaf THEN mm
             ELSE [kfreewalk(mm, e.pa) EXCEPT !.tab[kpt][i] = NoPte],
           m, Upto(0, PX(2, MAXUVA)))

FreeStackTable(m, kpt) ==
  LET e == m.tab[kpt][PX(2, VKSTACK)] IN IF e.v /\ ~e.leaf THEN kfreewalk(m, e.pa) ELSE m
FreeRoot(m, kpt) == IF Dead(m) THEN m ELSE kfree(kvmfreeusr(m, kpt), kpt)
kvmfree(m, kpt, stack_free) ==
  FreeRoot(IF stack_free THEN FreeStackTable(vmunmap(m, kpt, VKSTACK, 1, TRUE), kpt) ELSE m, kpt)

\* with the copied root k, the stack page s, and the result x of mapping it
KStackMapped(x, k) ==
  IF x.r # 0 THEN [m |-> kvmfree(x.m, k.r, TRUE), r |-> NULL] ELSE [m |-> x.m, r |-> k.r]
KStack(s, k) ==
  KStackMapped(IF s.r = NULL THEN [m |-> s.m, r |-> -1] ELSE mappages(s.m, k.r, VKSTACK, s.r, FALSE), k)
KRoot(k, kernel) ==
  IF k.r = NULL THEN k
  ELSE KStack(kalloc([k.m EXCEPT !.tab[k.r] = k.m.tab[kernel]]), k)
proc_kpagetable(m, kernel) == KRoot(kalloc(m), kernel)

\* x = [m, i, ki, ok]: the loop of uvmcopy() over the pages of the parent
\* entered in the child's table (b) and in its kernel's table (c)
Copied_CountsAfterBoth(c, x) ==
  IF c.r # 0 THEN [x EXCEPT !.m = c.m, !.ok = FALSE]
  ELSE [x EXCEPT !.m = c.m, !.i = @ + 1, !.ki = @ + 1]
Copied(c, x) ==
  IF c.r # 0 THEN [x EXCEPT !.m = c.m, !.i = @ + 1, !.ok = FALSE]
  ELSE [x EXCEPT !.m = c.m, !.i = @ + 1, !.ki = @ + 1]
CopyKernel(b, k, x, knew, va) ==
  IF b.r # 0 THEN [x EXCEPT !.m = kfree(b.m, k.r), !.ok = FALSE]
  ELSE Copied(mappages(b.m, knew, va, k.r, FALSE), x)
CopyUser(k, e, x, new, knew, va) ==
  IF k.r = NULL THEN [x EXCEPT !.ok = FALSE]
  ELSE CopyKernel(mappages([k.m EXCEPT !.tab[k.r] = k.m.tab[e.pa]], new, va, k.r, e.u),
                  k, x, knew, va)
CopyPage(x, e, new, knew, va) ==
  IF ~x.ok THEN x
  ELSE IF ~e.v THEN [x EXCEPT !.m = panic(x.m, "uvmcopy"), !.ok = FALSE]
  ELSE CopyUser(kalloc(x.m), e, x, new, knew, va)

uvmcopy(m, old, new, knew, sz) ==
  LET result(x) ==
        IF x.ok THEN [m |-> x.m, r |-> 0]
        ELSE [m |-> vmunmap(vmunmap(x.m, knew, 0, x.ki, FALSE), new, 0, x.i, TRUE), r |-> -1]
  IN result(FoldLeft(LAMBDA y, va : CopyPage(y, pteOf(y.m, old, va), new, knew, va),
                     [m |-> m, i |-> 0, ki |-> 0, ok |-> TRUE], Upto(0, PGROUNDUP(sz))))

uvmclear(m, pt, va) ==
  LET x == walk(m, pt, va, FALSE) IN
  IF x.r = NULL THEN panic(m, "uvmclear") ELSE [m EXCEPT !.tab[x.r][PX(0, va)].u = FALSE]

\* copyout2(), copyin2(): may len bytes at byte address va be accessed directly?
copy2(sz, va, len) == ~(va + len > sz \/ va >= sz)
\* copyout(), copyin(): page by page through the user's table
copy(m, pt, va, len) ==
  \A b \in va..(va + len - 1) : walkaddr(m, pt, b \div PGSIZE) # NULL

-----------------------------------------------------------------------------
(* proc.c *)
\* with the root k, the trampoline (a) and the trapframe (b) entered
FrameMapped(b, k) ==
  IF b.r # 0 THEN [m |-> uvmfree(vmunmap(b.m, k.r, TRAMPOLINE, 1, FALSE), k.r, 0), r |-> NULL]
  ELSE [m |-> b.m, r |-> k.r]
TrampolineMapped(a, k, trapframe) ==
  IF a.r # 0 THEN [m |-> uvmfree(a.m, k.r, 0), r |-> NULL]
  ELSE FrameMapped(mappages(a.m, k.r, TRAPFRAME, trapframe, FALSE), k)
UserRoot(k, trapframe) ==
  IF k.r = NULL THEN k
  ELSE TrampolineMapped(mappages(k.m, k.r, TRAMPOLINE, NULL, FALSE), k, trapframe)
proc_pagetable(m, trapframe) == UserRoot(uvmcreate(m), trapframe)

proc_freepagetable(m, pt, sz) ==
  uvmfree(vmunmap(vmunmap(m, pt, TRAMPOLINE, 1, FALSE), pt, TRAPFRAME, 1, FALSE), pt, sz)

Proc == [state : {"UNUSED", "USED", "ZOMBIE"}, trapframe : Page \cup {NULL},
         pagetable : Page \cup {NULL}, kpagetable : Page \cup {NULL}, sz : 0..MaxBytes]
Unused == [state |-> "UNUSED", trapframe |-> NULL, pagetable |-> NULL,
           kpagetable |-> NULL, sz |-> 0]

freeproc(m, p) ==
  LET a == IF p.trapframe # NULL THEN kfree(m, p.trapframe) ELSE m
      pagetable(b) == IF p.pagetable # NULL THEN proc_freepagetable(b, p.pagetable, p.sz) ELSE b
  IN pagetable(IF p.kpagetable # NULL THEN kvmfree(a, p.kpagetable, TRUE) ELSE a)

\* r = the process, still UNUSED when an allocation failed: of the trapframe (t), the
\* user's table (u) or the kernel's (k)
ProcTables(k, p) ==
  IF k.r = NULL THEN [m |-> freeproc(k.m, p), r |-> Unused]
  ELSE [m |-> k.m, r |-> [p EXCEPT !.kpagetable = k.r, !.state = "USED"]]
ProcTable(u, p, kernel) ==
  IF u.r = NULL THEN [m |-> freeproc(u.m, p), r |-> Unused]
  ELSE ProcTables(proc_kpagetable(u.m, kernel), [p EXCEPT !.pagetable = u.r])
ProcFrame(t, kernel) ==
  IF t.r = NULL THEN [m |-> t.m, r |-> Unused]
  ELSE ProcTable(proc_pagetable(t.m, t.r), [Unused EXCEPT !.trapframe = t.r], kernel)
allocproc(m, kernel) == ProcFrame(kalloc(m), kernel)

\* userinit() and uvminit(): the first process, one page at address 0
FirstPage(k, p) ==
  [m |-> mappages(mappages(k.m, p.pagetable, 0, k.r, TRUE).m, p.kpagetable, 0, k.r, FALSE).m,
   r |-> [p EXCEPT !.sz = PGSIZE]]
FirstProc(p) == FirstPage(uvmcreate(p.m), p.r)
userinit(m, kernel) == FirstProc(allocproc(m, kernel))

growproc(m, p, n) ==
  LET grown(g) == IF g.r = 0 THEN [m |-> g.m, p |-> p, r |-> -1]
                  ELSE [m |-> g.m, p |-> [p EXCEPT !.sz = g.r], r |-> 0]
      shrunk(d) == [m |-> d.m, p |-> [p EXCEPT !.sz = d.r], r |-> 0]
  IN IF n > 0 THEN grown(uvmalloc(m, p.pagetable, p.kpagetable, p.sz, p.sz + n))
     ELSE IF n < 0
       THEN shrunk(uvmdealloc(m, p.pagetable, p.kpagetable, p.sz, Wrap(p.sz + n)))
     ELSE [m |-> m, p |-> p, r |-> 0]

\* with the child np, and the result c of copying the memory
ForkCopied(c, np, p) ==
  IF c.r < 0 THEN [m |-> freeproc(c.m, np), p |-> Unused, r |-> -1]
  ELSE [m |-> c.m, p |-> [np EXCEPT !.sz = p.sz], r |-> 0]
ForkProc(np, p) ==
  IF np.r.state = "UNUSED" THEN [m |-> np.m, p |-> Unused, r |-> -1]
  ELSE ForkCopied(uvmcopy(np.m, p.pagetable, np.r.pagetable, np.r.kpagetable, p.sz), np.r, p)
fork(m, p, kernel) == ForkProc(allocproc(m, kernel), p)

-----------------------------------------------------------------------------
(* exec.c.  A program header is [load, vaddr, memsz, filesz, ok]: is it    *)
(* ELF_PROG_LOAD, where the segment goes (bytes), its sizes, and whether   *)
(* the eread()s of the header and of its bytes succeed.                    *)
\* g is what uvmalloc() returned for the segment
Segment(g, x, pt, ph) ==
  LET mapped == \A a \in 0..PGROUNDUP(ph.filesz) - 1 :
                   walkaddr(g.m, pt, ph.vaddr \div PGSIZE + a) # NULL
      stop(m, sz) == [m |-> m, sz |-> sz, ok |-> FALSE]
  IN IF g.r = 0 THEN stop(g.m, x.sz)
     ELSE IF ph.vaddr % PGSIZE # 0 THEN stop(g.m, g.r)
     ELSE IF ~mapped THEN stop(panic(g.m, "loadseg"), g.r)
     ELSE [m |-> g.m, sz |-> g.r, ok |-> ph.bytes]
\* x = [m, sz, ok]
LoadSegment(x, pt, kpt, ph) ==
  IF ~x.ok THEN x
  ELSE IF ~ph.header THEN [x EXCEPT !.ok = FALSE]
  ELSE IF ~ph.load THEN x
  ELSE IF ph.memsz < ph.filesz THEN [x EXCEPT !.ok = FALSE]
  ELSE Segment(uvmalloc(x.m, pt, kpt, x.sz, ph.vaddr + ph.memsz), x, pt, ph)

\* A call: was the file found and its ELF header good (elf), its program headers
\* (ph), the number of arguments, and do they fit into the stack page (fits)?

\* the label bad, with the new tables and the size of what is mapped in them
Bad(m, p, kpt, pt, sz) ==
  [m |-> kvmfree(IF pt # NULL THEN proc_freepagetable(m, pt, sz) ELSE m, kpt, FALSE),
   p |-> p, r |-> -1]
\* with the stack (s), the segments (l), the user's table (u) and the kernel's (k)
ExecCommit(guarded, p, kpt, pt, sz, image) ==
  IF ~image.fits THEN Bad(guarded, p, kpt, pt, sz)
  ELSE [m |-> kvmfree(proc_freepagetable(guarded, p.pagetable, p.sz), p.kpagetable, FALSE),
        p |-> [p EXCEPT !.pagetable = pt, !.kpagetable = kpt, !.sz = sz], r |-> 0]
ExecStack(s, p, kpt, pt, base, image) ==
  IF s.r = 0 THEN Bad(s.m, p, kpt, pt, base)
  ELSE ExecCommit(uvmclear(s.m, pt, s.r \div PGSIZE - 2), p, kpt, pt, s.r, image)
ExecLoaded(l, p, kpt, pt, image) ==
  LET base == PGROUNDUP(l.sz) * PGSIZE IN
  IF ~l.ok THEN Bad(l.m, p, kpt, pt, l.sz)
  ELSE ExecStack(uvmalloc(l.m, pt, kpt, base, base + 2 * PGSIZE), p, kpt, pt, base, image)
ExecTable(u, p, kpt, image) ==
  IF u.r = NULL THEN Bad(u.m, p, kpt, NULL, 0)
  ELSE ExecLoaded(FoldLeft(LAMBDA x, ph : LoadSegment(x, u.r, kpt, ph),
                           [m |-> u.m, sz |-> 0, ok |-> TRUE], image.ph), p, kpt, u.r, image)
ExecKernel(k, p, image) ==
  LET clean == [k.m EXCEPT !.tab[k.r] =
                  [i \in 0..PTES-1 |-> IF i < PX(2, MAXUVA) THEN NoPte
                                       ELSE k.m.tab[p.kpagetable][i]]]
  IN IF k.r = NULL THEN [m |-> k.m, p |-> p, r |-> -1]
     ELSE IF ~image.elf THEN Bad(clean, p, k.r, NULL, 0)
     ELSE ExecTable(proc_pagetable(clean, p.trapframe), p, k.r, image)
exec(m, p, image) == ExecKernel(kalloc(m), p, image)

\* sys_exec(): a page for each argument, freed on every path
TakeArg(x, k) ==
  IF ~x.ok \/ k.r = NULL THEN [x EXCEPT !.ok = FALSE]
  ELSE [m |-> k.m, argv |-> Append(x.argv, k.r), ok |-> TRUE]
GiveArgs(e, argv) == [e EXCEPT !.m = FoldLeft(kfree, @, argv)]
ExecArgs(a, p, image) ==
  GiveArgs(IF a.ok THEN exec(a.m, p, image) ELSE [m |-> a.m, p |-> p, r |-> -1], a.argv)
sys_exec(m, p, image) ==
  ExecArgs(FoldLeft(LAMBDA x, i : TakeArg(x, kalloc(x.m)),
                    [m |-> m, argv |-> <<>>, ok |-> TRUE], Upto(1, image.nargs)), p, image)

-----------------------------------------------------------------------------
\* Before kvminit(): every page is free and nothing is mapped.
Boot == [free |-> Page, tab |-> [p \in Page |-> Junk], left |-> NPAGE,
         panic |-> "none", twice |-> {}]

\* with the kernel's table k and the first process u
Booted(u, k) ==
  /\ kernel_pagetable = k.r
  /\ mem = [u.m EXCEPT !.left = 0]
  /\ proc = [i \in 1..NPROC |-> IF i = 1 THEN u.r ELSE Unused]
  /\ last = [call |-> "boot", r |-> 0]
Started(k) == Booted(userinit(k.m, k.r), k)
Init == Started(kvminit(Boot))

\* A call starts with some number of pages left to it and ends with none.
Starts(left) == [mem EXCEPT !.left = left]
Runs(i) == proc[i].state = "USED" /\ ~Dead(mem)
\* the call made slot i of the table x.p, and returns x.r
Returns(call, i, x) ==
  /\ mem' = [x.m EXCEPT !.left = 0]
  /\ proc' = [proc EXCEPT ![i] = x.p]
  /\ last' = [call |-> call, r |-> x.r]
  /\ UNCHANGED kernel_pagetable

Fork(i, left) ==
  /\ Runs(i)
  /\ \E j \in 1..NPROC :
       /\ proc[j].state = "UNUSED"
       /\ \A k \in 1..j-1 : proc[k].state # "UNUSED"
       /\ Returns("fork", j, fork(Starts(left), proc[i], kernel_pagetable))

Exec(i, image, left) ==
  /\ Runs(i)
  /\ Returns("exec", i, sys_exec(Starts(left), proc[i], image))

Sbrk(i, n, left) ==
  /\ Runs(i)
  /\ proc[i].sz + n <= MaxBytes
  /\ Returns("sbrk", i, growproc(Starts(left), proc[i], n))

\* exit() keeps the memory; wait() of the parent frees it
Exit(i) ==
  /\ Runs(i) /\ i # 1
  /\ proc' = [proc EXCEPT ![i].state = "ZOMBIE"]
  /\ last' = [call |-> "exit", r |-> 0]
  /\ UNCHANGED <<mem, kernel_pagetable>>

Wait(i) ==
  /\ proc[i].state = "ZOMBIE" /\ ~Dead(mem)
  /\ Returns("wait", i, [m |-> freeproc(Starts(0), proc[i]), p |-> Unused, r |-> 0])

Lefts == 0..MaxLeft \cap 0..Cardinality(mem.free)
Next == \E i \in 1..NPROC :
  \/ \E left \in Lefts : Fork(i, left)
  \/ \E image \in Images, left \in Lefts : Exec(i, image, left)
  \/ \E n \in Grow, left \in Lefts : Sbrk(i, n, left)
  \/ Exit(i)
  \/ Wait(i)
Spec == Init /\ [][Next]_vars

-----------------------------------------------------------------------------
(***************************************************************************)
(* Who refers to a page.  A place is a triple <<where, index, page>>.      *)
(***************************************************************************)
Live == {i \in 1..NPROC : proc[i].state # "UNUSED"}
Below(t, tops) == {k \in tops : mem.tab[t][k].v /\ ~mem.tab[t][k].leaf}
Refs(t, tops) == {<<t, k, mem.tab[t][k].pa>> : k \in Below(t, tops)}
\* references to the level 1 and level 0 tables under the entries tops of a root
TableRefs(root, tops) ==
  Refs(root, tops) \cup UNION {Refs(x[3], 0..PTES-1) : x \in Refs(root, tops)}
UserTops == 0..PX(2, MAXUVA) - 1
Mapped(root, vas) == {<<root, va, pteOf(mem, root, va).pa>> :
                        va \in {v \in vas : pteOf(mem, root, v).v}}
Places ==
  {<<0, 0, kernel_pagetable>>} \cup TableRefs(kernel_pagetable, 0..PTES-1) \cup
  UNION {LET p == proc[i] IN
         {<<-i, 0, p.trapframe>>, <<-i, 1, p.pagetable>>, <<-i, 2, p.kpagetable>>}
         \cup TableRefs(p.pagetable, 0..PTES-1) \cup Mapped(p.pagetable, 0..MAXUVA-1)
         \cup TableRefs(p.kpagetable, UserTops \cup {PX(2, VKSTACK)})
         \cup Mapped(p.kpagetable, {VKSTACK}) : i \in Live}

TypeOK ==
  /\ mem.free \subseteq Page /\ mem.tab \in [Page -> [0..PTES-1 -> PTE]]
  /\ mem.left = 0 /\ mem.panic \in STRING /\ mem.twice \subseteq Page
  /\ proc \in [1..NPROC -> Proc] /\ kernel_pagetable \in Page

\* After every system call each page is free or held at exactly one place: as a
\* trapframe, a kernel stack, a user page or a page table page of one process or
\* of the kernel.  No error path of uvmalloc(), uvmcopy(), allocproc() or exec()
\* loses a page, frees it twice or panics, but for the unmapping of a stack that was
\* never mapped in fork() (AllocationFailureReported, below).  usertests.c compares countfree()
\* before and after.
PagesOwned ==
  IF mem.panic # "none" THEN mem.panic = "vmunmap: walk" /\ last.call = "fork" ELSE
    LET P == Places IN
    /\ mem.twice = {}
    /\ {x[3] : x \in P} = Page \ mem.free
    /\ Cardinality(P) = NPAGE - Cardinality(mem.free)

\* copyin2() and copyout2() dereference user addresses below p->sz in the kernel's
\* own table: every byte they accept must be mapped there, to the page that the
\* user's table maps, and they must not refuse what copyin() and copyout(), which
\* go through the user's table, accept up to the page that holds p->sz.
DirectCopyBacked ==
  ~Dead(mem) => \A i \in Live :
    LET p == proc[i]
        mapped == {va \in 0..MAXUVA-1 : pteOf(mem, p.kpagetable, va).v} IN
    /\ \A va \in 0..MAXUVA-1 :
         LET u == pteOf(mem, p.pagetable, va) k == pteOf(mem, p.kpagetable, va) IN
         /\ u.v = (va < PGROUNDUP(p.sz)) /\ k.v = u.v /\ k.pa = u.pa /\ ~k.u
    /\ \A va \in 0..MaxBytes, len \in 1..PGSIZE+1 :
         /\ copy2(p.sz, va, len) => {b \div PGSIZE : b \in va..va+len-1} \subseteq mapped
         /\ copy(mem, p.pagetable, va, len) => copy2(PGROUNDUP(p.sz) * PGSIZE, va, len)

\* A fork(), exec() or sbrk() that fails is undone: the processes and what they
\* have mapped are as before, and fork() and exec() give back every page (a failed
\* sbrk() may keep page table pages, which freewalk() frees with the process).
FailureUndone ==
  [][last'.r = -1 /\ ~Dead(mem') =>
       /\ proc' = proc
       /\ IF last'.call # "sbrk" THEN mem' = mem
          ELSE /\ mem'.free \subseteq mem.free
               /\ \A i \in Live, va \in 0..MAXUVA-1 :
                    /\ pteOf(mem', proc[i].pagetable, va) = pteOf(mem, proc[i].pagetable, va)
                    /\ pteOf(mem', proc[i].kpagetable, va)
                         = pteOf(mem, proc[i].kpagetable, va)]_vars

\* allocproc(): "If there are no free procs, or a memory allocation fails, return 0."
AllocationFailureReported == mem.panic = "none"
=============================================================================
