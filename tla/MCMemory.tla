------------------------------ MODULE MCMemory ------------------------------
EXTENDS Memory
MCGrow == {-20, -7, -5, 7}
Ph(vaddr, memsz, filesz) ==
  [load |-> TRUE, vaddr |-> vaddr, memsz |-> memsz, filesz |-> filesz,
   header |-> TRUE, bytes |-> TRUE]
Good(ph) == [elf |-> TRUE, ph |-> ph, fits |-> TRUE, nargs |-> 0]
MCImages ==
  {[Good(<<>>) EXCEPT !.elf = FALSE],                    \* not found, or not ELF
   [Good(<<Ph(0, 3, 2), [Ph(0, 0, 0) EXCEPT !.load = FALSE]>>) EXCEPT !.nargs = 2],
   [Good(<<Ph(0, 2, 2)>>) EXCEPT !.fits = FALSE],
   Good(<<Ph(0, 2, 2), [Ph(2, 2, 2) EXCEPT !.header = FALSE]>>),
   Good(<<[Ph(0, 2, 2) EXCEPT !.bytes = FALSE]>>),
   Good(<<Ph(1, 2, 2)>>),                                \* not aligned
   Good(<<Ph(0, 2, 4)>>)}                                \* memsz < filesz

\* States that differ only in which page is which are the same: when each page has
\* one owner and the tables agree, the shape of the tables determines the rest.
Shape(root, tops) == {k \in tops : mem.tab[root][k].v}
Tree(root, tops) ==
  [k \in Shape(root, tops) |-> Shape(mem.tab[root][k].pa, 0..PTES-1)]
UpToPageNames ==
  <<mem.panic, mem.twice, Cardinality(mem.free), PagesOwned, DirectCopyBacked,
    [i \in Live |-> <<proc[i].state, proc[i].sz, Tree(proc[i].pagetable, UserTops),
                      Tree(proc[i].kpagetable, UserTops),
                      {va \in 0..MAXUVA-1 : pteOf(mem, proc[i].pagetable, va).u}>>]>>
=============================================================================
