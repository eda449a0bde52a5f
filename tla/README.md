# TLA+ models of the DancerInFarron OS kernel

The kernel is an xv6 descendant for two RISC-V harts, built for the k210 board
(the default) or for qemu, with a FAT32 file system on an SD card or a virtio
disk. Its tests (`user/usertests.c`, `user/grind.c`) run as user programs and
reach few interleavings; what goes wrong in it goes wrong between two locks,
between a test and a sleep, between an interrupt and its acknowledgement, or half
way through a call that ran out of something. These modules model that part, from
the spin locks up to the pipelines of the shell. TLC checks small instances; TLAPS
proves, for every size, the locks, the sleep protocol, the process table, the buffer
cache, the pipe, the console, the disk drivers, the start of the board, the
reference counts of open files and the clusters and the directory of the volume.

Run a check with `tlc -config MCStreams.cfg MCStreams`, a proof with
`tlapm Sync_proof.tla`. `PROJECT.json` lists the runs, the source lines behind
every definition, the mutants that show each property can fail, the hazards and the
findings.

## 1. Inventory

| Component | State | Operations | Hard because |
|---|---|---|---|
| spin locks, interrupt masking (`spinlock.c`, `intr.c`) | `locked`, `cpu`; per hart `noff`, `intena`, SIE | `acquire`, `release`, `push_off`, `pop_off` | handlers run over threads and share the hart's counters |
| processes (`proc.c`, `trap.c`) | process table, `cpu->proc` | `fork`, `exit`, `wait`, `kill`, `scheduler`, `sched`, `yield` | nested `p->lock`s, reads of `parent` without a lock, locks carried across `swtch` |
| sleep and wakeup (`proc.c`) | `state`, `chan` | `sleep`, `wakeup`, the wake-up in `kill` | a wakeup between giving up one lock and sleeping |
| sleep locks (`sleeplock.c`) | `locked`, `pid` | `acquiresleep`, `releasesleep`, `holdingsleep` | early wakeups |
| pipes (`pipe.c`) | ring, counters, open flags, the page | `pipealloc`, `pipewrite`, `piperead`, `pipeclose` | both ends sleep, either end frees the page, counters wrap |
| console (`console.c`) | ring with `r`, `w`, `e` | `consoleintr`, `consoleread` | an interrupt edits what readers take, indices wrap |
| buffer cache (`bio.c`) | buffers, LRU list | `bread`, `bwrite`, `brelse` | two levels of locks with windows between them |
| SD card and DMA (`sdcard.c`, `spi.c`, `dmac.c`) | the lock, the channel, its interrupt | start up the card; read, write a sector | the end of a transfer races the sleep for it; lost commands and answers |
| virtio disk (`virtio_disk.c`) | descriptors, two rings, `info[]` | `virtio_disk_rw`, `virtio_disk_intr` | the device runs beside the handler, indices of two widths |
| boot, pins (`main.c`, `fpioa.c`, `gpiohs.c`) | what is initialised, `started`, the pads | `main` on both harts, `fpioa_*`, `gpiohs_*` | order across harts; pads left in any state |
| memory, `exec` (`kalloc.c`, `vm.c`, `exec.c`, `proc.c`) | free list, two page tables per process | `uvmalloc`, `uvmcopy`, `proc_kpagetable`, `exec`, ... | every step can run out of memory |
| directory entries (`fat32.c`, `sysfile.c`) | entry cache, parent chain | lookup, create, remove, rename, chdir | locks taken upward and downward, references dropped outside the lock |
| FAT32 (`fat32.c`, `file.c`) | FAT, cluster chains, slots, cursors | open, read, write, truncate, remove, rename | a failure after half the clusters are linked, cursors that outlive their chain |
| open files (`file.c`, `sysfile.c`) | file table, descriptors | open, dup, close, read, write, pipe, fork, exit | counts shared by processes, half-done calls |
| shell, `/init` (`user/sh.c`, `user/init.c`) | who holds which end of which pipe | pipelines, redirections, lists, background commands | one descriptor left open hangs the pipeline |
| timer (`timer.c`, `sysproc.c`) | `ticks` | tick, `sys_sleep` | – |

How they interact: everything calls `acquire`/`release`; pipes, the console, sleep
locks and the drivers call `sleep`/`wakeup`; `kill` wakes any sleeper early;
`fork`, `exit` and `close` change who holds a pipe; the file system goes through
the buffer cache, that one through `disk.c` to a driver; interrupts enter
`consoleintr` and `disk_intr` on whichever hart takes them, and the timer enters
`yield`. `panic()` stops the hart that calls it, not the other one
(`printf.c:128-130`), so the models keep a panicked process at its place, with its
locks, and let everybody else go on.

What makes each part correct is the list of properties in section 3.

## 2. Modules

| Module | Models | Composition |
|---|---|---|
| `Params` | the constants shared by the modules on locks | – |
| `SpinLock` | `spinlock.c`, `intr.c`, trap entry and exit | – |
| `Proc` | process table and scheduler | `p->lock` as one owner, justified by `SpinLock` |
| `CondVar` | what `sleep`/`wakeup` promise: give up the lock and sleep in one step | abstract |
| `SleepWakeup` | `sleep`, `wakeup`, the scheduler's part, at the grain of both locks | implements `CondVar` |
| `Mutex`, `SleepLock` | what a sleep lock promises; `sleeplock.c` over `CondVar`'s steps | `SleepLock` implements `Mutex` |
| `SectorStore`, `BCache` | exclusive access to sectors; `bio.c` used as `fat32.c` uses it | `BCache` implements `SectorStore` |
| `ByteChannel`, `Pipe` | a bounded FIFO; `pipe.c` with its holders and `kill` | `Pipe` implements `ByteChannel` |
| `LineDiscipline`, `Console` | lines handed over and a line being edited; the ring of `console.c` | `Console` implements `LineDiscipline` |
| `SdCard`, `VirtioDisk` | the two drivers and their devices | – |
| `Disk` | `disk.c`: one driver or the other, chosen by the build | composes the two |
| `FpioaTable`, `Board` | the table of pad functions; boot order, pins, start-up of the card | `Board` over `FpioaTable` |
| `Memory` | pages, page tables, `exec`, the memory half of `fork`, `exit`, `sbrk` | – |
| `ECache` | the cache of directory entries and the calls that walk paths | sleep locks as mutexes |
| `FileStore`, `Fat` | files as byte sequences; the FAT32 volume and the calls on one directory | `Fat` implements `FileStore` |
| `Files` | file table and descriptors, with the calls that take and drop them | pipes and disk files by what `Pipe` and `Fat` show of them |
| `Shell` | `/init`, the shell, `cat` and `echo` as clients | composes `Files` with its users |
| `MC*` | instances, symmetry, views | see section 3 |
| `*_proof`, `FatSteps` | theorems about the modules they extend | section 4 |
| `FatVolume` | `Ordinary`: the volumes and calls the theorems about `Fat` are for, with the chains of a table and the groups of slots of a directory as functions | extended by `MCFat`, `FatSteps` |
| `Modular` | lemmas on remainders, for the rings whose indices wrap, and the least number with a property, for the ends of chains | used by the proofs of `Pipe`, `Console`, `Disk`, `Fat` |

Conventions. A variable has the source's name; `pc[p]` says where a process is, with
a label for every point another actor can observe; where a call is a long sequence
of pieces, `todo[p]` is the sequence of the pieces still to come, and a piece may put
others in front of it. A critical section that nobody can look into is one step;
where the code reads a field that the lock it holds does not protect (`killed`,
`parent`, `entry->ref`, the DMA channel, the used ring), the test and what follows
are separate steps. A definition whose comment begins "Mutant of", or
whose name is another's with a suffix after `_` (`GrowUser_NoUndo`), is not part of
the model: it is the changed form of the next definition that shows the property named
in `PROJECT.json` to depend on the code.

What stands for what:

* `SpinLock`: two contexts per hart, thread and handler; `held` and `want` record
  what callers did. Callers nest locks in increasing order and release what they
  hold; that is the discipline the properties are relative to.
* `Proc`: one process slot per table entry, `userinit`'s process first. User code
  forks, kills, waits, exits or loops; a timer interrupt may come wherever no lock
  is held. `fork` may fail for want of memory or slots.
* `SleepWakeup`: `lk` is the caller's lock. `asleepBar` counts a process as asleep
  from the moment it gives up `lk` and as awake from the moment a `wakeup` that will
  reach it begins.
* `Pipe`: `holds[p]` are the ends a process has a descriptor for; `fork`, `dup`,
  `close` and the exit of a killed process change it. The page is freed and used
  again.
* `Console`: ordinary characters are one; newline and ^D keep their meaning;
  backspace, ^U and the characters that are dropped are actions.
* `BCache`: a process uses one buffer at a time, as `fat32.c` does. `disk_read` and
  `disk_write` are one step each; `Disk` shows that they end with the transfer done.
* `SdCard`: the bytes of a command are left out, its failure is kept.
* `VirtioDisk`: `idx[0..2]` is a set and a head. The device takes requests in order
  and completes them in any order, at any point of the handler.
* `Board`: `main[h]` counts the steps of `main()` a hart has taken; each step needs
  what earlier ones set up. A pad carries a function; the fields of the pad register
  that no function changes are left out. `sd_init()` runs command by command against
  a card that is idle, warming up or ready and may lose a command (it does nothing)
  or an answer (it did it, the host sees a timeout). The loops of `0xff` and `0xfff`
  rounds have `TRIES` and `ACMD_TRIES`.
* `Memory`: the record `m` holds the free pages, the page tables by their contents,
  and `left`, the number of `kalloc()` calls that will succeed. A system call is one
  step, a composition of operators named after the kernel's functions (those between
  two allocations, `GrowUser`, `GrowKernel`, take the result of the first), because
  page tables belong to one process; what others do meanwhile shows only in how many pages
  they leave, so `left` is chosen anew for each call.
* `ECache`: what a directory holds is a function from names to files; an entry of
  the cache is known by its parent's address and its name, as in the code. The last
  step of a rename, `src->valid = 1` after `eunlock(src->parent)`, is one step with
  the unlock here; `Fat` keeps the two apart.
* `Fat`: a cluster has a few cells, which are bytes of a file or slots of a
  directory. A name is the sequence of its long-name slots; the characters in it, the
  short name and its checksum are left out. Allocation follows the FAT sector by
  sector. When `alloc_clus()` takes a cluster past the last one (it looks at every
  entry of the FAT's sectors), the model stops: what is written there is outside the
  volume.
* `Files`, `Shell`: a command is a tree as `parsecmd()` builds it; the shell reads a
  list of trees. A load also says how many files, descriptors, pipe pages and
  processes there are, and how often a call may fail for want of memory. `Names` are
  the files on disk, `Commands` every tree that can be typed, with its parts.

## 3. Runs

Modules that need no common state are checked in one run: a variable `part` says
which of them runs, the others keep an initial state. The instances are as large as
they would be alone; nothing is multiplied.

| Run | Instance | Distinct states | Shows |
|---|---|---|---|
| `sync` | spin locks: 2 harts with handlers, 2 locks; sleep/wakeup: 3 processes, 2 channels; sleep lock: 5 processes; buffer cache: 3 processes, 2 buffers, 3 sectors | 323,292 | `MutualExclusion`, `NoPanic`, `IntrRestored` (SIE comes back as the thread set it); `ImplementsCondVar`; `ImplementsMutex`, `SomebodyGetsIt`; `OneBufferPerSector`, `ImplementsSectorStore` |
| `proc` | 2 harts, 3 slots | 306,829 | `OnOneCpu` (no stack is freed under a hart), `NoOrphan`, `NoMissedExit`, `NoLockCycle` |
| `progress` | 1 hart, 3 slots; a pipe of 1 byte and 2 processes, both killable | 70,118 | `ReadyRuns`, `VictimExits`; `CallsReturn` |
| `streams` | pipe: 3 processes, ring of 2, counters mod 4, calls of up to 3 bytes; console: 2 readers, ring of 2, indices mod 4 | 398,441 | `SleepersHaveReason`, `NoUseAfterFree`, `ImplementsByteChannel`; `ImplementsLineDiscipline`, `InputIsTaken` |
| `devices` | k210: 2 processes, 2 sectors; qemu: 4 processes, 8 descriptors, indices mod 16; board: 6 pads in 3 states, 2 losses | 109,108 | `TransferComplete`, `DescSleepersHaveReason`; `InitialisedFirst`, `PinsWired`, `InitSound` |
| `memory` | 48 pages, tables of 4 entries, pages of 2 bytes, 2 processes | 200 up to page names (37,554 generated) | `PagesOwned` (a page is free or has one owner, and none is lost), `DirectCopyBacked`, `FailureUndone` |
| `ecache` | 2 processes, 5 cached entries, 2 directories | 1,162,744 | `NoPanic`, `RefsExact`, `NoStaleChild`, `NoLockCycle` |
| `fat` | 2 processes, 11 clusters of 2 cells, table of 2 sectors, 3 cached entries | 50,517 | `ChainsDisjoint`, `DirectoryRight`, `NoClusterLost`, `ImplementsFileStore` |
| `files` | 18 loads: pipelines of up to 3 programs, 7 processes, 6 files | 68,208 | `RefsExact`, `PipeEndsOpen`, `OutputRight`, `ShellReturns` |
| `proc_deadlock` | 2 harts, 4 slots | violated | finding 1 |
| `sdcard_wait` | 1 process | violated | finding 2 |
| `ecache_race` | 2 processes in one directory | violated | finding 3 |

Why the bounds are enough to be worth checking.

* Two harts are what the machine has (`NCPU`). Three slots are init, a parent and a
  child, the smallest family in which a process loses its parent while it exits;
  finding 1 needs a fourth, and its run looks at that one family.
* A ring of two with calls of three makes a writer sleep half way; counters modulo
  twice the ring wrap in every run, and the code's sizes divide `2^32` likewise. A
  console ring of two holds a line, a line being edited, or is full with either.
* Two buffers for three processes make recycling, waiting and running out happen.
  Eight descriptors are the code's: two requests in flight, two processes waiting.
* Tables of four entries still have three levels; the stack and the trampoline sit
  in the last branch as in the code. `MaxLeft` covers the longest call, so every
  allocation of every call is the one that fails.
* Five cache entries for two processes make `eget()` recycle; the volume of eleven
  clusters runs out in two of the loads; a FAT with more entries than clusters is the
  ordinary case. The loads of `ecache`, `fat` and `files` are chosen pairs of call
  sequences, not all of them: each names the situation it is there for.
* `MaxPid`, `MaxN`, `MaxBytes`, `MaxLost` and `MaxWarm` are bounds of the model.

Reductions. Symmetry is over processes, sectors, values and harts, never over the
part a liveness property of the same run is about. The view of `MCDevices` ignores
ring entries that were consumed, which are written before they are read again. The
view of `MCMemory` forgets which page is which, which is sound while each page has
one owner, the invariant that is checked. `MCFat` keeps the refinement's view in a
variable so that it is computed once per state. `MCShell` takes steps that touch
nothing but their own process at once.

Deadlock is checked in `sync`, `proc`, `progress` and `streams`, where somebody can
always go on, but not at a pipe, whose only holder may sleep for ever, nor in a
buffer cache that panicked for want of buffers. The other systems stop: the calls of a load are done, or a process
panicked.

Fairness. A process in the kernel goes on (weak fairness of its own steps); one that
spins on a lock that is released again and again gets it (strong fairness, what the
AMO in `acquire` gives in practice and no line of the code enforces: it is an
assumption). `progress` has one hart, where no lock is contended, and a timer that
keeps interrupting; what it shows, that a runnable process runs, is what the weak
fairness of every process in `files` rests on. Devices finish what they were given.
Nobody is obliged to call, close, type or kill.

## 4. Proofs

| Module | Theorems | For every |
|---|---|---|
| `Sync_proof` | of `SpinLock`: `Exclusion` (`MutualExclusion`), `PanicFree` (`NoPanic`), `Restored` (`IntrRestored`), `Masked`, `NoSelfDeadlock`; of `SleepWakeup`: `WakeupRefinement` (`ImplementsCondVar`: no wakeup is lost); of `SleepLock`: `SleepLockRefinement` (`ImplementsMutex`); of `BCache`: `UniqueBuffer` (`OneBufferPerSector`), `CacheRefinement` (`ImplementsSectorStore`), `NotRecycledInUse`, `WriteThrough` | finite set of locks, table size, set of channels, set of positive pids; number of buffers, finite set of processes, sectors, contents |
| `Proc_proof` | `OneHart` (`OnOneCpu`), `Parents` (`NoOrphan`), `ExitsSeen` (`NoMissedExit`), `Ordered` (`NoLockCycle`) | number of harts and slots, any pids that are killed, any bound on pids |
| `Streams_proof` | of `Pipe`: `FreedLast` (`NoUseAfterFree`), `PipeRefinement` (`ImplementsByteChannel`), `Exclusion`, `WriterSleeps`, `NobodyForgotten` (`SleepersHaveReason`); of `Console`: `ConsoleRefinement` (`ImplementsLineDiscipline`), `NobodyWaitsOnInput` | processes, readers, bytes, ring sizes that divide the width of their counters |
| `Devices_proof` | of `Disk`: `TransferOver` (`TransferComplete`), `SleepersWait` (`DescSleepersHaveReason`), `RingsNeverOverflow`; of `Board`: `UseAfterInit` (`InitialisedFirst`), `PinsRight` (`PinsWired`), `CardReady` (`InitSound`) | processes, sectors, contents, number of descriptors that divides the width of the ring indices; pads in any state, bounds of the retry loops, losses |
| `Files_proof` | `ReferencesExact` (`RefsExact`), `EndsOpen` (`PipeEndsOpen`) | processes, sizes of the tables, size of a pipe, files on disk, sequence of commands, number of failures |
| `FatSteps`, `Fat_proof` | `FatChainsDisjoint` (`ChainsDisjoint`), `FatDirectoryRight` (`DirectoryRight`), `FatNoClusterLost` (`NoClusterLost`), `FatCursors` | finite set of processes, number of entries, clusters, sizes of a cluster and of the table, names, ordinary volume, calls without a rename, failures of user memory and full volumes |
| `Modular` | lemmas on remainders, and the least number with a property | – |

In parentheses: the property of a run that the theorem states.

What is assumed. Every assumption on a constant is a named `ASSUME` of the module that
declares it. They hold in the code: the tables have at least one entry, the names of
"no process" and the like are none of the real ones, and the sizes of the rings, 512
(`PIPESIZE`), 128 (`INPUT_BUF`) and 8 (`NUM`), divide `2^32` and `2^16`. `Shell` supposes
of a command what `parsecmd()` builds, and of `None`, which also is what a file that does
not exist holds, that it is no content and no file. `NobodyForgotten`
supposes that nobody is killed: with kills the property does not hold (finding 6);
`WriterSleeps` is what remains of it then. In `NoLockCycle` a cycle through a stale
parent is excepted: that one is finding 1.

The theorems about `Fat` are for the volumes and calls that `Ordinary` (`FatVolume`)
admits. No call is a rename (finding 11). On the volume, chains end and do not meet; the
directory is made of files with long entries and free slots; every cluster in use belongs
to the directory or to one file; and one of the files is never removed, so that no file
is made at the first slot of an empty directory (finding 10). That is what formatting and
earlier calls leave. The run `fat` evaluates `Ordinary` on its loads (`OrdinaryLoads` in
`MCFat`): the nine that do not rename are ordinary, among them a volume with bad clusters,
full ones, and one whose table has other marks behind its last cluster.

The theorems are about the models, whose
bounds (`MaxPid`, `MaxN`, `MaxLost`, `MaxWarm`) are constants of any value.

Every module rests on one inductive invariant, proved in a theorem whose name ends in `Invariance`, with
one step per action and one per conjunct that the action can disturb. TLC checked each
on the instance of its run before it was proved. What they need beyond the property:

* `SpinLock` (`IndInv`): `LockWords` ties `locked` and `cpu` to who won the swap, with
  the two windows in which `cpu` lags; `Arguments` says what each point of `acquire`
  knows; `Levels` counts `noff` as locks held plus calls in progress, over both contexts
  of the hart; `Handlers` and `Masking` say that a handler runs only over a thread
  outside every masked section and that `intena`, which the handler overwrites, then
  holds nothing the thread needs.
* `SleepWakeup` (`SwIndInv`): `p->lock` is held from before `lk` is given up until the
  process is off the hart, and `wakeup` keeps `lk` for its whole loop; the refinement
  needs both.
* `SleepLock` (`SlIndInv`): nobody is asleep on a free lock, and `pid` names the owner.
* `BCache` (`BIndInv`): `bcache.lock` protects a buffer's identity and `refcnt`,
  `b->lock` its contents; `RefsCounted` keeps the identity fixed for whoever waits for
  `b->lock` without `bcache.lock`. The abstract store holds, of a sector, what its buffer
  holds when there is a valid one and what the disk holds otherwise: `WriteThrough` makes
  the two agree when a buffer is recycled.
* `Proc` (`ProcIndInv`): `StatePc` says where in the code a process in each state is,
  `CpuState` which one each hart runs or is switching away from, and `LockOwner` who owns
  every `p->lock`: the scheduler after `swtch()`, the process itself, or a child in
  `exit()`. `Tree` needs the pids, which grow from parent to child: they exclude that a
  process becomes an ancestor of itself through a slot that was used again.
  `ParentCopy`, `ChildFound`, `GivenAway` and `NotYetExited` say what the reads of
  `parent` without a lock still mean when they are used.
* `Pipe` (`PipeIndInv`): an end is open exactly while somebody holds a descriptor for it
  or is on the way to close it (`OpenFlags`), exactly one call closes an end
  (`LastCloses`), and nobody is left when the page is freed (`LastFrees`). `Reasons` is
  the property of the sleepers while `pi->lock` is held. The refinement follows the ring
  byte by byte with the lemmas on remainders.
* `Console` (`ConsIndInv`): the three indices are in order round the ring and less than
  its size apart (`InOrder`), the line being edited holds no end of a line (`OneLine`),
  which is why backspace and ^U stop before what was handed over.
* `SdCard` (`SdIndInv`): from the command on the channel and the card work for the owner
  of `sdcard_lock` alone, as long as no process panicked in a write; a panicked one
  leaves the card busy.
* `VirtioDisk` (`VdIndInv`): a request owns its descriptors until its process returns;
  one whose end the handler has not seen is once on the avail ring, in the device or on
  the used ring (`InRings`, `OncePerRequest`). That fewer than `NUM` requests exist keeps
  both rings from overflowing, though no line tests for room: an index modulo `NUM` can
  then be compared with one modulo `2^16`.
* `Board` (`BoardIndInv`): hart 1 is behind `started`, which hart 0 sets last; the pads
  are followed through every call of `fpioa_pin_init()`, which moves a function away from
  the pad a boot loader gave it; `Session` says what an answer, or its loss, tells of the
  card.
* `Files`, `Shell` (`ShIndInv`): what is left of a call stands before what is left of the
  program, and is one step or two that give something back (`CallFirst`): only those steps
  own references, so that at most three places of `todo` count. A file that `filealloc()`
  has given and no call has filled in has one reference and no descriptor (`Opening`),
  which keeps the last `fileclose()` from closing a pipe or an entry the slot held before;
  only live processes have descriptors (`OnlyLive`). `RefsExact` and `PipeEndsOpen` are
  themselves inductive with these. The argument is an account: `RefsExact` compares a count
  with the sizes of sets over all processes, `AccountsKept` reduces a step to what one
  process gains and gives up and what the files it touches refer to (`FilesBalance`,
  `EntriesBalance`, `PipesBalance`), and every action balances its own books. `fork()`,
  which doubles one process's descriptors, has a lemma of its own (`ForkAccounts`). The
  steps of the programs own nothing (`Plain`, `Silent`), whatever commands are typed. The
  theorems are about every interleaving, not about the reduced one of `MCShell`.
* `Fat` (`FatInv`): the control part, `CtlOK`, says of the list of what a process has left
  to do which shapes it has, which entry it holds locked at each place of it and how many
  references it will give back, so that locks and counts follow from the lists; and what
  a step that comes later in a list still may count on, such as the name a half-made entry
  will be written under. The disk part, `DiskOK`, is about chains. A head is the first
  cluster of an entry in memory, of a chain some process has cut off and is about to free,
  of one it has taken and not yet linked, or of a file that is on disk only; every cluster
  that is not free or bad is reached from exactly one head (`FatOK`), and a step moves one
  head or one link. The slots are whole groups (`DirOK`) whose names differ (`NamesOK`);
  an entry in memory agrees with its group unless it is dirty (`CacheOK`); a cursor is in
  the chain of its own entry (`CurOK`). What is read by the next step of the same process,
  such as the cluster `alloc_clus()` has just returned, is `LocalOK`. A chain is a walk of n
  steps, not the recursive sequence of the properties; that the two agree, and that walks
  end, is shown from the least counterexample (`Least`, `Induct`).

Only model-checked:

* liveness (`SomebodyGetsIt`, `ReadyRuns`, `VictimExits`, `CallsReturn`, `InputIsTaken`,
  `ShellReturns`): outside the prover;
* `Memory`: the system calls are folds over sequences of pages, whose values for every
  sequence would have to be followed through nested loops that may stop half way;
* `ECache`: its properties hold for the loads of the runs, not for every sequence of
  calls (findings 3 and 11);
* `ImplementsFileStore` of `Fat`: the bytes of a file against its clusters at every step
  of a read or write;
* `OutputRight` of `Shell`: what a command prints is given with the load; for every
  command it would be an induction over its tree.

## 5. Findings

1. `exit()` locks and wakes the parent it copied (`proc.c:449`), even when that one was
   given to init meanwhile; the comments (`proc.c:444`, `452`) call the race harmless.
   `proc_deadlock` shows the slot of that parent used again by a descendant of the exiting
   process: the two then wait for each other's `p->lock`, on two harts, for ever.
2. `dmac_wait_idle()` tests the channel, then takes a lock that `dmac_intr()` does not
   take, then sleeps. `sdcard_wait` shows the interrupt in between: the process sleeps
   for ever with `sdcard_lock`, and the file system with it.
3. `eput()` reads `entry->ref` after it gave up `ecache.lock` (`fat32.c:790`), so two
   processes that drop the last two references both drop the parent's. `ecache_race`
   shows the parent's count then too small, and `acquiresleep()` sleeping with
   `ecache.lock` held, which the comment at `fat32.c:765` excludes.

The models show more, for which no run is kept; each is a property that does not
hold, or a load left out of a passing run because of it.

4. `ZombieWakesWaiter` (`Proc`, under `FairSpec`, 1 hart, 4 slots): the same stale copy
   wakes the old parent where init should have been woken; init stays asleep in `wait()`
   beside a zombie child until another one exits (`proc.c:462`).
5. `KilledIsAwake` (`Pipe`, with killable processes): a kill between the test of
   `pr->killed` and `sleep()` leaves the victim asleep (`pipe.c:77`, `103`). The same
   pattern is in `consoleread` and `sys_sleep`.
6. `SleepersHaveReason` (`Pipe`) with killable processes: a writer found killed on a
   full ring returns without waking the readers (`pipe.c:78`).
7. `KilledOnRequest` (`Proc`, with 0 in `KillPids`): `kill(0)` marks an unused slot, and
   the next process in it dies (`proc.c:710`).
8. `RequestReturns` (`VirtioDisk`, under its `FairSpec`): a completion between the last
   test of the handler's loop and the acknowledgement is acknowledged unseen; its
   process sleeps until another request completes (`virtio_disk.c:274`).
9. `AllocationFailureReported` (`Memory`): when the second `kalloc()` of
   `proc_kpagetable()` fails, `kvmfree()` unmaps a stack page that was never mapped and
   panics (`vm.c:578`), where `proc.c:125` expects `NULL`.
10. `DirectoryRight` (`Fat`) with a file made in an empty root: `emake()` takes an
   offset of at most 32 for "." or ".." in the root too (`fat32.c:577`).
11. Rename (`sysfile.c:439`, `470`): `src->valid` is not looked at after `elock(src)`,
    and is set after the parent is unlocked. `ImplementsFileStore` fails when another
    process removes the file, `ChainsDisjoint` when another opens the new name. The
    entry of a directory that is overwritten gets an offset that was never set
    (`sysfile.c:464`; `dirlookup()` returns before it sets `off`), and the parents are
    locked in the order of the arguments (`sysfile.c:441`).

## 6. Not modelled

* After a panic every process of `Fat` and `ECache` stops, where `printf.c:128` stops one
  hart; nothing is claimed of a kernel that goes on after one.
* In `Fat`: the parent's reference that the last `eput()` drops (`ECache` has it), opening
  a directory for reading only, a rename over an empty directory (in `ECache`), and user
  memory that fails in `read()`. In `Memory`: the overflow test of `exec.c:90`.
* An abandoned write at a pipe (`pipe.c:78`, finding 6) and a card that answers everything
  and is refused (`sdcard.c:204`): no checked property is about them.
* `dirnext()` (`file.c:192`): it moves the shared offset outside the lock of the
  directory; nothing else reads that offset.
* The characters of names: `formatname`, `generate_shortname`, `cal_checksum`,
  `snstr`. The parsing of a command line and `export` in `sh.c`.
* Register programming (`plic.c`, `sysctl.c`, most of `spi.c`), assembly, output,
  strings, and the other user programs: no control that these properties tell apart.
  `uart.c` and the logo are not in the build; the firmware is third-party.
* `ticks` and `sys_sleep()`: a counter under `tickslock`, with the sleep and wakeup
  that `SleepWakeup` covers.
* The negotiation of `virtio_disk_init()`, and a device that reports an error to
  `virtio_disk_intr` (panic). Memory exhaustion inside drivers.
* Weak memory ordering: the fences of `acquire`, `release` and the avail ring are taken
  at their word.

## 7. Plan

What is left is proof, in this order:

1. `Fat`: the refinement of `FileStore`, on top of `FatInv`: a file's bytes are those of
   its chain, in order, up to its size.
2. `ECache`: the order of the locks of an entry and its parents, without the drop of the
   last two references at once.
3. `Memory`: what `GrowUser` and `GrowKernel` leave when an allocation fails.

The run of a module extends it, so that a theorem can name the property the run
checks.
