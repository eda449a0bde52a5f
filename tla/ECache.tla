-------------------------------- MODULE ECache --------------------------------
(***************************************************************************)
(* The cache of directory entries of fat32.c (eget, edup, eput, elock,     *)
(* dirlookup, lookup_path, ealloc, eremove) and the system calls of        *)
(* sysfile.c that walk it: open, close, mkdir, chdir, remove and rename.   *)
(*                                                                         *)
(* A step is one critical section of ecache.lock, one acquisition or       *)
(* release of a sleep lock, or one read or write between them.  What a     *)
(* process has still to do in its system call is the sequence todo[p] of   *)
(* such steps; a step may put more steps in front of the rest.             *)
(***************************************************************************)
EXTENDS Integers, Sequences, FiniteSets

CONSTANTS
  Procs,
  ENTRY_CACHE_NUM,   \* entries of the cache, the root apart
  Files,             \* identities (first clusters) of files and directories
  Disks,             \* what the volume may hold: functions <<directory, name>> -> file
  Dirs,              \* the files of Disks that are directories
  Loads,             \* what the processes do: [calls, shared, over], the calls of each
                     \* process, whether they meet in a directory other than the root
                     \* and whether a rename replaces a directory
  NoProc

VARIABLES
  load,    \* the member of Loads that runs
  done,    \* the number of its calls that a process has made
  slot,    \* ecache.entries, and root as entry 0
  lru,     \* the list root.next ... root.prev
  disk,    \* the directory entries on disk: <<directory, name>> -> file
  isdir,   \* the files that are directories
  todo, open, cwd, panicked
vars == <<load, done, slot, lru, disk, isdir, todo, open, cwd, panicked>>

root == 0
NULL == -1
Root == "rootdir"
Entry == 0..ENTRY_CACHE_NUM
File == Files \cup {Root}

OnDisk(d, n) == <<d, n>> \in DOMAIN disk
Without(key) == [k \in DOMAIN disk \ {key} |-> disk[k]]
With(f, key, v) == [k \in DOMAIN f \cup {key} |-> IF k = key THEN v ELSE f[k]]

-----------------------------------------------------------------------------
(* Steps, as records; only the fields a step needs are read. *)
eput(x)    == [op |-> "eput", x |-> x]
elock(x)   == [op |-> "elock", x |-> x]
eunlock(x) == [op |-> "eunlock", x |-> x]

\* lookup_path() from entry e; k says what the system call does with the result
Fail == <<>>
Ancestors(x) == LET up[n \in 0..ENTRY_CACHE_NUM] ==
                      IF n = 0 THEN {x}
                      ELSE up[n-1] \cup ({slot[y].parent : y \in up[n-1]} \ {NULL})
                IN up[ENTRY_CACHE_NUM]

\* what the system call k does once the path led to entry e (NULL: nowhere)
Resume(k, e) ==
  CASE k.k = "open" ->
         IF e = NULL THEN Fail ELSE <<elock(e), [op |-> "opened", x |-> e]>>
    [] k.k = "chdir" ->
         IF e = NULL THEN Fail ELSE <<elock(e), [op |-> "chdir", x |-> e]>>
    [] k.k = "remove" ->
         IF e = NULL THEN Fail ELSE <<elock(e), [op |-> "remove", x |-> e]>>
    [] k.k = "create" ->
         IF e = NULL THEN Fail
         ELSE <<elock(e), [op |-> "eget", x |-> e, name |-> k.name, path |-> <<>>, c |-> k]>>
    [] k.k = "rename" ->                      \* src found: look for the target's parent
         IF e = NULL THEN Fail
         ELSE <<[op |-> "start", path |-> k.new, par |-> TRUE,
                 c |-> [k EXCEPT !.k = "target", !.src = e]]>>
    [] k.k = "target" ->
         IF e = NULL THEN <<eput(k.src)>>
         ELSE IF k.src \in Ancestors(e) THEN <<eput(e), eput(k.src)>>
         ELSE <<elock(k.src), elock(e),
                [op |-> "eget", x |-> e, name |-> k.name, path |-> <<>>, c |-> k]>>

Walk(e, path, par, k) ==
  IF path = <<>> THEN IF par THEN <<eput(e)>> \o Resume(k, NULL) ELSE Resume(k, e)
  ELSE <<[op |-> "lockdir", x |-> e, path |-> path, par |-> par, c |-> k]>>

\* what the caller of dirlookup(d, ...) does with the entry x it returned: lookup_path()
\* (path is what it has still to walk), sys_rename() or create()
Found(i, x) ==
  LET d == i.x k == i.c IN
  CASE i.path # <<>> -> <<eunlock(d), eput(d)>> \o Walk(x, Tail(i.path), i.par, k)
    [] i.path = <<>> /\ k.k = "target" ->
         <<eunlock(d), [op |-> "clash", x |-> d, dst |-> x, c |-> k]>>
    [] i.path = <<>> /\ k.k = "create" -> <<[op |-> "created", x |-> d, ep |-> x, c |-> k]>>
\* what it does when there is no such entry
Missing_KeepsDir(i) ==
  LET d == i.x k == i.c IN
  CASE i.path # <<>> -> <<eunlock(d)>> \o Resume(k, NULL)
    [] i.path = <<>> /\ k.k = "target" -> <<[op |-> "move", x |-> d, dst |-> NULL, c |-> k]>>
    [] i.path = <<>> /\ k.k = "create" -> <<[op |-> "ealloc", x |-> d, c |-> k]>>
Missing(i) ==
  LET d == i.x k == i.c IN
  CASE i.path # <<>> -> <<eunlock(d), eput(d)>> \o Resume(k, NULL)
    [] i.path = <<>> /\ k.k = "target" -> <<[op |-> "move", x |-> d, dst |-> NULL, c |-> k]>>
    [] i.path = <<>> /\ k.k = "create" -> <<[op |-> "ealloc", x |-> d, c |-> k]>>

-----------------------------------------------------------------------------
\* p replaces its next step by steps
Next1(p) == Head(todo[p])
Push(p, steps) == todo' = [todo EXCEPT ![p] = steps \o Tail(@)]
Pop(p) == Push(p, <<>>)
Panic(p, why) == panicked' = why /\ todo' = [todo EXCEPT ![p] = <<>>]
At(p, op) == todo[p] # <<>> /\ Next1(p).op = op /\ panicked = "none"

\* elock(): the assertion on ref, then the wait for the sleep lock
Elock(p) ==
  /\ At(p, "elock")
  /\ LET x == Next1(p).x IN
     IF x = NULL \/ (x # NULL /\ slot[x].ref < 1)
     THEN Panic(p, "elock") /\ UNCHANGED slot
     ELSE /\ slot[x].lock = NoProc
          /\ slot' = [slot EXCEPT ![x].lock = p]
          /\ Pop(p) /\ UNCHANGED panicked
  /\ UNCHANGED <<load, done, lru, disk, isdir, open, cwd>>

Eunlock(p) ==
  /\ At(p, "eunlock")
  /\ LET x == Next1(p).x IN
     IF slot[x].lock # p \/ slot[x].ref < 1 THEN Panic(p, "eunlock") /\ UNCHANGED slot
     ELSE slot' = [slot EXCEPT ![x].lock = NoProc] /\ Pop(p) /\ UNCHANGED panicked
  /\ UNCHANGED <<load, done, lru, disk, isdir, open, cwd>>

\* the first critical section of eput()
EputSlow(x) == x # root /\ slot[x].valid # 0 /\ slot[x].ref = 1
ToFront_Not(x) == lru
ToFront(x) == <<x>> \o SelectSeq(lru, LAMBDA y : y # x)
Eput(p) ==
  /\ At(p, "eput")
  /\ LET x == Next1(p).x IN
     IF ~EputSlow(x)
     THEN /\ slot' = [slot EXCEPT ![x].ref = @ - 1]
          /\ Pop(p) /\ UNCHANGED <<lru, panicked>>
     ELSE IF slot[x].lock # NoProc          \* would sleep with ecache.lock held
     THEN Panic(p, "sched locks") /\ UNCHANGED <<slot, lru>>
     ELSE /\ slot' = [slot EXCEPT ![x].lock = p]
          /\ lru' = ToFront(x)
          /\ Push(p, (IF slot[x].valid = -1 THEN <<[op |-> "etrunc", x |-> x]>>
                      ELSE <<elock(slot[x].parent), eunlock(slot[x].parent)>>)
                     \o <<[op |-> "release", x |-> x]>>)
          /\ UNCHANGED panicked
  /\ UNCHANGED <<load, done, disk, isdir, open, cwd>>

\* etrunc() of a removed file: its clusters, and so its identity, are free
Etrunc(p) ==
  /\ At(p, "etrunc")
  /\ isdir' = isdir \ {slot[Next1(p).x].file}
  /\ Pop(p)
  /\ UNCHANGED <<load, done, slot, lru, disk, open, cwd, panicked>>

\* releasesleep(), and the parent as it is now
Release(p) ==
  /\ At(p, "release")
  /\ LET x == Next1(p).x IN
     /\ slot' = [slot EXCEPT ![x].lock = NoProc]
     /\ Push(p, <<[op |-> "drop", x |-> x, par |-> slot[x].parent]>>)
  /\ UNCHANGED <<load, done, lru, disk, isdir, open, cwd, panicked>>

\* the second critical section of eput(): ref--
Drop(p) ==
  /\ At(p, "drop")
  /\ LET i == Next1(p) IN
     /\ slot' = [slot EXCEPT ![i.x].ref = @ - 1]
     /\ Push(p, <<[i EXCEPT !.op = "reread"]>>)
  /\ UNCHANGED <<load, done, lru, disk, isdir, open, cwd, panicked>>

\* entry->ref is read again, outside the lock
Reread(p) ==
  /\ At(p, "reread")
  /\ LET i == Next1(p) IN Push(p, IF slot[i.x].ref = 0 THEN <<eput(i.par)>> ELSE <<>>)
  /\ UNCHANGED <<load, done, slot, lru, disk, isdir, open, cwd, panicked>>

-----------------------------------------------------------------------------
\* the start of lookup_path(): edup() of the root or of the current directory
StartAt(p, path) == IF path # <<>> /\ Head(path) = "/" THEN root ELSE cwd[p]
Rest(path) == IF path # <<>> /\ Head(path) = "/" THEN Tail(path) ELSE path
Start(p) ==
  /\ At(p, "start")
  /\ LET i == Next1(p) e == StartAt(p, i.path) IN
     /\ slot' = [slot EXCEPT ![e].ref = @ + 1]
     /\ Push(p, Walk(e, Rest(i.path), i.par, i.c))
  /\ UNCHANGED <<load, done, lru, disk, isdir, open, cwd, panicked>>

\* elock(entry) of lookup_path() and the tests that follow under the lock
LockDir(p) ==
  /\ At(p, "lockdir")
  /\ LET i == Next1(p) x == i.x IN
     /\ IF slot[x].ref < 1 THEN Panic(p, "elock") /\ UNCHANGED slot
        ELSE /\ slot[x].lock = NoProc
             /\ slot' = [slot EXCEPT ![x].lock = p]
             /\ Push(p, IF slot[x].file \notin isdir
                        THEN <<eunlock(x), eput(x)>> \o Resume(i.c, NULL)
                        ELSE IF i.par /\ Len(i.path) = 1
                        THEN <<eunlock(x)>> \o Resume(i.c, x)
                        ELSE <<[op |-> "eget", x |-> x, name |-> Head(i.path), c |-> i.c,
                                path |-> i.path, par |-> i.par]>>)
             /\ UNCHANGED panicked
  /\ UNCHANGED <<load, done, lru, disk, isdir, open, cwd>>

\* eget(): a hit, or the least recently used entry without references
Hits(d, n) == {s \in Entry \ {root} : /\ slot[s].valid = 1 /\ slot[s].parent = d
                                      /\ slot[s].name = n}
Victims == {k \in DOMAIN lru : slot[lru[k]].ref = 0}
Victim == lru[CHOOSE k \in Victims : \A j \in Victims : j <= k]
Claim(s) == [slot EXCEPT ![s] = [@ EXCEPT !.ref = 1, !.valid = 0]]

\* dirlookup() up to the end of eget()
Eget(p) ==
  /\ At(p, "eget")
  /\ LET i == Next1(p) d == i.x h == Hits(d, i.name) IN
     CASE i.name = ".." ->
            LET x == IF d = root THEN root ELSE slot[d].parent IN
            /\ slot' = [slot EXCEPT ![x].ref = @ + 1]
            /\ Push(p, Found(i, x)) /\ UNCHANGED panicked
       [] i.name # ".." /\ slot[d].valid # 1 ->          \* the directory was removed
            /\ Push(p, IF i.path = <<>> /\ i.c.k = "create" THEN <<eunlock(d), eput(d)>> ELSE Missing(i))
            /\ UNCHANGED <<slot, panicked>>
       [] i.name # ".." /\ slot[d].valid = 1 /\ h # {} ->
            LET s == CHOOSE s \in h : TRUE IN
            /\ slot' = [slot EXCEPT ![s].ref = @ + 1,
                                    ![d].ref = @ + (IF slot[s].ref = 0 THEN 1 ELSE 0)]
            /\ Push(p, Found(i, s)) /\ UNCHANGED panicked
       [] i.name # ".." /\ slot[d].valid = 1 /\ h = {} ->
            IF Victims = {} THEN Panic(p, "eget: insufficient ecache") /\ UNCHANGED slot
            ELSE /\ slot' = Claim(Victim)
                 /\ Push(p, <<[op |-> "scan", s |-> Victim, i |-> i]>>)
                 /\ UNCHANGED panicked
  /\ UNCHANGED <<load, done, lru, disk, isdir, open, cwd>>

\* entry s is filled in as n of directory d: parent = edup(dp)
Adopt_NoEdup(sl, s, d, n, f) ==
  [sl EXCEPT ![s] = [@ EXCEPT !.valid = 1, !.parent = d, !.at = <<sl[d].file, n>>,
                              !.name = n, !.file = f]]
Adopt(sl, s, d, n, f) ==
  [sl EXCEPT ![d].ref = @ + 1,
             ![s] = [@ EXCEPT !.valid = 1, !.parent = d, !.at = <<sl[d].file, n>>,
                              !.name = n, !.file = f]]

\* dirlookup() reads the directory: the entry becomes valid, or is put back
Scan(p) ==
  /\ At(p, "scan")
  /\ LET s == Next1(p).s i == Next1(p).i d == i.x key == <<slot[d].file, i.name>> IN
     IF key \in DOMAIN disk
     THEN /\ slot' = Adopt(slot, s, d, i.name, disk[key])
          /\ Push(p, Found(i, s))
     ELSE Push(p, <<eput(s)>> \o Missing(i)) /\ UNCHANGED slot
  /\ UNCHANGED <<load, done, lru, disk, isdir, open, cwd, panicked>>

\* ealloc() when the name is new: another eget(), then the entry on disk
Fresh == File \ ({Root} \cup {disk[k] : k \in DOMAIN disk} \cup
                 {slot[s].file : s \in {t \in Entry : slot[t].ref > 0}})
Ealloc(p) ==
  /\ At(p, "ealloc")
  /\ LET i == Next1(p) d == i.x key == <<slot[d].file, i.c.name>> IN
     IF Victims = {} THEN Panic(p, "eget: insufficient ecache") /\ UNCHANGED <<slot, disk, isdir>>
     ELSE \E f \in Fresh :
       /\ slot' = Adopt(Claim(Victim), Victim, d, i.c.name, f)
       /\ disk' = With(disk, key, f)
       /\ isdir' = IF i.c.dir THEN isdir \cup {f} ELSE isdir \ {f}
       /\ Push(p, <<[op |-> "created", x |-> d, ep |-> Victim, c |-> i.c]>>)
       /\ UNCHANGED panicked
  /\ UNCHANGED <<load, done, lru, open, cwd>>

\* the end of create(); then open() keeps the entry and mkdir() puts it
AfterCreate(ep, dir) ==
  IF dir THEN <<eunlock(ep), eput(ep)>> ELSE <<[op |-> "opened", x |-> ep]>>
CreateEnd_LocksEarly(d, ep, dir) ==
  IF dir # (slot[ep].file \in isdir) THEN <<eunlock(d), eput(ep), eput(d)>>
  ELSE <<elock(ep), eunlock(d), eput(d)>> \o AfterCreate(ep, dir)
CreateEnd(d, ep, dir) ==
  IF dir # (slot[ep].file \in isdir) THEN <<eunlock(d), eput(ep), eput(d)>>
  ELSE <<eunlock(d), eput(d), elock(ep)>> \o AfterCreate(ep, dir)
Created(p) ==
  /\ At(p, "created")
  /\ LET i == Next1(p) IN Push(p, CreateEnd(i.x, i.ep, i.c.dir))
  /\ UNCHANGED <<load, done, slot, lru, disk, isdir, open, cwd, panicked>>

\* sys_open() with the entry locked
Opened(p) ==
  /\ At(p, "opened")
  /\ open' = [open EXCEPT ![p] = Append(@, Next1(p).x)]
  /\ Push(p, <<eunlock(Next1(p).x)>>)
  /\ UNCHANGED <<load, done, slot, lru, disk, isdir, cwd, panicked>>

Chdir(p) ==
  /\ At(p, "chdir")
  /\ LET x == Next1(p).x IN
     IF slot[x].file \notin isdir THEN Push(p, <<eunlock(x), eput(x)>>) /\ UNCHANGED cwd
     ELSE /\ Push(p, <<eunlock(x), eput(cwd[p])>>)
          /\ cwd' = [cwd EXCEPT ![p] = x]
  /\ UNCHANGED <<load, done, slot, lru, disk, isdir, open, panicked>>

\* sys_remove() with the entry locked; eremove() runs with the parent locked too
isdirempty(f) == ~\E key \in DOMAIN disk : key[1] = f
Remove(p) ==
  /\ At(p, "remove")
  /\ LET x == Next1(p).x up == slot[x].parent IN
     Push(p, IF slot[x].file \in isdir /\ ~isdirempty(slot[x].file)
             THEN <<eunlock(x), eput(x)>>
             ELSE <<elock(up), [op |-> "eremove", x |-> x], eunlock(up),
                    eunlock(x), eput(x)>>)
  /\ UNCHANGED <<load, done, slot, lru, disk, isdir, open, cwd, panicked>>

Eremove(p) ==
  /\ At(p, "eremove")
  /\ LET x == Next1(p).x IN
     IF slot[x].valid # 1 THEN UNCHANGED <<slot, disk>>
     ELSE slot' = [slot EXCEPT ![x].valid = -1] /\ disk' = Without(slot[x].at)
  /\ Pop(p)
  /\ UNCHANGED <<load, done, lru, isdir, open, cwd, panicked>>

\* sys_rename() found an entry of the new name: only a directory may replace a directory
Clash(p) ==
  /\ At(p, "clash")
  /\ LET i == Next1(p) d == i.x x == i.dst src == i.c.src IN
     Push(p, IF x = src \/ ~{slot[src].file, slot[x].file} \subseteq isdir
             THEN <<eunlock(src), eput(x), eput(d), eput(src)>>
             ELSE <<elock(x), [i EXCEPT !.op = "overwrite"]>>)
  /\ UNCHANGED <<load, done, slot, lru, disk, isdir, open, cwd, panicked>>

\* and only an empty one
Overwrite(p) ==
  /\ At(p, "overwrite")
  /\ LET i == Next1(p) d == i.x x == i.dst src == i.c.src IN
     Push(p, IF ~isdirempty(slot[x].file)
             THEN <<eunlock(x), eunlock(src), eput(x), eput(d), eput(src)>>
             ELSE <<elock(d), [op |-> "eremove", x |-> x], eunlock(x),
                    [op |-> "move", x |-> d, dst |-> x, c |-> i.c]>>)
  /\ UNCHANGED <<load, done, slot, lru, disk, isdir, open, cwd, panicked>>

\* sys_rename() writes the new entry at off, which dirlookup() does not set when the
\* target existed: emake() may then panic or write over any other entry
Move(p) ==
  /\ At(p, "move")
  /\ LET i == Next1(p) d == i.x src == i.c.src up == slot[src].parent
         key == <<slot[d].file, i.c.name>>
         Over == {key2 \in DOMAIN disk : key2[1] = slot[d].file /\ key2 # slot[src].at}
     IN \/ /\ i.dst # NULL
           /\ Panic(p, "emake: not aligned") /\ UNCHANGED <<slot, disk>>
        \/ \E lost \in {{}} \cup (IF i.dst = NULL THEN {} ELSE {{k2} : k2 \in Over}) :
           /\ disk' = With([k2 \in DOMAIN disk \ lost |-> disk[k2]], key, slot[src].file)
           /\ slot' = [slot EXCEPT ![src].name = i.c.name]
           /\ Push(p, (IF up = d THEN <<>> ELSE <<eunlock(d), elock(up)>>) \o
                      <<[op |-> "moved", x |-> d, dst |-> i.dst, c |-> i.c, key |-> key]>>)
           /\ UNCHANGED panicked
  /\ UNCHANGED <<load, done, lru, isdir, open, cwd>>

\* eremove(src), eunlock(src->parent) and edup(pdst)
Moved(p) ==
  /\ At(p, "moved")
  /\ LET i == Next1(p) d == i.x src == i.c.src up == slot[src].parent IN
     /\ disk' = IF slot[src].valid = 1 THEN Without(slot[src].at) ELSE disk
     /\ slot' = [slot EXCEPT ![up].lock = NoProc,
                             ![d].ref = @ + 1,
                             ![src] = [@ EXCEPT !.parent = d, !.at = i.key, !.valid = 1]]
     /\ Push(p, <<eunlock(src), eput(up)>> \o
                (IF i.dst = NULL THEN <<>> ELSE <<eput(i.dst)>>) \o
                <<eput(d), eput(src)>>)
  /\ UNCHANGED <<load, done, lru, isdir, open, cwd, panicked>>

-----------------------------------------------------------------------------
(* System calls.  A call is [k, path, name, new, dir, src]. *)
Idle(p) == todo[p] = <<>> /\ panicked = "none"

More(p) == done[p] < Len(load.calls[p])
Now(p) == load.calls[p][done[p] + 1]
Call(p) ==
  /\ Idle(p) /\ More(p) /\ Now(p).k # "close"
  /\ LET c == Now(p) IN
     todo' = [todo EXCEPT ![p] =
                <<[op |-> "start", path |-> c.path, par |-> c.k = "create", c |-> c]>>]
  /\ done' = [done EXCEPT ![p] = @ + 1]
  /\ UNCHANGED <<load, slot, lru, disk, isdir, open, cwd, panicked>>

\* close() of every open file, as exit() does too
Close(p) ==
  /\ Idle(p) /\ More(p) /\ Now(p).k = "close"
  /\ todo' = [todo EXCEPT ![p] = [k \in DOMAIN open[p] |-> eput(open[p][k])]]
  /\ open' = [open EXCEPT ![p] = <<>>]
  /\ done' = [done EXCEPT ![p] = @ + 1]
  /\ UNCHANGED <<load, slot, lru, disk, isdir, cwd, panicked>>

\* fat32_init(), and the root as the current directory of every process
Init ==
  /\ load \in Loads /\ done = [p \in Procs |-> 0]
  /\ disk \in Disks /\ isdir = {Root} \cup Dirs
  /\ slot = [s \in Entry |->
               [ref |-> IF s = root THEN Cardinality(Procs) ELSE 0,
                valid |-> IF s = root THEN 1 ELSE 0,
                parent |-> NULL, name |-> "", file |-> Root, at |-> <<Root, "">>,
                lock |-> NoProc]]
  /\ lru = [k \in 1..ENTRY_CACHE_NUM |-> ENTRY_CACHE_NUM + 1 - k]
  /\ todo = [p \in Procs |-> <<>>] /\ open = [p \in Procs |-> <<>>]
  /\ cwd = [p \in Procs |-> root] /\ panicked = "none"

Next == \E p \in Procs :
  \/ Call(p) \/ Close(p) \/ Start(p) \/ LockDir(p) \/ Eget(p) \/ Scan(p)
  \/ Elock(p) \/ Eunlock(p) \/ Eput(p) \/ Etrunc(p) \/ Release(p)
  \/ Drop(p) \/ Reread(p) \/ Ealloc(p) \/ Created(p) \/ Opened(p) \/ Chdir(p)
  \/ Remove(p) \/ Eremove(p) \/ Clash(p) \/ Overwrite(p) \/ Move(p) \/ Moved(p)
Spec == Init /\ [][Next]_vars

-----------------------------------------------------------------------------
(***************************************************************************)
(* Properties                                                              *)
(***************************************************************************)
\* "ref == 1 means no other process can have entry locked, so this acquiresleep() won't
\* block" (fat32.c:765-766), and elock() and eunlock() always find a reference, even
\* when processes meet in a directory.
LockAssertions == panicked \notin {"elock", "eunlock", "sched locks"}

\* The same of processes that each work in a directory of their own.
NoPanic == ~load.shared => LockAssertions

\* Between system calls an entry has a reference for each of its open files, each
\* process whose current directory it is and each cached entry in use below it, so that
\* nobody's directory is reused under it; and no more than those when one process runs
\* alone: no error path leaks.  (With two, the test of entry->ref at fat32.c:790 leaks
\* the parent's reference when eget() takes the entry between the decrement and it.)
Users(x) ==
  Cardinality({<<p, k>> \in Procs \X (1..3) : k \in DOMAIN open[p] /\ open[p][k] = x})
  + Cardinality({p \in Procs : cwd[p] = x})
  + Cardinality({s \in Entry : slot[s].ref > 0 /\ slot[s].parent = x})
Alone == \E p \in Procs : \A q \in Procs \ {p} : load.calls[q] = <<>>
RefsExact == (~load.shared /\ \A p \in Procs : Idle(p)) =>
  \A x \in Entry : slot[x].ref >= Users(x) /\ (Alone => slot[x].ref = Users(x))

\* A cached entry is found by the address of its parent (fat32.c:439-442), so while it
\* is valid that address must still hold the directory it was read from, although an
\* unused entry does not keep its parent from being reused: the order of the LRU list
\* must have every unused entry replaced before its parent.
NoStaleChild == ~load.shared /\ ~load.over =>
  \A s \in Entry \ {root} :
    (slot[s].valid = 1 /\ slot[s].lock = NoProc) =>
      /\ slot[s].parent # NULL
      /\ slot[slot[s].parent].valid = 1
      /\ slot[s].at = <<slot[slot[s].parent].file, slot[s].name>>
      /\ OnDisk(slot[s].at[1], slot[s].at[2]) /\ disk[slot[s].at] = slot[s].file

\* Every process locks an entry before its parent and never the other way round: no
\* cycle of processes that wait for each other's locks ("Will this lead to
\* deadlock?", sysfile.c:406).
WaitsFor(p) == IF todo[p] # <<>> /\ Next1(p).op \in {"elock", "lockdir"}
               THEN {slot[Next1(p).x].lock} \ {NoProc} ELSE {}
NoLockCycle == panicked = "none" =>
  ~\E c \in SUBSET Procs : c # {} /\ \A p \in c : WaitsFor(p) \cap c # {}
=============================================================================
