-------------------------------- MODULE Files --------------------------------
(***************************************************************************)
(* Open files: the file table of file.c, the descriptors of a process, the *)
(* system calls of sysfile.c that take a file and then a descriptor for    *)
(* it, and what fork(), exit() and wait() of proc.c do with them.          *)
(*                                                                         *)
(* A step is one critical section under ftable.lock or a pipe's lock, with *)
(* what the process does to its own descriptors, and to a file nobody else *)
(* has yet, before the next one.  todo is what a process has still to do,  *)
(* in the kernel and then in its program; "own" are the references of a    *)
(* step's local variables.  A pipe is its two flags and its bytes (Pipe    *)
(* has the rest of it), a file on disk its bytes and its references (Fat,  *)
(* ECache).                                                                *)
(***************************************************************************)
EXTENDS Integers, Sequences, FiniteSets

CONSTANTS
  Procs,       \* 1..NPROC; 1 is init
  PIPESIZE,
  Loads,       \* what the shell is told, with the sizes of the tables
  None
ASSUME PipeSizeAssumption == PIPESIZE \in Nat \ {0}

VARIABLES
  load,
  file,        \* ftable
  pipe,        \* the pages pipes are in
  entry,       \* the files on disk
  pr,          \* processes
  out,         \* what was written to the console
  faults       \* how often memory may still fail
vars == <<load, file, pipe, entry, pr, out, faults>>

INIT == 1
Fds == 0..(load.nofile - 1)
Unused == [st |-> "unused", parent |-> 0, ofile |-> [fd \in Fds |-> None], todo |-> <<>>,
           p |-> <<0, 0>>, ret |-> 0, buf |-> <<>>]
Closed == [type |-> "none", ref |-> 0, readable |-> FALSE, writable |-> FALSE, to |-> None, off |-> 0]
NoPipe == [alloc |-> FALSE, readopen |-> FALSE, writeopen |-> FALSE, data |-> <<>>]
Lowest(S) == {x \in S : \A y \in S : x <= y}

At(p, op) == pr[p].st = "live" /\ pr[p].todo # <<>> /\ Head(pr[p].todo).op = op
Now(p) == Head(pr[p].todo)
\* p's call goes on with steps, or returns r with steps before it
Go(p, steps) == [pr[p] EXCEPT !.todo = steps \o Tail(@)]
Ret(p, r, steps) == [Go(p, steps) EXCEPT !.ret = r]
Becomes(p, x) == pr' = [pr EXCEPT ![p] = x]
\* a descriptor a program names: a number, or p[0] or p[1] of its last pipe()
Fd(p, n) == IF n >= 0 THEN n ELSE pr[p].p[-n]
\* argfd()
ArgFd(p, n) == IF Fd(p, n) \in Fds THEN pr[p].ofile[Fd(p, n)] ELSE None

fileclose(f) == [op |-> "fileclose", own |-> <<f>>]
eput(e) == [op |-> "eput", e |-> e]
filealloc == Lowest({f \in DOMAIN file : file[f].ref = 0})
fdalloc(ofile) == Lowest({fd \in Fds : ofile[fd] = None})

-----------------------------------------------------------------------------
(* close and dup *)
Close(p) ==
  /\ At(p, "close")
  /\ LET f == ArgFd(p, Now(p).fd) IN
     IF f = None THEN Becomes(p, Ret(p, -1, <<>>))
     ELSE Becomes(p, [Ret(p, 0, <<fileclose(f)>>) EXCEPT !.ofile[Fd(p, Now(p).fd)] = None])
  /\ UNCHANGED <<load, file, pipe, entry, out, faults>>

\* fileclose() with the last reference: what follows, on a copy of the file
LastClose_Reader(x) == IF x.type = "pipe" THEN <<[op |-> "pipeclose", i |-> x.to, writable |-> x.readable]>>
                       ELSE IF x.type = "entry" THEN <<eput(x.to)>> ELSE <<>>
LastClose(x) == IF x.type = "pipe" THEN <<[op |-> "pipeclose", i |-> x.to, writable |-> x.writable]>>
                ELSE IF x.type = "entry" THEN <<eput(x.to)>> ELSE <<>>
Fileclose(p) ==
  /\ At(p, "fileclose")
  /\ LET f == Now(p).own[1] x == file[f] IN
     /\ file' = [file EXCEPT ![f].ref = @ - 1, ![f].type = IF x.ref = 1 THEN "none" ELSE @]
     /\ Becomes(p, Go(p, IF x.ref = 1 THEN LastClose(x) ELSE <<>>))
  /\ UNCHANGED <<load, pipe, entry, out, faults>>

Pipeclose(p) ==
  /\ At(p, "pipeclose")
  /\ LET i == Now(p) x == pipe[i.i]
         y == IF i.writable THEN [x EXCEPT !.writeopen = FALSE] ELSE [x EXCEPT !.readopen = FALSE]
     IN pipe' = [pipe EXCEPT ![i.i] = IF y.readopen \/ y.writeopen THEN y ELSE NoPipe]
  /\ Becomes(p, Go(p, <<>>))
  /\ UNCHANGED <<load, file, entry, out, faults>>

Eput(p) ==
  /\ At(p, "eput")
  /\ entry' = [entry EXCEPT ![Now(p).e].ref = @ - 1] /\ Becomes(p, Go(p, <<>>))
  /\ UNCHANGED <<load, file, pipe, out, faults>>

Dup(p) ==
  /\ At(p, "dup")
  /\ LET f == ArgFd(p, Now(p).fd) IN
     IF f = None \/ fdalloc(pr[p].ofile) = {} THEN Becomes(p, Ret(p, -1, <<>>)) /\ UNCHANGED file
     ELSE \E fd \in fdalloc(pr[p].ofile) :
            /\ file' = [file EXCEPT ![f].ref = @ + 1]
            /\ Becomes(p, [Ret(p, fd, <<>>) EXCEPT !.ofile[fd] = f])
  /\ UNCHANGED <<load, pipe, entry, out, faults>>

-----------------------------------------------------------------------------
(* dev and open *)
\* filealloc() and fdalloc(); before is what is left to undo when one of them fails
TakeFile(p, x, before) ==
  IF filealloc = {} THEN Becomes(p, Ret(p, -1, before)) /\ UNCHANGED file
  ELSE \E f \in filealloc :
         IF fdalloc(pr[p].ofile) = {}
         THEN /\ file' = [file EXCEPT ![f].ref = 1]
              /\ Becomes(p, Ret(p, -1, <<fileclose(f)>> \o before))
         ELSE \E fd \in fdalloc(pr[p].ofile) :
                /\ file' = [file EXCEPT ![f] = x]
                /\ Becomes(p, [Ret(p, fd, <<>>) EXCEPT !.ofile[fd] = f])
Dev(p) ==
  /\ At(p, "dev")
  /\ TakeFile(p, [Closed EXCEPT !.type = "device", !.ref = 1, !.readable = TRUE, !.writable = TRUE], <<>>)
  /\ UNCHANGED <<load, pipe, entry, out, faults>>

\* ename() or create() has returned the entry; mode is "r", "w" (O_WRONLY|O_CREATE|O_TRUNC)
\* or "a" (O_WRONLY|O_CREATE|O_APPEND)
Open(p) ==
  /\ At(p, "open")
  /\ LET i == Now(p) IN
     IF i.mode = "r" /\ entry[i.e].bytes = None THEN Becomes(p, Ret(p, -1, <<>>)) /\ UNCHANGED entry
     ELSE /\ entry' = [entry EXCEPT ![i.e].ref = @ + 1, ![i.e].bytes = IF @ = None THEN <<>> ELSE @]
          /\ Becomes(p, Go(p, <<[i EXCEPT !.op = "opened"]>>))
  /\ UNCHANGED <<load, file, pipe, out, faults>>
Opened(p) ==
  /\ At(p, "opened")
  /\ LET i == Now(p) w == i.mode # "r" IN
     /\ TakeFile(p, [type |-> "entry", ref |-> 1, readable |-> ~w, writable |-> w, to |-> i.e,
                     off |-> IF i.mode = "a" THEN Len(entry[i.e].bytes) ELSE 0], <<eput(i.e)>>)
     /\ entry' = IF i.mode = "w" /\ filealloc # {} /\ fdalloc(pr[p].ofile) # {}
                 THEN [entry EXCEPT ![i.e].bytes = <<>>] ELSE entry
  /\ UNCHANGED <<load, pipe, out, faults>>

-----------------------------------------------------------------------------
(* pipe: pipealloc() takes two files and a page, sys_pipe() two descriptors *)
Pipe1(p) ==
  /\ At(p, "pipe")
  /\ IF filealloc = {} THEN Becomes(p, Ret(p, -1, <<>>)) /\ UNCHANGED file
     ELSE \E f \in filealloc : /\ file' = [file EXCEPT ![f].ref = 1]
                               /\ Becomes(p, Go(p, <<[op |-> "pipe2", own |-> <<f>>]>>))
  /\ UNCHANGED <<load, pipe, entry, out, faults>>
Pipe2(p) ==
  /\ At(p, "pipe2")
  /\ LET rf == Now(p).own[1] IN
     IF filealloc = {} THEN Becomes(p, Ret(p, -1, <<fileclose(rf)>>)) /\ UNCHANGED file
     ELSE \E f \in filealloc : /\ file' = [file EXCEPT ![f].ref = 1]
                               /\ Becomes(p, Go(p, <<[op |-> "pipe3", own |-> <<rf, f>>]>>))
  /\ UNCHANGED <<load, pipe, entry, out, faults>>

\* both ends are given up, with the descriptors fds that were taken for them
PipeFails_KeepsFd(x, rf, wf, fds) == [x EXCEPT !.ret = -1, !.todo = <<fileclose(rf), fileclose(wf)>> \o Tail(@)]
PipeFails(x, rf, wf, fds) ==
  [x EXCEPT !.ret = -1, !.todo = <<fileclose(rf), fileclose(wf)>> \o Tail(@),
            !.ofile = [fd \in Fds |-> IF fd \in fds THEN None ELSE @[fd]]]
Pipe3(p) ==
  LET rf == Now(p).own[1] wf == Now(p).own[2]
      pages == Lowest({i \in DOMAIN pipe : ~pipe[i].alloc})
      End(i, w) == [Closed EXCEPT !.type = "pipe", !.ref = 1, !.readable = ~w, !.writable = w, !.to = i]
  IN
  /\ At(p, "pipe3")
  /\ IF pages = {} THEN Becomes(p, Ret(p, -1, <<fileclose(rf), fileclose(wf)>>)) /\ UNCHANGED <<file, pipe, faults>>
     ELSE /\ \E i \in pages :
               /\ pipe' = [pipe EXCEPT ![i] = [alloc |-> TRUE, readopen |-> TRUE, writeopen |-> TRUE, data |-> <<>>]]
               /\ file' = [file EXCEPT ![rf] = End(i, FALSE), ![wf] = End(i, TRUE)]
          /\ LET fd0 == fdalloc(pr[p].ofile)
                 fd1 == IF fd0 = {} THEN {} ELSE fdalloc([fd \in Fds |-> IF fd \in fd0 THEN rf ELSE pr[p].ofile[fd]])
                 x == [pr[p] EXCEPT !.ofile = [fd \in Fds |->
                         IF fd \in fd0 THEN rf ELSE IF fd \in fd1 THEN wf ELSE @[fd]]]
             IN \/ fd1 = {} /\ Becomes(p, PipeFails(x, rf, wf, fd0)) /\ UNCHANGED faults
                \/ /\ fd1 # {} /\ UNCHANGED faults
                   /\ \E a \in fd0, b \in fd1 :
                        Becomes(p, [x EXCEPT !.p = <<a, b>>, !.ret = 0, !.todo = Tail(@)])
                \/ /\ fd1 # {} /\ faults > 0 /\ faults' = faults - 1      \* copyout2() fails
                   /\ Becomes(p, PipeFails(x, rf, wf, fd0 \cup fd1))
  /\ UNCHANGED <<load, entry, out>>

-----------------------------------------------------------------------------
(* read and write *)
Read(p) ==
  /\ At(p, "read")
  /\ LET f == ArgFd(p, Now(p).fd) IN
     IF f = None \/ (f # None /\ ~file[f].readable)
     THEN Becomes(p, [Ret(p, -1, <<>>) EXCEPT !.buf = <<>>]) /\ UNCHANGED <<file, pipe>>
     ELSE \/ /\ file[f].type = "pipe"
             /\ LET x == pipe[file[f].to] IN
                /\ x.data # <<>> \/ ~x.writeopen
                /\ Becomes(p, [Ret(p, Len(x.data), <<>>) EXCEPT !.buf = x.data])
                /\ pipe' = [pipe EXCEPT ![file[f].to].data = <<>>] /\ UNCHANGED file
          \/ /\ file[f].type = "entry"
             /\ LET b == entry[file[f].to].bytes
                    got == SubSeq(b, file[f].off + 1, Len(b))
                IN /\ Becomes(p, [Ret(p, Len(got), <<>>) EXCEPT !.buf = got])
                   /\ file' = [file EXCEPT ![f].off = @ + Len(got)] /\ UNCHANGED pipe
  /\ UNCHANGED <<load, entry, out, faults>>

\* pipewrite() looks at readopen only when the pipe is full
Write(p) ==
  /\ At(p, "write")
  /\ LET i == Now(p) f == ArgFd(p, i.fd) b == i.bytes IN
     IF f = None \/ (f # None /\ ~file[f].writable)
     THEN Becomes(p, Ret(p, -1, <<>>)) /\ UNCHANGED <<file, pipe, entry, out>>
     ELSE \/ /\ file[f].type = "pipe"
             /\ LET x == pipe[file[f].to] room == PIPESIZE - Len(x.data)
                    n == IF Len(b) < room THEN Len(b) ELSE room
                IN \/ /\ n > 0 /\ UNCHANGED <<file, entry, out>>
                      /\ pipe' = [pipe EXCEPT ![file[f].to].data = @ \o SubSeq(b, 1, n)]
                      /\ Becomes(p, IF n = Len(b) THEN Ret(p, 0, <<>>)
                                    ELSE Go(p, <<[i EXCEPT !.bytes = SubSeq(b, n + 1, Len(b))]>>))
                   \/ /\ n = 0 /\ ~x.readopen
                      /\ Becomes(p, Ret(p, -1, <<>>)) /\ UNCHANGED <<file, pipe, entry, out>>
          \/ /\ file[f].type = "entry"
             /\ LET c == entry[file[f].to].bytes o == file[f].off n == o + Len(b) IN
                \/ /\ o <= Len(c)
                   /\ entry' = [entry EXCEPT ![file[f].to].bytes =
                                  [k \in 1..(IF n > Len(c) THEN n ELSE Len(c)) |->
                                     IF k > o /\ k <= n THEN b[k - o] ELSE c[k]]]
                   /\ file' = [file EXCEPT ![f].off = n]
                   /\ Becomes(p, Ret(p, 0, <<>>))
                \/ /\ o > Len(c)      \* another process has cut the file: ewrite() fails
                   /\ Becomes(p, Ret(p, -1, <<>>)) /\ UNCHANGED <<file, entry>>
             /\ UNCHANGED <<pipe, out>>
          \/ /\ file[f].type = "device" /\ out' = out \o b
             /\ Becomes(p, Ret(p, 0, <<>>)) /\ UNCHANGED <<file, pipe, entry>>
  /\ UNCHANGED <<load, faults>>

-----------------------------------------------------------------------------
(* fork, exit and wait *)
Count(x, s) == Cardinality({k \in DOMAIN s : s[k] = x})
Slots == Lowest({q \in 1..load.nproc : pr[q].st = "unused"})
Fork(p) ==
  /\ At(p, "fork")
  /\ \/ /\ Slots = {} /\ Becomes(p, Ret(p, -1, <<>>)) /\ UNCHANGED <<file, faults>>
     \/ /\ Slots # {} /\ faults > 0 /\ faults' = faults - 1      \* allocproc() or uvmcopy() fails
        /\ Becomes(p, Ret(p, -1, <<>>)) /\ UNCHANGED file
     \/ \E q \in Slots :
          /\ pr' = [pr EXCEPT ![p] = Ret(p, q, <<>>),
               ![q] = [Unused EXCEPT !.st = "live", !.parent = p, !.ofile = pr[p].ofile,
                                     !.todo = Now(p).child, !.p = pr[p].p]]
          /\ file' = [f \in DOMAIN file |-> [file[f] EXCEPT !.ref = @ + Count(f, pr[p].ofile)]]
          /\ UNCHANGED faults
  /\ UNCHANGED <<load, pipe, entry, out>>

\* exit() closes the descriptors one after the other; then the process is a zombie and its
\* children are init's
Exit(p) ==
  /\ At(p, "exit") /\ p # INIT          \* panic("init exiting")
  /\ LET open == {fd \in Fds : pr[p].ofile[fd] # None} IN
     \/ \E fd \in Lowest(open) : Becomes(p, [pr[p] EXCEPT !.ofile[fd] = None,
                                                         !.todo = <<fileclose(pr[p].ofile[fd])>> \o @])
     \/ /\ open = {}
        /\ pr' = [q \in Procs |-> IF q = p THEN [pr[p] EXCEPT !.st = "zombie", !.todo = <<>>]
                                  ELSE IF pr[q].parent = p THEN [pr[q] EXCEPT !.parent = INIT] ELSE pr[q]]
  /\ UNCHANGED <<load, file, pipe, entry, out, faults>>

Wait(p) ==
  /\ At(p, "wait")
  /\ LET kids == {q \in Procs : pr[q].st # "unused" /\ pr[q].parent = p} IN
     \/ kids = {} /\ Becomes(p, Ret(p, -1, <<>>))
     \/ \E q \in Lowest({q \in kids : pr[q].st = "zombie"}) :
          pr' = [pr EXCEPT ![p] = Ret(p, q, <<>>), ![q] = Unused]
  /\ UNCHANGED <<load, file, pipe, entry, out, faults>>

Call(p) ==
  \/ Close(p) \/ Fileclose(p) \/ Pipeclose(p) \/ Eput(p) \/ Dup(p) \/ Dev(p) \/ Open(p) \/ Opened(p)
  \/ Pipe1(p) \/ Pipe2(p) \/ Pipe3(p) \/ Read(p) \/ Write(p) \/ Fork(p) \/ Exit(p) \/ Wait(p)
=============================================================================
