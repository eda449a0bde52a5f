-------------------------------- MODULE Shell --------------------------------
(***************************************************************************)
(* The user programs that share open files: /init starts the shell, the    *)
(* shell forks for each command and runcmd() connects the processes of a   *)
(* command with pipes and redirections; cat and echo are what they run.    *)
(* The commands are trees, as parsecmd() returns them.                     *)
(***************************************************************************)
EXTENDS Files

CONSTANTS
  Names,       \* the files on disk
  Commands     \* the commands that can be typed, with their parts

\* what parsecmd() returns
ASSUME CommandsAssumption == \A c \in Commands :
  \/ c.type = "EXEC" /\ c.prog \in {"echo", "cat", "none"} /\ (c.prog = "echo" => c.bytes \in Seq(Nat))
  \/ c.type = "REDIR" /\ c.cmd \in Commands /\ c.file \in Names /\ c.mode \in {"r", "w", "a"} /\ c.fd \in Nat
  \/ c.type \in {"LIST", "PIPE"} /\ c.left \in Commands /\ c.right \in Commands
  \/ c.type = "BACK" /\ c.cmd \in Commands
ASSUME NoneAssumption == None \notin Seq(Nat)
ASSUME LoadsAssumption == IsFiniteSet(Procs) /\ Procs \subseteq Nat /\ INIT \in Procs /\ \A l \in Loads :
  /\ l.nfile \in Nat /\ l.nofile \in Nat /\ l.npipe \in Nat /\ l.faults \in Nat
  /\ l.nproc \in Nat /\ 1..l.nproc \subseteq Procs /\ None \notin 1..l.nfile
  /\ l.input \in Seq(Commands) /\ l.disk \in [Names -> {None} \cup Seq(Nat)]

VARIABLE input      \* the lines typed at the console and not yet read

close(fd) == [op |-> "close", fd |-> fd]
dup(fd) == [op |-> "dup", fd |-> fd]
read(fd) == [op |-> "read", fd |-> fd]
write(fd, b) == [op |-> "write", fd |-> fd, bytes |-> b]
open(e, mode) == [op |-> "open", e |-> e, mode |-> mode]
fork(child) == [op |-> "fork", child |-> child]
runcmd(c) == [op |-> "runcmd", c |-> c]
dev == [op |-> "dev"]
wait == [op |-> "wait"]
exit == [op |-> "exit"]
\* the program leaves if the call before has failed
orExit == [op |-> "orexit"]
\* p[0] and p[1] of runcmd()
P0 == -1
P1 == -2

\* the cases of runcmd(): what the process does, and what its children do
Redir_NoClose(c) == <<open(c.file, c.mode), orExit, runcmd(c.cmd)>>
Redir(c) == <<close(c.fd), open(c.file, c.mode), orExit, runcmd(c.cmd)>>
List(c) == <<fork(<<runcmd(c.left)>>), orExit, wait, runcmd(c.right)>>
Left(c) == <<close(1), dup(P1), close(P0), close(P1), runcmd(c.left)>>
Right(c) == <<close(0), dup(P0), close(P0), close(P1), runcmd(c.right)>>
PipeEnd_KeepsWriter(c) == <<close(P0), wait, wait, exit>>
PipeEnd(c) == <<close(P0), close(P1), wait, wait, exit>>
PipeCmd(c) == <<[op |-> "pipe"], orExit, fork(Left(c)), orExit, fork(Right(c)), orExit>> \o PipeEnd(c)
Back(c) == <<fork(<<runcmd(c.cmd)>>), orExit, exit>>
Exec(c) == CASE c.prog = "echo" -> <<write(1, c.bytes), exit>>
             [] c.prog = "cat" -> <<read(0), [op |-> "cat"]>>
             [] c.prog = "none" -> <<exit>>         \* exec() fails, or main() returns at once
Runcmd(p) ==
  /\ At(p, "runcmd")
  /\ LET c == Now(p).c IN
     Becomes(p, [pr[p] EXCEPT !.todo =
       CASE c.type = "EXEC" -> Exec(c) [] c.type = "REDIR" -> Redir(c) [] c.type = "LIST" -> List(c)
         [] c.type = "PIPE" -> PipeCmd(c) [] c.type = "BACK" -> Back(c)])
  /\ UNCHANGED <<load, file, pipe, entry, out, faults>>

OrExit(p) ==
  /\ At(p, "orexit")
  /\ Becomes(p, IF pr[p].ret < 0 THEN [pr[p] EXCEPT !.todo = <<exit>>] ELSE Go(p, <<>>))
  /\ UNCHANGED <<load, file, pipe, entry, out, faults>>

\* the loop of cat(), after read()
Cat(p) ==
  /\ At(p, "cat")
  /\ Becomes(p, Go(p, IF pr[p].ret > 0 THEN <<write(1, pr[p].buf), orExit, read(0), [op |-> "cat"]>>
                      ELSE <<exit>>))
  /\ UNCHANGED <<load, file, pipe, entry, out, faults>>

\* the first loop of the shell's main(): three descriptors are open
ShellDev(p) ==
  /\ At(p, "shelldev")
  /\ Becomes(p, Go(p, IF pr[p].ret < 0 THEN <<>> ELSE IF pr[p].ret >= 3 THEN <<close(pr[p].ret)>>
                      ELSE <<dev, [op |-> "shelldev"]>>))
  /\ UNCHANGED <<load, file, pipe, entry, out, faults>>

\* the second one; without input the shell waits for it
Shell(p) ==
  /\ At(p, "shell") /\ input # <<>>
  /\ Becomes(p, Go(p, <<fork(<<runcmd(Head(input))>>), orExit, wait, [op |-> "shell"]>>))
  /\ input' = Tail(input)
  /\ UNCHANGED <<load, file, pipe, entry, out, faults>>

\* /init: the shell is started again when it is gone; other children are orphans
Sh == <<dev, [op |-> "shelldev"], [op |-> "shell"]>>
StartSh == <<fork(Sh), orExit, [op |-> "started"]>>
InitWait(p) ==
  /\ At(p, "started") \/ At(p, "initwait")
  /\ LET pid == IF At(p, "started") THEN pr[p].ret ELSE Now(p).pid IN
     Becomes(p, Go(p, IF At(p, "initwait") /\ pr[p].ret = pid THEN StartSh
                      ELSE <<wait, [op |-> "initwait", pid |-> pid]>>))
  /\ UNCHANGED <<load, file, pipe, entry, out, faults>>

Init ==
  /\ load \in Loads /\ input = load.input
  /\ file = [f \in 1..load.nfile |-> Closed] /\ pipe = [i \in 1..load.npipe |-> NoPipe]
  /\ entry = [e \in DOMAIN load.disk |-> [ref |-> 0, bytes |-> load.disk[e]]]
  /\ out = <<>> /\ faults = load.faults
  /\ pr = [q \in Procs |-> IF q # INIT THEN Unused ELSE
             [Unused EXCEPT !.st = "live", !.todo = <<dev, dup(0), dup(0)>> \o StartSh]]

Step(p) ==
  \/ /\ Call(p) \/ Runcmd(p) \/ OrExit(p) \/ Cat(p) \/ ShellDev(p) \/ InitWait(p)
     /\ UNCHANGED input
  \/ Shell(p)
Next == \E p \in Procs : Step(p)
svars == <<vars, input>>
Spec == Init /\ [][Next]_svars /\ \A p \in Procs : WF_svars(Step(p))
-----------------------------------------------------------------------------
(***************************************************************************)
(* Properties                                                              *)
(***************************************************************************)
\* what the local variables of a step of a call refer to, and what an open file does
Refers(s, j) ==
  CASE "own" \in DOMAIN s /\ j <= Len(s.own) -> <<"file", s.own[j]>>
    [] s.op \in {"eput", "opened"} /\ j = 1 -> <<"entry", s.e>>
    [] s.op = "pipeclose" /\ j = 1 -> <<"end", s.i, s.writable>>
    [] OTHER -> <<"nothing">>
Target(x) == IF x.type = "pipe" THEN <<"end", x.to, x.writable>>
             ELSE IF x.type = "entry" THEN <<"entry", x.to>> ELSE <<"nothing">>

\* the steps of calls under way come first, and are at most three
Pending(x) == {z \in Procs \X (1..3) \X (1..2) :
                 z[2] \in DOMAIN pr[z[1]].todo /\ Refers(pr[z[1]].todo[z[2]], z[3]) = x}
OpenFiles(x) == {f \in DOMAIN file : file[f].ref > 0 /\ Target(file[f]) = x}
Descriptors(f) == {z \in Procs \X Fds : pr[z[1]].ofile[z[2]] = f}
Users(x) == Cardinality(OpenFiles(x)) + Cardinality(Pending(x))

\* Whichever of their steps failed, fork(), exit(), dup(), open(), dev(), pipe() and
\* close() leave as many references in a file and in an entry as there are descriptors
\* and files that use it.
RefsExact ==
  /\ \A f \in DOMAIN file :
       file[f].ref = Cardinality(Descriptors(f)) + Cardinality(Pending(<<"file", f>>))
  /\ \A e \in DOMAIN entry : entry[e].ref = Users(<<"entry", e>>)

\* An end of a pipe is open as long as some process has a descriptor for it, or has not
\* yet finished closing the last one; the page of a pipe is free exactly when both are
\* closed.
PipeEndsOpen == \A i \in DOMAIN pipe :
  /\ Users(<<"end", i, TRUE>>) = IF pipe[i].writeopen THEN 1 ELSE 0
  /\ Users(<<"end", i, FALSE>>) = IF pipe[i].readopen THEN 1 ELSE 0
  /\ pipe[i].alloc = (pipe[i].readopen \/ pipe[i].writeopen)

Prompt(p) == At(p, "shell") /\ input = <<>>
Done == \E p \in Procs : Prompt(p) /\ \A q \in Procs \ {p, INIT} : pr[q].st = "unused"

\* When the commands are done the console has what they print, and the files what was
\* redirected to them: every byte came through the pipes once, to the right descriptor.
OutputRight == (Done /\ load.faults = 0 /\ load.ok) =>
  out \in load.prints /\ \A e \in DOMAIN load.leaves : entry[e].bytes = load.leaves[e]

\* Every command ends and the shell asks for the next one: readers see the end of a pipe
\* because every copy of its writing end is closed, also when a pipe(), a fork() or an
\* open() failed; and no process is left over.  (/init leaves only if its own fork() fails.)
ShellReturns == <>(Done \/ At(INIT, "exit"))
-----------------------------------------------------------------------------
(***************************************************************************)
(* The inductive invariant.                                                *)
(***************************************************************************)
\* Steps of programs, of which children start with whole sequences, and of calls.
Children ==
  {<<runcmd(c)>> : c \in Commands} \cup {Sh} \cup
  UNION {{Left(c), Right(c)} : c \in {d \in Commands : d.type = "PIPE"}}
ProgramStep ==
  [op : {"close", "dup", "read"}, fd : Int] \cup [op : {"write"}, fd : Int, bytes : Seq(Nat)] \cup
  [op : {"open"}, e : Names, mode : {"r", "w", "a"}] \cup [op : {"fork"}, child : Children] \cup
  [op : {"runcmd"}, c : Commands] \cup [op : {"initwait"}, pid : Int] \cup
  [op : {"dev", "wait", "exit", "orexit", "pipe", "cat", "shelldev", "shell", "started"}]
CallOps == {"fileclose", "pipeclose", "eput", "opened", "pipe2", "pipe3"}
CallStep ==
  [op : {"fileclose", "pipe2"}, own : [1..1 -> DOMAIN file]] \cup
  [op : {"pipe3"}, own : [1..2 -> DOMAIN file]] \cup [op : {"eput"}, e : Names] \cup
  [op : {"opened"}, e : Names, mode : {"r", "w", "a"}] \cup
  [op : {"pipeclose"}, i : DOMAIN pipe, writable : BOOLEAN]

ShTypeOK ==
  /\ load \in Loads /\ input \in Seq(Commands) /\ out \in Seq(Nat) /\ faults \in Nat
  /\ file \in [1..load.nfile ->
       [type : {"none", "device", "entry", "pipe"}, ref : Nat, readable : BOOLEAN, writable : BOOLEAN,
        to : {None} \cup Names \cup (1..load.npipe), off : Nat]]
  /\ pipe \in [1..load.npipe -> [alloc : BOOLEAN, readopen : BOOLEAN, writeopen : BOOLEAN, data : Seq(Nat)]]
  /\ entry \in [Names -> [ref : Nat, bytes : {None} \cup Seq(Nat)]]
  /\ pr \in [Procs ->
       [st : {"unused", "live", "zombie"}, parent : Procs \cup {0}, ofile : [Fds -> {None} \cup DOMAIN file],
        todo : Seq(ProgramStep \cup CallStep), p : Nat \X Nat, ret : Int, buf : Seq(Nat)]]

\* Only live processes have descriptors and something to do.
OnlyLive ==
  \A p \in Procs : pr[p].st # "live" =>
    pr[p].todo = <<>> /\ \A fd \in Fds : pr[p].ofile[fd] = None

\* What is left of a call comes before what is left of the program: one step, or two of
\* those that give something back.
CallFirst ==
  \A p \in Procs : \A k \in DOMAIN pr[p].todo : pr[p].todo[k].op \in CallOps =>
    \/ k = 1
    \/ /\ k = 2 /\ pr[p].todo[2].op \in {"fileclose", "eput"}
       /\ pr[p].todo[1].op \in {"fileclose", "pipeclose", "eput"}

\* A file that has not been opened yet has one reference, which is not a descriptor.
Opening ==
  /\ \A f \in DOMAIN file :
       /\ file[f].type = "none" => file[f].ref <= 1
       /\ file[f].type = "pipe" => file[f].to \in DOMAIN pipe /\ file[f].readable = ~file[f].writable
       /\ file[f].type = "entry" => file[f].to \in Names /\ entry[file[f].to].bytes # None
       /\ file[f].ref = 0 => file[f].type = "none"
  /\ \A p \in Procs, fd \in Fds : pr[p].ofile[fd] # None => file[pr[p].ofile[fd]].type # "none"
  /\ \A p \in Procs : At(p, "pipe2") \/ At(p, "pipe3") =>
       \A j \in DOMAIN Now(p).own : file[Now(p).own[j]].type = "none"
  /\ \A p \in Procs : At(p, "pipe3") => Now(p).own[1] # Now(p).own[2]
  /\ \A p \in Procs : At(p, "opened") => entry[Now(p).e].bytes # None

ShIndInv ==
  /\ ShTypeOK /\ OnlyLive /\ CallFirst /\ Opening /\ RefsExact /\ PipeEndsOpen
=============================================================================
