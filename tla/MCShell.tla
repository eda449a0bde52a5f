------------------------------- MODULE MCShell -------------------------------
(***************************************************************************)
(* Commands of the shell, with tables that suffice and with tables that    *)
(* are full, or memory that fails, at each place where that can happen.    *)
(***************************************************************************)
EXTENDS Shell, TLC

CONSTANTS words, copy      \* the files on disk

\* A step that touches nothing but the process itself commutes with the steps of all
\* others and no property sees it: it is taken at once.
Local(p) ==
  \/ \E op \in {"runcmd", "orexit", "cat", "shelldev", "started", "initwait", "close"} : At(p, op)
  \/ At(p, "exit") /\ p # INIT /\ \E fd \in Fds : pr[p].ofile[fd] # None
MCNext == \E p \in Procs :
  /\ Step(p)
  /\ (\E q \in Procs : Local(q)) => (Local(p) /\ \A q \in Procs : Local(q) => p <= q)
MCSpec == Init /\ [][MCNext]_svars /\ \A p \in Procs : WF_svars(Step(p))

echo(b) == [type |-> "EXEC", prog |-> "echo", bytes |-> b]
cat == [type |-> "EXEC", prog |-> "cat"]
nop == [type |-> "EXEC", prog |-> "none"]
redir(c, n, mode, fd) == [type |-> "REDIR", cmd |-> c, file |-> n, mode |-> mode, fd |-> fd]
To(c, n) == redir(c, n, "w", 1)
AddTo(c, n) == redir(c, n, "a", 1)
From(c, n) == redir(c, n, "r", 0)
bar(l, r) == [type |-> "PIPE", left |-> l, right |-> r]
seq(l, r) == [type |-> "LIST", left |-> l, right |-> r]
amp(c) == [type |-> "BACK", cmd |-> c]

\* enough of everything; prints are the outputs that are right, leaves the contents of files
Run(cmds, prints, leaves) ==
  [input |-> cmds, prints |-> prints, leaves |-> leaves, ok |-> TRUE,
   disk |-> (words :> <<1, 2, 3>> @@ copy :> None),
   nfile |-> 6, nofile |-> 5, npipe |-> 2, nproc |-> 6, faults |-> 0]
Same == words :> <<1, 2, 3>>
Nested == <<bar(echo(<<7>>), bar(cat, cat))>>
MCLoads ==
  {Run(<<bar(echo(<<7, 8, 9>>), cat)>>, {<<7, 8, 9>>}, Same),
   Run(<<bar(echo(<<7, 8, 9>>), nop), echo(<<5>>)>>, {<<5>>}, Same),
   Run(<<To(From(cat, words), copy), AddTo(echo(<<4>>), copy), From(cat, copy)>>,
       {<<1, 2, 3, 4>>}, copy :> <<1, 2, 3, 4>>),
   Run(<<seq(amp(echo(<<4>>)), bar(From(cat, words), To(cat, copy)))>>, {<<4>>}, copy :> <<1, 2, 3>>),
   Run(<<From(cat, copy), echo(<<5>>), To(echo(<<6>>), copy)>>, {<<5>>}, copy :> <<6>>),
   \* one appends to a file that the other cuts
   [Run(<<seq(amp(AddTo(echo(<<4>>), words)), To(echo(<<6>>), words))>>, {}, Same) EXCEPT !.ok = FALSE],
   [Run(Nested, {<<7>>}, Same) EXCEPT !.nproc = 7]} \cup
  \* too few files, pages, processes or descriptors
  {[Run(Nested, {}, Same) EXCEPT !.ok = FALSE, !.nfile = n] : n \in 1..4} \cup
  {[Run(Nested, {}, Same) EXCEPT !.ok = FALSE, !.npipe = 1],
   [Run(Nested, {}, Same) EXCEPT !.ok = FALSE, !.nofile = 4],
   [Run(Nested, {}, Same) EXCEPT !.ok = FALSE, !.nproc = 5],
   [Run(Nested, {}, Same) EXCEPT !.ok = FALSE, !.nproc = 4],
   [Run(<<bar(To(echo(<<7>>), copy), From(cat, words)), echo(<<5>>)>>, {}, Same) EXCEPT
      !.ok = FALSE, !.faults = 2],
   [Run(<<echo(<<5>>), bar(nop, nop), From(cat, words)>>, {}, Same) EXCEPT !.ok = FALSE, !.nofile = 1],
   [Run(<<From(From(cat, words), words)>>, {}, Same) EXCEPT !.ok = FALSE, !.nfile = 1]}

RECURSIVE Parts(_)
Parts(c) == {c} \cup (CASE c.type = "EXEC" -> {}
                       [] c.type \in {"REDIR", "BACK"} -> Parts(c.cmd)
                       [] c.type \in {"LIST", "PIPE"} -> Parts(c.left) \cup Parts(c.right))
MCCommands == UNION {Parts(l.input[k]) : <<l, k>> \in {x \in MCLoads \X (1..3) : x[2] <= Len(x[1].input)}}
=============================================================================
