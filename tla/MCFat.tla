-------------------------------- MODULE MCFat --------------------------------
(***************************************************************************)
(* Volumes of eleven clusters, two cells each, with a table of two sectors *)
(* that has entries for two clusters more; the calls of two processes.     *)
(***************************************************************************)
EXTENDS FatVolume, TLC

\* what FileStore sees of the state, kept in a variable so that it is computed once
VARIABLE view
MCInit == Init /\ view = View
MCNext == Next /\ view' = View'
MCSpec == MCInit /\ [][MCNext]_<<vars, view>>
Abs == INSTANCE FileStore WITH visible <- view.visible, handle <- view.handle, orphan <- view.orphan,
         at <- view.at, writing <- view.writing, got <- view.got
\* The calls implement the abstract files: bytes written are the bytes read, by this or
\* another process, before and after the entry left the cache, and nobody else's change.
ImplementsFileStore == Abs!Spec

i == <<"i">>
a == <<"a">>
b == <<"b", "c">>
d == <<"d">>
MCNames == {i, a, b, d, <<"e">>}
MCInitial == [n \in MCNames |-> 2]

Info(first, size) == [first |-> first, size |-> size, dir |-> FALSE]
\* the table with clusters 0 to 3 in use, the entries past the last cluster as the
\* formatting left them, and the clusters of bad marked
Table(tail, bad) == [c \in Cluster |-> IF c <= 3 THEN EOC ELSE IF c > LAST THEN tail
                                       ELSE IF c \in bad THEN BAD ELSE 0]
Blank == [c \in Cluster |-> Zeros]
\* a volume with one file of one byte, and one where the file a has three bytes
Small(tail, bad) ==
  [fat |-> Table(tail, bad),
   data |-> [Blank EXCEPT ![2] = (0 :> Long(i, 1) @@ 1 :> Short(<<>>, Info(3, 1))), ![3][0] = Byte(7)]]
Larger ==
  LET v == Small(0, {}) IN
  [fat |-> [v.fat EXCEPT ![2] = 4, ![4] = EOC, ![5] = 6, ![6] = EOC],
   data |-> [v.data EXCEPT ![4] = (0 :> Long(a, 1) @@ 1 :> Short(<<>>, Info(5, 3))),
                           ![5] = (0 :> Byte(7) @@ 1 :> Byte(8)), ![6][0] = Byte(9)]]

Open(n, create, trunc, append) ==
  [k |-> "open", name |-> n, create |-> create, trunc |-> trunc, append |-> append]
New(n) == Open(n, TRUE, FALSE, FALSE)
Old(n) == Open(n, FALSE, FALSE, FALSE)
Cut(n) == Open(n, FALSE, TRUE, FALSE)
App(n) == Open(n, TRUE, FALSE, TRUE)
Write(s) == [k |-> "write", bytes |-> [j \in DOMAIN s |-> Byte(s[j])]]
Read(n) == [k |-> "read", n |-> n]
Close == [k |-> "close"]
Mkdir(n) == [k |-> "mkdir", name |-> n]
Remove1(n) == [k |-> "remove", name |-> n]
Ren(n, new) == [k |-> "rename", name |-> n, new |-> new]

Run(vol, faulty, one, two) ==
  [calls |-> (CHOOSE f \in [Procs -> {one, two}] : one = two \/ \E p, q \in Procs : f[p] = one /\ f[q] = two),
   fat |-> vol.fat, data |-> vol.data, faults |-> faulty]
MCLoads == {
  \* two files grow at the same time, and with them the directory
  Run(Small(0, {}), TRUE, <<New(a), Write(<<1, 2, 3>>), Close>>, <<New(b), Write(<<4, 5>>), Close>>),
  \* one file is cut and grows again while another one grows
  Run(Larger, FALSE, <<Cut(a), Write(<<1>>), Close>>, <<App(i), Write(<<4, 5>>), Close>>),
  \* a file is removed, and made again, while it is open
  Run(Larger, FALSE, <<Old(a), Write(<<1, 2>>), Read(2), Close>>, <<Remove1(a), New(a), Write(<<4, 5, 6>>), Close>>),
  \* two processes have one file open, and one of them cuts it
  Run(Larger, TRUE, <<App(a), Write(<<1, 2, 3>>), Close>>, <<Old(a), Read(4), Read(4), Close>>),
  Run(Larger, FALSE, <<Cut(a), Write(<<1, 2, 3>>), Close>>, <<Old(a), Read(2), Write(<<4>>), Close, Remove1(a)>>),
  \* a file is renamed while another process has it open; the new name may be taken
  Run(Larger, FALSE, <<Ren(a, b), Old(b), Read(3), Close>>, <<Old(a), Write(<<1, 2, 3, 4>>), Close, Old(i), Close>>),
  Run(Larger, FALSE, <<Mkdir(d), Ren(d, a), Ren(a, i), Ren(a, a)>>, <<App(a), Write(<<4>>), Close, Remove1(d)>>),
  \* directories, names that need three slots, and slots that are free again
  Run(Larger, FALSE, <<Mkdir(d), Remove1(d), Mkdir(d)>>, <<Remove1(a), Mkdir(a)>>),
  Run(Larger, FALSE, <<New(b), Write(<<1>>), Close, Remove1(a), Remove1(b), New(d), Close, New(a), Close,
                       Old(b), New(b), Write(<<2, 3>>), Close, New(<<"e">>), Close, Old(i), Close, Old(b), Read(3), Close>>, <<>>),
  \* the volume is full before the calls are done
  Run(Small(0, {6, 7, 8, 9, 10}), FALSE, <<New(a), Write(<<1, 2, 3>>), Close>>, <<App(i), Write(<<4, 5>>), Close>>),
  Run(Small(BAD, {7, 8, 9, 10, 11}), FALSE, <<New(a), Write(<<1, 2, 3>>)>>, <<App(i), Write(<<4, 5>>), Close, Cut(i), Close>>)
}
Renames(l) == \E p \in Procs : \E k \in DOMAIN l.calls[p] : l.calls[p][k].k = "rename"
\* The loads whose calls do not rename are those the theorems are about.
ASSUME OrdinaryLoads == \A l \in MCLoads : ~Renames(l) => Ordinary(l)
=============================================================================
