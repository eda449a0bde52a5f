------------------------------ MODULE FileStore ------------------------------
(***************************************************************************)
(* What fat32.c and file.c promise of the files of a directory: a file is  *)
(* a sequence of bytes that only the operations on it change.  A write     *)
(* goes on in pieces, in order, from the file offset on; when the caller's *)
(* memory fails it is given up, and grows the file no further.  A file     *)
(* that was removed lives on for the processes that have it open.          *)
(***************************************************************************)
EXTENDS Integers, Sequences

CONSTANTS Procs, Names, None, Orphan

VARIABLES
  visible,   \* name -> its bytes, None where there is no file
  handle,    \* process -> the name it has open, Orphan if that was removed, or None
  orphan,    \* process -> the bytes of the removed file it has open
  at,        \* process -> its file offset
  writing,   \* process -> what it has still to write
  got        \* process -> the bytes its last read returned
vars == <<visible, handle, orphan, at, writing, got>>

Idle == [off |-> 0, bytes |-> <<>>, ok |-> TRUE, busy |-> FALSE]
Content(p) == IF handle[p] = Orphan THEN orphan[p] ELSE visible[handle[p]]

\* c with b written over it from off on, cut to n bytes
Splice(c, off, b, n) ==
  [k \in 1..n |-> IF k > off /\ k <= off + Len(b) THEN b[k - off] ELSE c[k]]
Longer(c, n) == IF Len(c) < n THEN n ELSE Len(c)

Init ==
  /\ DOMAIN visible = Names
  /\ handle = [p \in Procs |-> None] /\ orphan = [p \in Procs |-> <<>>]
  /\ at = [p \in Procs |-> 0] /\ writing = [p \in Procs |-> Idle]
  /\ got = [p \in Procs |-> <<>>]

Create(n) ==
  /\ visible[n] = None /\ visible' = [visible EXCEPT ![n] = <<>>]
  /\ UNCHANGED <<handle, orphan, at, writing, got>>

Truncate(n) ==
  /\ visible[n] # None /\ visible' = [visible EXCEPT ![n] = <<>>]
  /\ UNCHANGED <<handle, orphan, at, writing, got>>

\* whoever had the file open keeps it as it is
Remove(n) ==
  /\ visible[n] # None /\ visible' = [visible EXCEPT ![n] = None]
  /\ handle' = [p \in Procs |-> IF handle[p] = n THEN Orphan ELSE handle[p]]
  /\ orphan' = [p \in Procs |-> IF handle[p] = n THEN visible[n] ELSE orphan[p]]
  /\ UNCHANGED <<at, writing, got>>

Rename(n) == \E m \in Names :
  /\ visible[n] # None /\ visible[m] = None
  /\ visible' = [visible EXCEPT ![m] = visible[n], ![n] = None]
  /\ handle' = [p \in Procs |-> IF handle[p] = n THEN m ELSE handle[p]]
  /\ UNCHANGED <<orphan, at, writing, got>>

\* at the start, or at the end of the file
Open(p) ==
  /\ handle[p] = None
  /\ \E n \in Names : /\ visible[n] # None /\ handle' = [handle EXCEPT ![p] = n]
                      /\ \E o \in {0, Len(visible[n])} : at' = [at EXCEPT ![p] = o]
  /\ UNCHANGED <<visible, orphan, writing, got>>
\* of a file that was removed meanwhile
OpenRemoved(p) ==
  /\ handle[p] = None /\ handle' = [handle EXCEPT ![p] = Orphan]
  /\ at'[p] \in {0, Len(orphan'[p])} /\ at' = [at EXCEPT ![p] = at'[p]]
  /\ orphan' = [orphan EXCEPT ![p] = orphan'[p]]
  /\ UNCHANGED <<visible, writing, got>>

Close(p) ==
  /\ handle' = [handle EXCEPT ![p] = None] /\ orphan' = [orphan EXCEPT ![p] = <<>>]
  /\ at' = [at EXCEPT ![p] = 0]
  /\ UNCHANGED <<visible, writing, got>>

Read(p) ==
  /\ handle[p] # None
  /\ \E n \in 0..Len(Content(p)) :
       /\ at[p] + n <= Longer(Content(p), at[p])
       /\ got' = [got EXCEPT ![p] = SubSeq(Content(p), at[p] + 1, at[p] + n)]
       /\ at' = [at EXCEPT ![p] = @ + n]
  /\ UNCHANGED <<visible, handle, orphan, writing>>

Begin(p) ==
  /\ handle[p] # None /\ ~writing[p].busy /\ at[p] <= Len(Content(p))
  /\ writing' = [writing EXCEPT ![p] = [off |-> at[p], bytes |-> writing'[p].bytes,
                                        ok |-> TRUE, busy |-> TRUE]]
  /\ UNCHANGED <<visible, handle, orphan, at, got>>

\* the file p writes to has the bytes c
Becomes(p, c) ==
  IF handle[p] = Orphan
  THEN /\ \E S \in SUBSET {q \in Procs : handle[q] = Orphan /\ orphan[q] = orphan[p]} :
            p \in S /\ orphan' = [q \in Procs |-> IF q \in S THEN c ELSE orphan[q]]
       /\ UNCHANGED visible
  ELSE visible' = [visible EXCEPT ![handle[p]] = c] /\ UNCHANGED orphan

Piece(p) ==
  LET w == writing[p] c == Content(p) IN
  /\ w.busy
  /\ \E m \in 1..Len(w.bytes) :
       /\ writing' = [writing EXCEPT ![p].off = @ + m, ![p].bytes = SubSeq(@, m + 1, Len(@))]
       /\ Becomes(p, Splice(c, w.off, SubSeq(w.bytes, 1, m), Longer(c, w.off + m)))
  /\ UNCHANGED <<handle, at, got>>

GiveUp(p) ==
  LET w == writing[p] c == Content(p) IN
  /\ w.busy /\ writing' = [writing EXCEPT ![p].bytes = <<>>, ![p].ok = FALSE]
  /\ \E m \in 0..Len(w.bytes) : Becomes(p, Splice(c, w.off, SubSeq(w.bytes, 1, m), Len(c)))
  /\ UNCHANGED <<handle, at, got>>

End(p) ==
  /\ writing[p].busy /\ writing[p].bytes = <<>>
  /\ writing' = [writing EXCEPT ![p] = Idle]
  /\ at' = IF writing[p].ok THEN [at EXCEPT ![p] = writing[p].off] ELSE at
  /\ UNCHANGED <<visible, handle, orphan, got>>

Next ==
  \/ \E n \in Names : Create(n) \/ Truncate(n) \/ Remove(n) \/ Rename(n)
  \/ \E p \in Procs : \/ Open(p) \/ OpenRemoved(p) \/ Close(p) \/ Read(p)
                      \/ Begin(p) \/ Piece(p) \/ GiveUp(p) \/ End(p)
Spec == Init /\ [][Next]_vars
=============================================================================
