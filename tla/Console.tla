------------------------------- MODULE Console -------------------------------
(***************************************************************************)
(* The input side of kernel/console.c: the interrupt handler consoleintr() *)
(* edits lines in a ring, consoleread() takes them out.  cons.lock makes   *)
(* each of them one step, but for the test of p->killed, which cons.lock   *)
(* does not protect, and the sleep after it.  Characters that stand for    *)
(* themselves are abstracted to one; echo and consolewrite() only produce  *)
(* output and are left out.  A leading C tells a name from Pipe's.         *)
(***************************************************************************)
EXTENDS Integers, Sequences

CONSTANTS
  Readers,     \* processes that read the console
  INPUT_BUF,   \* size of the ring
  ConsUMod,    \* r, w and e are uint: they count modulo ConsUMod
  ConsMaxN     \* the largest n of a read

(* 128 divides 2^32, so the indices find their places across a wrap. *)
ASSUME ConsoleAssumption ==
  /\ INPUT_BUF \in Nat \ {0}
  /\ ConsUMod \in Nat /\ ConsUMod > INPUT_BUF /\ ConsUMod % INPUT_BUF = 0
  /\ ConsMaxN \in Nat

Char == {"x", "\n", "^D"}
LineEnds == {"\n", "^D"}

VARIABLES
  buf, r, w, e,  \* cons
  clock,         \* a reader holds cons.lock across steps
  ckilled,       \* p->killed
  cpc,           \* where p is
  ctodo,         \* ctodo[p]: n
  got            \* got[p]: n < target

cons == <<buf, r, w, e>>
cvars == <<buf, r, w, e, clock, ckilled, cpc, ctodo, got>>

(* "user"; "acq" at acquire(&cons.lock), first or after sleep(); "loop"    *)
(* with the lock; "empty" about to sleep; "asleep" on &cons.r.             *)
CLabels == {"user", "acq", "loop", "empty", "asleep"}

CTypeOK ==
  /\ buf \in [0..(INPUT_BUF - 1) -> Char]
  /\ r \in 0..(ConsUMod - 1) /\ w \in 0..(ConsUMod - 1) /\ e \in 0..(ConsUMod - 1)
  /\ clock \in BOOLEAN
  /\ ckilled \in [Readers -> BOOLEAN]
  /\ cpc \in [Readers -> CLabels]
  /\ ctodo \in [Readers -> 0..ConsMaxN]
  /\ got \in [Readers -> BOOLEAN]

(* consoleinit(); buf is not set, and starts as zeros nobody reads. *)
CInit ==
  /\ buf = [i \in 0..(INPUT_BUF - 1) |-> "x"]
  /\ r = 0 /\ w = 0 /\ e = 0
  /\ clock = FALSE
  /\ ckilled = [p \in Readers |-> FALSE]
  /\ cpc = [p \in Readers |-> "user"]
  /\ ctodo = [p \in Readers |-> 0]
  /\ got = [p \in Readers |-> FALSE]

Dist(a, b) == (b - a) % ConsUMod
InRing(i) == i % INPUT_BUF
CGoto(p, l) == cpc' = [cpc EXCEPT ![p] = l]

(* wakeup(&cons.r) *)
Woken == [p \in Readers |-> IF cpc[p] = "asleep" THEN "acq" ELSE cpc[p]]

-----------------------------------------------------------------------------
(* Mutant of Store: the readers are woken only for a newline. *)
StoreNewlineWakes(c) ==
  LET e1 == (e + 1) % ConsUMod IN
  /\ ~clock
  /\ Dist(r, e) < INPUT_BUF
  /\ buf' = [buf EXCEPT ![InRing(e)] = c]
  /\ e' = e1
  /\ IF c \in LineEnds \/ e1 = (r + INPUT_BUF) % ConsUMod
     THEN w' = e1 /\ cpc' = IF c = "\n" THEN Woken ELSE cpc
     ELSE UNCHANGED <<w, cpc>>
  /\ UNCHANGED <<r, clock, ckilled, ctodo, got>>

(* consoleintr() of a character that is stored. *)
Store(c) ==
  LET e1 == (e + 1) % ConsUMod IN
  /\ ~clock
  /\ Dist(r, e) < INPUT_BUF
  /\ buf' = [buf EXCEPT ![InRing(e)] = c]
  /\ e' = e1
  /\ IF c \in LineEnds \/ e1 = (r + INPUT_BUF) % ConsUMod
     THEN w' = e1 /\ cpc' = Woken
     ELSE UNCHANGED <<w, cpc>>
  /\ UNCHANGED <<r, clock, ckilled, ctodo, got>>

(* consoleintr() of a character there is no room for, which is dropped, of *)
(* '\r' on the k210, or of ^P.                                             *)
Ignore == ~clock /\ UNCHANGED cvars

(* Mutant of Backspace: it reaches into what was handed over. *)
BackspaceUnguarded ==
  /\ ~clock
  /\ e # r
  /\ e' = (e - 1) % ConsUMod
  /\ UNCHANGED <<buf, r, w, clock, ckilled, cpc, ctodo, got>>

(* consoleintr() of a backspace. *)
Backspace ==
  /\ ~clock
  /\ e # w
  /\ e' = (e - 1) % ConsUMod
  /\ UNCHANGED <<buf, r, w, clock, ckilled, cpc, ctodo, got>>

(* The characters ^U removes: back to w, or to a newline. *)
Erasable(k) ==
  /\ k <= Dist(w, e)
  /\ \A j \in 1..k : buf[InRing((e - j) % ConsUMod)] # "\n"

(* consoleintr() of ^U: the longest erasable end of the line. *)
KillLine ==
  /\ ~clock
  /\ e # w
  /\ \E k \in 0..INPUT_BUF :
       /\ Erasable(k) /\ ~Erasable(k + 1)
       /\ e' = (e - k) % ConsUMod
  /\ UNCHANGED <<buf, r, w, clock, ckilled, cpc, ctodo, got>>

-----------------------------------------------------------------------------
(* consoleread() *)
CReadCall(p, n) ==
  /\ cpc[p] = "user" /\ ~ckilled[p]
  /\ ctodo' = [ctodo EXCEPT ![p] = n]
  /\ got' = [got EXCEPT ![p] = FALSE]
  /\ CGoto(p, "acq")
  /\ UNCHANGED <<cons, clock, ckilled>>

CReadAcquire(p) ==
  /\ cpc[p] = "acq"
  /\ ~clock
  /\ clock' = TRUE
  /\ CGoto(p, "loop")
  /\ UNCHANGED <<cons, ckilled, ctodo, got>>

(* Every way out of the loop: release(&cons.lock). *)
CReturn(p) ==
  /\ clock' = FALSE
  /\ ctodo' = [ctodo EXCEPT ![p] = 0]
  /\ got' = [got EXCEPT ![p] = FALSE]
  /\ CGoto(p, "user")

ReadZero(p) ==
  /\ cpc[p] = "loop" /\ ctodo[p] = 0
  /\ CReturn(p)
  /\ UNCHANGED <<cons, ckilled>>

CReadFail(p) ==
  /\ cpc[p] = "loop" /\ ctodo[p] > 0
  /\ r = w /\ ckilled[p]
  /\ CReturn(p)
  /\ UNCHANGED <<cons, ckilled>>

CReadEmpty(p) ==
  /\ cpc[p] = "loop" /\ ctodo[p] > 0
  /\ r = w /\ ~ckilled[p]
  /\ CGoto(p, "empty")
  /\ UNCHANGED <<cons, clock, ckilled, ctodo, got>>

CReadSleep(p) ==
  /\ cpc[p] = "empty"
  /\ clock' = FALSE
  /\ CGoto(p, "asleep")
  /\ UNCHANGED <<cons, ckilled, ctodo, got>>

(* ^D ends the read; after other characters it is kept for the next one. *)
ReadEof(p) ==
  /\ cpc[p] = "loop" /\ ctodo[p] > 0
  /\ r # w
  /\ buf[InRing(r)] = "^D"
  /\ r' = IF got[p] THEN r ELSE (r + 1) % ConsUMod
  /\ CReturn(p)
  /\ UNCHANGED <<buf, w, e, ckilled>>

(* One character; ok: either_copyout() succeeds.  A newline, or a failure, *)
(* ends the read.                                                          *)
ReadChar(p, ok) ==
  /\ cpc[p] = "loop" /\ ctodo[p] > 0
  /\ r # w
  /\ buf[InRing(r)] # "^D"
  /\ r' = (r + 1) % ConsUMod
  /\ IF ~ok \/ buf[InRing(r)] = "\n"
     THEN CReturn(p)
     ELSE /\ ctodo' = [ctodo EXCEPT ![p] = @ - 1]
          /\ got' = [got EXCEPT ![p] = TRUE]
          /\ UNCHANGED <<clock, cpc>>
  /\ UNCHANGED <<buf, w, e, ckilled>>

CKill(p) ==
  /\ ~ckilled[p]
  /\ cpc[p] # "user"
  /\ ckilled' = [ckilled EXCEPT ![p] = TRUE]
  /\ cpc' = [cpc EXCEPT ![p] = IF @ = "asleep" THEN "acq" ELSE @]
  /\ UNCHANGED <<cons, clock, ctodo, got>>

(* usertrap() ends a killed process; its slot is used again. *)
CExited(p) ==
  /\ cpc[p] = "user" /\ ckilled[p]
  /\ ckilled' = [ckilled EXCEPT ![p] = FALSE]
  /\ UNCHANGED <<cons, clock, cpc, ctodo, got>>

CInside(p) ==
  \/ ReadZero(p) \/ CReadFail(p) \/ CReadEmpty(p) \/ CReadSleep(p) \/ ReadEof(p)
  \/ \E ok \in BOOLEAN : ReadChar(p, ok)

CNext ==
  \/ \E c \in Char : Store(c)
  \/ Backspace \/ KillLine \/ Ignore
  \/ \E p \in Readers :
       \/ \E n \in 0..ConsMaxN : CReadCall(p, n)
       \/ CReadAcquire(p) \/ CInside(p) \/ CKill(p) \/ CExited(p)

CSpec == CInit /\ [][CNext]_cvars

(* A reader in the kernel goes on, and one that spins on cons.lock gets it *)
(* if it is free again and again.  Nothing obliges anyone to type.         *)
CFairSpec == CSpec /\ \A p \in Readers : WF_cvars(CInside(p)) /\ SF_cvars(CReadAcquire(p))

-----------------------------------------------------------------------------
(* The ring from index a up to index b. *)
Between(a, b) == [i \in 1..Dist(a, b) |-> buf[InRing((a + i - 1) % ConsUMod)]]

Line == INSTANCE LineDiscipline WITH
  Ends <- LineEnds, Capacity <- INPUT_BUF, ready <- Between(r, w), edit <- Between(w, e)

(* The ring with its three indices implements the line discipline: editing *)
(* never reaches what was handed over, ^U removes the whole line, and a    *)
(* saved ^D is not lost or duplicated.                                     *)
ImplementsLineDiscipline == Line!LSpec

(* A reader that waits while there is input returns, or somebody else took *)
(* the input.                                                              *)
InputIsTaken ==
  \A p \in Readers : (cpc[p] \in {"acq", "asleep"} /\ r # w) ~> (cpc[p] = "user" \/ r = w)

-----------------------------------------------------------------------------
(* r, w and e follow each other around the ring, which holds no more than  *)
(* INPUT_BUF characters.                                                   *)
InOrder ==
  /\ Dist(r, w) + Dist(w, e) = Dist(r, e)
  /\ Dist(r, e) <= INPUT_BUF

(* The line being edited has no end yet: ^U never stops short of w.        *)
OneLine == \A i \in 1..Dist(w, e) : Between(w, e)[i] \notin LineEnds

(* Of two processes in consoleread() one at most has cons.lock. *)
ReaderOwns ==
  /\ \A p \in Readers : cpc[p] \in {"loop", "empty"} => clock
  /\ \A p, q \in Readers : {cpc[p], cpc[q]} \subseteq {"loop", "empty"} => p = q

(* Nobody sleeps, or is about to, while there is input: whoever hands a    *)
(* line over wakes everybody, and ReadEof keeps a ^D only with cons.lock.  *)
SleepsForInput == \A p \in Readers : cpc[p] \in {"empty", "asleep"} => r = w

(* The inductive invariant of the console. *)
ConsIndInv == CTypeOK /\ InOrder /\ OneLine /\ ReaderOwns /\ SleepsForInput
=============================================================================
