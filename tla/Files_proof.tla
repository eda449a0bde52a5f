---------------------------- MODULE Files_proof -----------------------------
(***************************************************************************)
(* Open files, for every number of processes, files, descriptors and pipe  *)
(* pages, and every sequence of commands: whichever step of a call fails,  *)
(* references are exact and the ends of a pipe stay open as long as they   *)
(* are used.                                                               *)
(***************************************************************************)
EXTENDS Shell, FiniteSetTheorems, SequenceTheorems, TLAPS

In(a, S) == IF a \in S THEN 1 ELSE 0

(* The size of a set in two parts. *)
LEMMA TwoParts ==
  ASSUME NEW A, NEW B, IsFiniteSet(A), IsFiniteSet(B), A \cap B = {}, NEW C, C = A \cup B
  PROVE  /\ IsFiniteSet(C) /\ Cardinality(A) \in Nat /\ Cardinality(B) \in Nat
         /\ Cardinality(C) = Cardinality(A) + Cardinality(B)
<1>1. /\ IsFiniteSet(A \cup B)
      /\ Cardinality(A \cup B) = Cardinality(A) + Cardinality(B) - Cardinality(A \cap B)
  BY FS_Union
<1>2. Cardinality(A \cap B) = 0
  BY FS_EmptySet
<1>3. Cardinality(A) \in Nat /\ Cardinality(B) \in Nat
  BY FS_CardinalityType
<1> QED BY <1>1, <1>2, <1>3

(* S becomes T when its part A becomes B; and how that changes its size. *)
Becoming(S, A, T, B) ==
  /\ A \subseteq S /\ B \subseteq T
  /\ \A y : (y \in S /\ y \notin A) <=> (y \in T /\ y \notin B)

LEMMA PartChanges ==
  ASSUME NEW S, NEW T, NEW A, NEW B, IsFiniteSet(S), IsFiniteSet(B), Becoming(S, A, T, B)
  PROVE  /\ IsFiniteSet(T)
         /\ Cardinality(S) \in Nat /\ Cardinality(T) \in Nat
         /\ Cardinality(A) \in Nat /\ Cardinality(B) \in Nat
         /\ Cardinality(A) <= Cardinality(S)
         /\ Cardinality(T) = Cardinality(S) - Cardinality(A) + Cardinality(B)
<1>1. PICK R : R = S \ A
  OBVIOUS
<1>2. IsFiniteSet(R) /\ IsFiniteSet(A)
  BY <1>1, FS_Subset DEF Becoming
<1>3. S = R \cup A /\ R \cap A = {} /\ T = R \cup B /\ R \cap B = {}
  BY <1>1 DEF Becoming
<1>4. /\ Cardinality(R) \in Nat /\ Cardinality(A) \in Nat
      /\ Cardinality(S) = Cardinality(R) + Cardinality(A)
  BY ONLY <1>2, <1>3, TwoParts
<1>5. /\ IsFiniteSet(T) /\ Cardinality(B) \in Nat
      /\ Cardinality(T) = Cardinality(R) + Cardinality(B)
  <2>1. IsFiniteSet(B)
    OBVIOUS
  <2> QED BY ONLY <1>2, <1>3, <2>1, TwoParts
<1> QED BY ONLY <1>4, <1>5

(* ... and when it differs by one element. *)
LEMMA OneChanges ==
  ASSUME NEW S, NEW T, NEW a, IsFiniteSet(S), \A y : y # a => (y \in S <=> y \in T)
  PROVE  /\ IsFiniteSet(T)
         /\ Cardinality(S) \in Nat /\ Cardinality(T) \in Nat
         /\ Cardinality(T) = Cardinality(S) - In(a, S) + In(a, T)
<1>1. PICK A : A = S \cap {a}
  OBVIOUS
<1>2. PICK B : B = T \cap {a}
  OBVIOUS
<1>3. /\ IsFiniteSet(A) /\ Cardinality(A) = In(a, S)
      /\ IsFiniteSet(B) /\ Cardinality(B) = In(a, T)
  <2>1. /\ A = IF a \in S THEN {a} ELSE {}
        /\ B = IF a \in T THEN {a} ELSE {}
    BY <1>1, <1>2
  <2> QED BY <2>1, FS_EmptySet, FS_Singleton DEF In
<1>4. IsFiniteSet(S) /\ Becoming(S, A, T, B)
  BY <1>1, <1>2 DEF Becoming
<1>5. /\ IsFiniteSet(T) /\ Cardinality(S) \in Nat /\ Cardinality(T) \in Nat
      /\ Cardinality(T) = Cardinality(S) - Cardinality(A) + Cardinality(B)
  BY ONLY <1>3, <1>4, PartChanges
<1> QED BY ONLY <1>3, <1>5

(* A set of at most six elements. *)
LEMMA SixCells ==
  ASSUME NEW a, NEW b, NEW c, NEW d, NEW e, NEW f, NEW Z, Z \subseteq {a, b, c, d, e, f},
         a \notin {b, c, d, e, f}, b \notin {c, d, e, f}, c \notin {d, e, f},
         d \notin {e, f}, e # f
  PROVE  /\ IsFiniteSet(Z)
         /\ Cardinality(Z) = In(a, Z) + In(b, Z) + In(c, Z)
                             + In(d, Z) + In(e, Z) + In(f, Z)
<1> DEFINE Y1 == Z \cap {a}
           Y2 == Z \cap {a, b}
           Y3 == Z \cap {a, b, c}
           Y4 == Z \cap {a, b, c, d}
           Y5 == Z \cap {a, b, c, d, e}
<1>0. PICK E : E = {} /\ IsFiniteSet(E) /\ Cardinality(E) = 0
  BY FS_EmptySet
<1>1. /\ \A y : y # a => (y \in E <=> y \in Y1)
      /\ a \notin E /\ (a \in Y1 <=> a \in Z)
  BY <1>0
<1>2. /\ \A y : y # b => (y \in Y1 <=> y \in Y2)
      /\ b \notin Y1 /\ (b \in Y2 <=> b \in Z)
  BY <1>0
<1>3. /\ \A y : y # c => (y \in Y2 <=> y \in Y3)
      /\ c \notin Y2 /\ (c \in Y3 <=> c \in Z)
  BY <1>0
<1>4. /\ \A y : y # d => (y \in Y3 <=> y \in Y4)
      /\ d \notin Y3 /\ (d \in Y4 <=> d \in Z)
  BY <1>0
<1>5. /\ \A y : y # e => (y \in Y4 <=> y \in Y5)
      /\ e \notin Y4 /\ (e \in Y5 <=> e \in Z)
  BY <1>0
<1>6. /\ \A y : y # f => (y \in Y5 <=> y \in Z)
      /\ f \notin Y5 /\ (f \in Z <=> f \in Z)
  BY <1>0
<1> HIDE DEF Y1, Y2, Y3, Y4, Y5
<1>7. /\ IsFiniteSet(Y1)
      /\ Cardinality(Y1) = In(a, Z)
  <2>1. IsFiniteSet(E) /\ Cardinality(E) = 0
    BY <1>0
  <2>2. IsFiniteSet(Y1) /\ Cardinality(Y1) = Cardinality(E) - In(a, E) + In(a, Y1)
    BY ONLY <2>1, <1>1, OneChanges
  <2> QED BY ONLY <2>1, <2>2, <1>1 DEF In
<1>8. /\ IsFiniteSet(Y2)
      /\ Cardinality(Y2) = In(a, Z) + In(b, Z)
  BY ONLY <1>7, <1>2, OneChanges DEF In
<1>9. /\ IsFiniteSet(Y3)
      /\ Cardinality(Y3) = In(a, Z) + In(b, Z) + In(c, Z)
  BY ONLY <1>8, <1>3, OneChanges DEF In
<1>10. /\ IsFiniteSet(Y4)
      /\ Cardinality(Y4) = In(a, Z) + In(b, Z) + In(c, Z) + In(d, Z)
  BY ONLY <1>9, <1>4, OneChanges DEF In
<1>11. /\ IsFiniteSet(Y5)
      /\ Cardinality(Y5) = In(a, Z) + In(b, Z) + In(c, Z) + In(d, Z) + In(e, Z)
  BY ONLY <1>10, <1>5, OneChanges DEF In
<1>12. /\ IsFiniteSet(Z)
      /\ Cardinality(Z) = In(a, Z) + In(b, Z) + In(c, Z) + In(d, Z) + In(e, Z) + In(f, Z)
  BY ONLY <1>11, <1>6, OneChanges DEF In
<1> QED BY <1>12

-----------------------------------------------------------------------------
(* The sets of RefsExact as functions of the processes and of the files.   *)
Steps == Procs \X (1..3) \X (1..2)
PendingIn(r, x) == {z \in Steps : z[2] \in DOMAIN r[z[1]].todo
                                 /\ Refers(r[z[1]].todo[z[2]], z[3]) = x}
HeldIn(r, F, f) == {z \in Procs \X F : r[z[1]].ofile[z[2]] = f}
OpenIn(fs, x) == {f \in DOMAIN fs : fs[f].ref > 0 /\ Target(fs[f]) = x}

LEMMA InState ==
  /\ \A x : Pending(x) = PendingIn(pr, x) /\ OpenFiles(x) = OpenIn(file, x)
  /\ \A f : Descriptors(f) = HeldIn(pr, Fds, f)
BY DEF Pending, OpenFiles, Descriptors, PendingIn, HeldIn, OpenIn, Steps

LEMMA InNextState ==
  /\ \A x : Pending(x)' = PendingIn(pr', x) /\ OpenFiles(x)' = OpenIn(file', x)
  /\ \A f : Descriptors(f)' = HeldIn(pr', Fds', f)
BY DEF Pending, OpenFiles, Descriptors, PendingIn, HeldIn, OpenIn, Steps

(* What one process contributes to them. *)
Refs(s, x) == (IF Refers(s, 1) = x THEN 1 ELSE 0) + (IF Refers(s, 2) = x THEN 1 ELSE 0)
InTodo(t, x) == (IF 1 \in DOMAIN t THEN Refs(t[1], x) ELSE 0)
                + (IF 2 \in DOMAIN t THEN Refs(t[2], x) ELSE 0)
                + (IF 3 \in DOMAIN t THEN Refs(t[3], x) ELSE 0)

LEMMA OfProcess ==
  ASSUME NEW r, NEW x, NEW p \in Procs, NEW M, M = {z \in Steps : z[1] = p}
  PROVE  /\ IsFiniteSet(PendingIn(r, x) \cap M)
         /\ Cardinality(PendingIn(r, x) \cap M) = InTodo(r[p].todo, x)
<1> DEFINE Z == PendingIn(r, x) \cap M
           t == r[p].todo
<1>1. Z \subseteq {<<p, 1, 1>>, <<p, 1, 2>>, <<p, 2, 1>>, <<p, 2, 2>>, <<p, 3, 1>>, <<p, 3, 2>>}
  BY DEF PendingIn, Steps
<1>2. \A k \in 1..3, j \in 1..2 : <<p, k, j>> \in Z <=> k \in DOMAIN t /\ Refers(t[k], j) = x
  BY DEF PendingIn, Steps
<1>3. /\ IsFiniteSet(Z)
      /\ Cardinality(Z) = In(<<p, 1, 1>>, Z) + In(<<p, 1, 2>>, Z) + In(<<p, 2, 1>>, Z)
                          + In(<<p, 2, 2>>, Z) + In(<<p, 3, 1>>, Z) + In(<<p, 3, 2>>, Z)
  <2> HIDE DEF Z
  <2>1. PICK a, b, c, d, e, f : /\ a = <<p, 1, 1>> /\ b = <<p, 1, 2>> /\ c = <<p, 2, 1>>
                                /\ d = <<p, 2, 2>> /\ e = <<p, 3, 1>> /\ f = <<p, 3, 2>>
    OBVIOUS
  <2>2. /\ a \notin {b, c, d, e, f} /\ b \notin {c, d, e, f} /\ c \notin {d, e, f}
        /\ d \notin {e, f} /\ e # f
    BY <2>1
  <2>3. Z \subseteq {a, b, c, d, e, f}
    BY <1>1, <2>1
  <2>4. /\ IsFiniteSet(Z)
        /\ Cardinality(Z) = In(a, Z) + In(b, Z) + In(c, Z) + In(d, Z) + In(e, Z) + In(f, Z)
    BY ONLY <2>2, <2>3, SixCells
  <2> QED BY <2>1, <2>4
<1>4. \A k \in 1..3 : In(<<p, k, 1>>, Z) + In(<<p, k, 2>>, Z)
                      = IF k \in DOMAIN t THEN Refs(t[k], x) ELSE 0
  <2> HIDE DEF Z, t
  <2> QED BY <1>2 DEF Refs, In
<1>5. /\ In(<<p, 1, 1>>, Z) \in Nat /\ In(<<p, 1, 2>>, Z) \in Nat
      /\ In(<<p, 2, 1>>, Z) \in Nat /\ In(<<p, 2, 2>>, Z) \in Nat
      /\ In(<<p, 3, 1>>, Z) \in Nat /\ In(<<p, 3, 2>>, Z) \in Nat
  BY DEF In
<1> HIDE DEF Z, t
<1>6. Cardinality(Z) = InTodo(t, x)
  BY <1>3, <1>4, <1>5 DEF InTodo
<1> QED BY <1>3, <1>6 DEF Z, t

LEMMA TodoNumbers == \A t, s, x : InTodo(t, x) \in Nat /\ Refs(s, x) \in Nat
BY DEF InTodo, Refs

LEMMA FiniteSteps == IsFiniteSet(Steps)
<1>1. IsFiniteSet(1..3) /\ IsFiniteSet(1..2) /\ IsFiniteSet(Procs)
  <2>1. IsFiniteSet(1..3)
    BY FS_Interval, 1 \in Int, 3 \in Int
  <2>2. IsFiniteSet(1..2)
    BY FS_Interval, 1 \in Int, 2 \in Int
  <2> QED BY <2>1, <2>2, LoadsAssumption
<1>2. IsFiniteSet(Procs \X (1..3))
  BY <1>1, FS_Product
<1>3. IsFiniteSet((Procs \X (1..3)) \X (1..2))
  BY <1>1, <1>2, FS_Product
<1>4. PICK g : g = [z \in Steps |-> <<<<z[1], z[2]>>, z[3]>>]
  OBVIOUS
<1>5. g \in Injection(Steps, (Procs \X (1..3)) \X (1..2))
  BY <1>4 DEF Injection, IsInjective, Steps
<1> QED BY <1>3, <1>5, FS_Injection

(* Only what p has to do, and its descriptors, change. *)
Same(r, s, p) == \A q \in Procs : q # p => s[q].todo = r[q].todo /\ s[q].ofile = r[q].ofile

LEMMA PendingChanges ==
  ASSUME NEW r, NEW s, NEW x, NEW p \in Procs, Same(r, s, p)
  PROVE  /\ Cardinality(PendingIn(r, x)) \in Nat /\ Cardinality(PendingIn(s, x)) \in Nat
         /\ InTodo(r[p].todo, x) <= Cardinality(PendingIn(r, x))
         /\ Cardinality(PendingIn(s, x)) =
              Cardinality(PendingIn(r, x)) - InTodo(r[p].todo, x) + InTodo(s[p].todo, x)
<1>1. PICK M : M = {z \in Steps : z[1] = p}
  OBVIOUS
<1>2. PICK A : A = PendingIn(r, x) \cap M
  OBVIOUS
<1>3. PICK B : B = PendingIn(s, x) \cap M
  OBVIOUS
<1>4. /\ IsFiniteSet(A) /\ Cardinality(A) = InTodo(r[p].todo, x)
      /\ IsFiniteSet(B) /\ Cardinality(B) = InTodo(s[p].todo, x)
  BY <1>1, <1>2, <1>3, OfProcess
<1>5. IsFiniteSet(Steps)
  BY FiniteSteps
<1>6. IsFiniteSet(PendingIn(r, x))
  <2>1. PendingIn(r, x) \subseteq Steps
    BY DEF PendingIn
  <2> QED BY <2>1, <1>5, FS_Subset
<1>7. Becoming(PendingIn(r, x), A, PendingIn(s, x), B)
  BY <1>1, <1>2, <1>3 DEF PendingIn, Steps, Becoming, Same
<1>8. IsFiniteSet(B)
  BY <1>4
<1>9. /\ Cardinality(PendingIn(r, x)) \in Nat /\ Cardinality(PendingIn(s, x)) \in Nat
      /\ Cardinality(A) \in Nat /\ Cardinality(B) \in Nat
      /\ Cardinality(A) <= Cardinality(PendingIn(r, x))
      /\ Cardinality(PendingIn(s, x)) = Cardinality(PendingIn(r, x)) - Cardinality(A) + Cardinality(B)
  BY ONLY <1>6, <1>7, <1>8, PartChanges
<1> QED BY ONLY <1>4, <1>9

(* The same of the descriptors of p. *)
Held(o, F, f) == Cardinality({fd \in F : o[fd] = f})

LEMMA HeldChanges ==
  ASSUME NEW r, NEW s, NEW f, NEW F, IsFiniteSet(F), NEW p \in Procs, Same(r, s, p)
  PROVE  /\ Cardinality(HeldIn(r, F, f)) \in Nat /\ Cardinality(HeldIn(s, F, f)) \in Nat
         /\ Held(r[p].ofile, F, f) \in Nat /\ Held(s[p].ofile, F, f) \in Nat
         /\ Held(r[p].ofile, F, f) <= Cardinality(HeldIn(r, F, f))
         /\ Cardinality(HeldIn(s, F, f)) =
              Cardinality(HeldIn(r, F, f)) - Held(r[p].ofile, F, f) + Held(s[p].ofile, F, f)
<1>1. PICK A : A = {z \in HeldIn(r, F, f) : z[1] = p}
  OBVIOUS
<1>2. PICK B : B = {z \in HeldIn(s, F, f) : z[1] = p}
  OBVIOUS
<1>3. ASSUME NEW o, NEW C, C = {z \in Procs \X F : z[1] = p /\ o[z[2]] = f}
      PROVE  IsFiniteSet(C) /\ Cardinality(C) = Held(o, F, f)
  <2>1. PICK D : D = {fd \in F : o[fd] = f}
    OBVIOUS
  <2>2. IsFiniteSet(D)
    BY <2>1, FS_Subset
  <2>3. PICK g : g = [fd \in D |-> <<p, fd>>]
    OBVIOUS
  <2>4. g \in Bijection(D, C)
    BY <1>3, <2>1, <2>3 DEF Bijection, Injection, IsInjective, Surjection
  <2> QED BY <2>1, <2>2, <2>4, FS_Bijection DEF ExistsBijection, Held
<1>4. /\ IsFiniteSet(A) /\ Cardinality(A) = Held(r[p].ofile, F, f)
      /\ IsFiniteSet(B) /\ Cardinality(B) = Held(s[p].ofile, F, f)
  <2>1. /\ A = {z \in Procs \X F : z[1] = p /\ r[p].ofile[z[2]] = f}
        /\ B = {z \in Procs \X F : z[1] = p /\ s[p].ofile[z[2]] = f}
    BY <1>1, <1>2 DEF HeldIn
  <2> QED BY <2>1, <1>3
<1>5. IsFiniteSet(HeldIn(r, F, f))
  <2>1. IsFiniteSet(Procs \X F)
    BY LoadsAssumption, FS_Product
  <2> QED BY <2>1, FS_Subset DEF HeldIn
<1>6. Becoming(HeldIn(r, F, f), A, HeldIn(s, F, f), B)
  BY <1>1, <1>2 DEF HeldIn, Becoming, Same
<1>7. IsFiniteSet(B)
  BY <1>4
<1>8. /\ Cardinality(HeldIn(r, F, f)) \in Nat /\ Cardinality(HeldIn(s, F, f)) \in Nat
      /\ Cardinality(A) \in Nat /\ Cardinality(B) \in Nat
      /\ Cardinality(A) <= Cardinality(HeldIn(r, F, f))
      /\ Cardinality(HeldIn(s, F, f)) = Cardinality(HeldIn(r, F, f)) - Cardinality(A) + Cardinality(B)
  BY ONLY <1>5, <1>6, <1>7, PartChanges
<1> QED BY ONLY <1>4, <1>8

(* One descriptor changes. *)
OneFd(o, n, F, fd) == \A d \in F : d # fd => n[d] = o[d]
One(a, x) == IF a = x THEN 1 ELSE 0

LEMMA DescriptorChanges ==
  ASSUME NEW o, NEW n, NEW f, NEW F, IsFiniteSet(F), NEW fd \in F, OneFd(o, n, F, fd)
  PROVE  /\ Held(o, F, f) \in Nat
         /\ Held(n, F, f) = Held(o, F, f) - One(o[fd], f) + One(n[fd], f)
<1>1. PICK S : S = {d \in F : o[d] = f}
  OBVIOUS
<1>2. PICK T : T = {d \in F : n[d] = f}
  OBVIOUS
<1>3. IsFiniteSet(S)
  BY <1>1, FS_Subset
<1>4. \A y : y # fd => (y \in S <=> y \in T)
  BY <1>1, <1>2 DEF OneFd
<1>5. /\ Cardinality(S) \in Nat /\ Cardinality(T) = Cardinality(S) - In(fd, S) + In(fd, T)
  BY ONLY <1>3, <1>4, OneChanges
<1>6. In(fd, S) = One(o[fd], f) /\ In(fd, T) = One(n[fd], f)
  BY <1>1, <1>2 DEF In, One
<1> QED BY <1>1, <1>2, <1>5, <1>6 DEF Held

(* One file changes. *)
Opens(y, x) == IF y.ref > 0 /\ Target(y) = x THEN 1 ELSE 0

LEMMA FileChanges ==
  ASSUME NEW fs, NEW gs, NEW x, NEW f \in DOMAIN fs, IsFiniteSet(DOMAIN fs), DOMAIN gs = DOMAIN fs,
         \A h \in DOMAIN fs : h # f => gs[h] = fs[h]
  PROVE  /\ Cardinality(OpenIn(fs, x)) \in Nat /\ Cardinality(OpenIn(gs, x)) \in Nat
         /\ Cardinality(OpenIn(gs, x)) = Cardinality(OpenIn(fs, x)) - Opens(fs[f], x) + Opens(gs[f], x)
<1>1. IsFiniteSet(OpenIn(fs, x))
  BY FS_Subset DEF OpenIn
<1>2. \A y : y # f => (y \in OpenIn(fs, x) <=> y \in OpenIn(gs, x))
  BY DEF OpenIn
<1>3. /\ Cardinality(OpenIn(fs, x)) \in Nat /\ Cardinality(OpenIn(gs, x)) \in Nat
      /\ Cardinality(OpenIn(gs, x)) =
           Cardinality(OpenIn(fs, x)) - In(f, OpenIn(fs, x)) + In(f, OpenIn(gs, x))
  BY ONLY <1>1, <1>2, OneChanges
<1>4. In(f, OpenIn(fs, x)) = Opens(fs[f], x) /\ In(f, OpenIn(gs, x)) = Opens(gs[f], x)
  BY DEF In, Opens, OpenIn
<1> QED BY <1>3, <1>4

-----------------------------------------------------------------------------
(* Steps: their fields, and what they refer to.                            *)
AnyStep == ProgramStep \cup CallStep
Nothing == <<"nothing">>
Undo == {"fileclose", "pipeclose", "eput"}

LEMMA ProgramSteps ==
  ASSUME NEW s \in ProgramStep
  PROVE  /\ s.op \notin CallOps
         /\ \A x : x # Nothing => Refs(s, x) = 0
         /\ s.op \in {"close", "dup", "read"} => s.fd \in Int
         /\ s.op = "write" => s.fd \in Int /\ s.bytes \in Seq(Nat)
                              /\ \A b \in Seq(Nat) : [s EXCEPT !.bytes = b] \in ProgramStep
         /\ s.op = "open" => s.e \in Names /\ s.mode \in {"r", "w", "a"}
                             /\ [s EXCEPT !.op = "opened"] =
                                  [op |-> "opened", e |-> s.e, mode |-> s.mode]
         /\ s.op = "fork" => s.child \in Children
         /\ s.op = "runcmd" => s.c \in Commands
         /\ s.op = "initwait" => s.pid \in Int
<1> USE DEF CallOps, Refs, Refers, Nothing
<1> HIDE DEF ProgramStep
<1>1. \/ s \in [op : {"close", "dup", "read"}, fd : Int]
      \/ s \in [op : {"write"}, fd : Int, bytes : Seq(Nat)]
      \/ s \in [op : {"open"}, e : Names, mode : {"r", "w", "a"}]
      \/ s \in [op : {"fork"}, child : Children]
      \/ s \in [op : {"runcmd"}, c : Commands]
      \/ s \in [op : {"initwait"}, pid : Int]
      \/ s \in [op : {"dev", "wait", "exit", "orexit", "pipe", "cat", "shelldev", "shell", "started"}]
  BY DEF ProgramStep
<1>2. CASE s \in [op : {"close", "dup", "read"}, fd : Int]
  BY <1>2
<1>3. CASE s \in [op : {"write"}, fd : Int, bytes : Seq(Nat)]
  <2>1. \A b \in Seq(Nat) : [s EXCEPT !.bytes = b] \in ProgramStep
    BY <1>3 DEF ProgramStep
  <2> QED BY <1>3, <2>1
<1>4. CASE s \in [op : {"open"}, e : Names, mode : {"r", "w", "a"}]
  BY <1>4
<1>5. CASE s \in [op : {"fork"}, child : Children]
  BY <1>5
<1>6. CASE s \in [op : {"runcmd"}, c : Commands]
  BY <1>6
<1>7. CASE s \in [op : {"initwait"}, pid : Int]
  BY <1>7
<1>8. CASE s \in [op : {"dev", "wait", "exit", "orexit", "pipe", "cat", "shelldev", "shell", "started"}]
  BY <1>8
<1> QED BY <1>1, <1>2, <1>3, <1>4, <1>5, <1>6, <1>7, <1>8

LEMMA CallSteps ==
  ASSUME NEW s \in CallStep
  PROVE  /\ s.op \in CallOps
         /\ s.op \in {"fileclose", "pipe2"} => s.own \in [1..1 -> DOMAIN file] /\ "own" \in DOMAIN s
         /\ s.op = "pipe3" => s.own \in [1..2 -> DOMAIN file] /\ "own" \in DOMAIN s
         /\ s.op = "eput" => s.e \in Names /\ "own" \notin DOMAIN s
         /\ s.op = "opened" => s.e \in Names /\ s.mode \in {"r", "w", "a"} /\ "own" \notin DOMAIN s
         /\ s.op = "pipeclose" => s.i \in DOMAIN pipe /\ s.writable \in BOOLEAN /\ "own" \notin DOMAIN s
<1>1. \/ s \in [op : {"fileclose", "pipe2"}, own : [1..1 -> DOMAIN file]]
      \/ s \in [op : {"pipe3"}, own : [1..2 -> DOMAIN file]]
      \/ s \in [op : {"eput"}, e : Names]
      \/ s \in [op : {"opened"}, e : Names, mode : {"r", "w", "a"}]
      \/ s \in [op : {"pipeclose"}, i : DOMAIN pipe, writable : BOOLEAN]
  BY DEF CallStep
<1> QED BY <1>1 DEF CallOps

(* What the steps of a call refer to. *)
LEMMA CallRefs ==
  ASSUME NEW s \in CallStep, NEW x, x # Nothing
  PROVE  /\ s.op \in {"fileclose", "pipe2"} => Refs(s, x) = One(<<"file", s.own[1]>>, x)
         /\ s.op = "pipe3" =>
              Refs(s, x) = One(<<"file", s.own[1]>>, x) + One(<<"file", s.own[2]>>, x)
         /\ s.op \in {"eput", "opened"} => Refs(s, x) = One(<<"entry", s.e>>, x)
         /\ s.op = "pipeclose" => Refs(s, x) = One(<<"end", s.i, s.writable>>, x)
<1> USE DEF Nothing, One
<1>1. CASE s.op \in {"fileclose", "pipe2"}
  <2>1. "own" \in DOMAIN s /\ Len(s.own) = 1
    BY <1>1, CallSteps
  <2>2. Refers(s, 1) = <<"file", s.own[1]>> /\ Refers(s, 2) = Nothing
    BY <1>1, <2>1 DEF Refers
  <2> QED BY <1>1, <2>2 DEF Refs
<1>2. CASE s.op = "pipe3"
  <2>1. "own" \in DOMAIN s /\ Len(s.own) = 2
    BY <1>2, CallSteps
  <2>2. Refers(s, 1) = <<"file", s.own[1]>> /\ Refers(s, 2) = <<"file", s.own[2]>>
    BY <1>2, <2>1 DEF Refers
  <2> QED BY <1>2, <2>2 DEF Refs
<1>3. CASE s.op \in {"eput", "opened"}
  <2>1. "own" \notin DOMAIN s
    BY <1>3, CallSteps
  <2>2. Refers(s, 1) = <<"entry", s.e>> /\ Refers(s, 2) = Nothing
    BY <1>3, <2>1 DEF Refers
  <2> QED BY <1>3, <2>2 DEF Refs
<1>4. CASE s.op = "pipeclose"
  <2>1. "own" \notin DOMAIN s
    BY <1>4, CallSteps
  <2>2. Refers(s, 1) = <<"end", s.i, s.writable>> /\ Refers(s, 2) = Nothing
    BY <1>4, <2>1 DEF Refers
  <2> QED BY <1>4, <2>2 DEF Refs
<1> QED BY <1>1, <1>2, <1>3, <1>4

-----------------------------------------------------------------------------
(* What a process has to do: calls first, then a program.                  *)
Shape(t) ==
  \A k \in DOMAIN t : t[k].op \in CallOps =>
    \/ k = 1
    \/ k = 2 /\ t[2].op \in {"fileclose", "eput"} /\ t[1].op \in Undo
Plain(t) == \A k \in DOMAIN t : t[k].op \notin CallOps

\* at most one step of a call, which gives something back
AtMostUndo(t) ==
  \A k \in DOMAIN t : t[k].op \in CallOps => k = 1 /\ t[1].op \in {"fileclose", "eput"}

\* steps that are not of a call refer to nothing
Silent(A) == \A s \in A : s.op \notin CallOps => \A x : x # Nothing => Refs(s, x) = 0

LEMMA SilentSteps == Silent(AnyStep)
BY ProgramSteps, CallSteps DEF Silent, AnyStep

LEMMA NothingPending ==
  ASSUME NEW A, Silent(A), NEW t \in Seq(A), Plain(t), NEW x, x # Nothing
  PROVE  InTodo(t, x) = 0
<1>1. \A k \in DOMAIN t : Refs(t[k], x) = 0
  BY DEF Silent, Plain
<1> QED BY <1>1 DEF InTodo

\* s comes before u
Joins(v, steps, u) == v = steps \o u
First(t, s, u) == t # <<>> /\ s = Head(t) /\ u = Tail(t)
Adds(t, s, u) == \A x : x # Nothing => InTodo(t, x) = Refs(s, x) + InTodo(u, x)

LEMMA NextStep ==
  ASSUME NEW A, Silent(A), NEW t \in Seq(A), Shape(t), NEW s, NEW u, First(t, s, u)
  PROVE  /\ s \in A /\ s = t[1] /\ 1 \in DOMAIN t
         /\ u \in Seq(A) /\ AtMostUndo(u)
         /\ Adds(t, s, u)
         /\ s.op \notin Undo => Plain(u)
<1> USE DEF First
<1>1. /\ u \in Seq(A) /\ Len(u) = Len(t) - 1 /\ Len(t) \in Nat \ {0}
      /\ DOMAIN u = 1..Len(u) /\ DOMAIN t = 1..Len(t)
      /\ \A k \in 1..Len(u) : u[k] = t[k + 1]
  OBVIOUS
<1>2. s = t[1] /\ s \in A /\ 1 \in DOMAIN t
  BY <1>1
<1>3. AtMostUndo(u) /\ (s.op \notin Undo => Plain(u))
  <2> SUFFICES ASSUME NEW k \in DOMAIN u, u[k].op \in CallOps
               PROVE  k = 1 /\ u[1].op \in {"fileclose", "eput"} /\ s.op \in Undo
    BY DEF AtMostUndo, Plain
  <2>1. k + 1 \in DOMAIN t /\ t[k + 1] = u[k]
    BY <1>1
  <2> QED BY <2>1, <1>1, <1>2 DEF Shape
<1>4. Adds(t, s, u)
  <2> SUFFICES ASSUME NEW x, x # Nothing PROVE InTodo(t, x) = Refs(s, x) + InTodo(u, x)
    BY DEF Adds
  <2>1. 3 \in DOMAIN t => Refs(t[3], x) = 0
    <3>1. 3 \in DOMAIN t => t[3] \in A /\ t[3].op \notin CallOps
      BY DEF Shape
    <3> QED BY <3>1 DEF Silent
  <2>2. ASSUME NEW k \in DOMAIN u, k # 1 PROVE Refs(u[k], x) = 0
    <3>1. u[k].op \notin CallOps
      BY <1>3, <2>2 DEF AtMostUndo
    <3>2. u[k] \in A
      BY <1>1
    <3> QED BY <3>1, <3>2 DEF Silent
  <2>3. /\ 3 \in DOMAIN u => Refs(u[3], x) = 0
        /\ 2 \in DOMAIN u => Refs(u[2], x) = 0
    <3>1. 3 # 1 /\ 2 # 1
      OBVIOUS
    <3> QED BY ONLY <2>2, <3>1, Zenon
  <2>4. /\ 1 \in DOMAIN u <=> 2 \in DOMAIN t
        /\ 1 \in DOMAIN u => u[1] = t[2]
    BY <1>1
  <2>5. 3 \in DOMAIN t => 2 \in DOMAIN u
    BY <1>1
  <2>6. /\ InTodo(t, x) = Refs(s, x) + (IF 2 \in DOMAIN t THEN Refs(t[2], x) ELSE 0)
        /\ InTodo(u, x) = IF 1 \in DOMAIN u THEN Refs(u[1], x) ELSE 0
    BY <2>1, <2>3, <1>2, TodoNumbers DEF InTodo
  <2> QED BY <2>4, <2>6
<1> QED BY <1>1, <1>2, <1>3, <1>4

LEMMA OneMore ==
  ASSUME NEW A, Silent(A), NEW u \in Seq(A), NEW s \in A, NEW v, Joins(v, <<s>>, u),
         Plain(u) \/ (AtMostUndo(u) /\ s.op \in Undo)
  PROVE  /\ v \in Seq(A) /\ v # <<>> /\ v[1] = s /\ Shape(v)
         /\ Adds(v, s, u)
<1>1. /\ v \in Seq(A) /\ Len(v) = Len(u) + 1 /\ v[1] = s /\ Len(u) \in Nat
      /\ DOMAIN u = 1..Len(u) /\ DOMAIN v = 1..Len(v)
      /\ \A k \in 1..Len(u) : v[k + 1] = u[k]
  BY DEF Joins
<1>2. AtMostUndo(u)
  BY DEF AtMostUndo, Plain
<1>3. \A k \in DOMAIN v : k # 1 => k - 1 \in DOMAIN u /\ v[k] = u[k - 1]
  BY <1>1
<1>4. Shape(v)
  <2> SUFFICES ASSUME NEW k \in DOMAIN v, v[k].op \in CallOps, k # 1
               PROVE  k = 2 /\ v[2].op \in {"fileclose", "eput"} /\ v[1].op \in Undo
    BY DEF Shape
  <2>1. k - 1 \in DOMAIN u /\ v[k] = u[k - 1]
    BY <1>3
  <2>2. k - 1 = 1 /\ u[1].op \in {"fileclose", "eput"} /\ s.op \in Undo
    BY <2>1, <1>2 DEF AtMostUndo, Plain
  <2>3. k = 2
    BY <2>2, <1>1
  <2> QED BY <2>1, <2>2, <2>3, <1>1
<1>5. Tail(v) = u
  BY <1>1
<1>6. v # <<>>
  BY <1>1
<1>7. First(v, s, u)
  BY <1>1, <1>5, <1>6 DEF First
<1>8. Adds(v, s, u)
  BY <1>1, <1>4, <1>7, NextStep
<1> QED BY <1>1, <1>4, <1>6, <1>8

-----------------------------------------------------------------------------
(* The inductive invariant in the parts that a step of one process touches: *)
(* types but those of processes, files, and each process with the files it  *)
(* uses.                                                                    *)
OFile == [type : {"none", "device", "entry", "pipe"}, ref : Nat, readable : BOOLEAN, writable : BOOLEAN,
          to : {None} \cup Names \cup (1..load.npipe), off : Nat]
APipe == [alloc : BOOLEAN, readopen : BOOLEAN, writeopen : BOOLEAN, data : Seq(Nat)]
AnEntry == [ref : Nat, bytes : {None} \cup Seq(Nat)]
Process ==
  [st : {"unused", "live", "zombie"}, parent : Procs \cup {0}, ofile : [Fds -> {None} \cup DOMAIN file],
   todo : Seq(AnyStep), p : Nat \X Nat, ret : Int, buf : Seq(Nat)]

TypesOK ==
  /\ load \in Loads /\ input \in Seq(Commands) /\ out \in Seq(Nat) /\ faults \in Nat
  /\ file \in [1..load.nfile -> OFile] /\ pipe \in [1..load.npipe -> APipe] /\ entry \in [Names -> AnEntry]

FilesOK(fs, ps, es) == \A f \in DOMAIN fs :
  /\ fs[f].type = "none" => fs[f].ref <= 1
  /\ fs[f].type = "pipe" => fs[f].to \in DOMAIN ps /\ fs[f].readable = ~fs[f].writable
  /\ fs[f].type = "entry" => fs[f].to \in Names /\ es[fs[f].to].bytes # None
  /\ fs[f].ref = 0 => fs[f].type = "none"

\* what a call under way relies on
HeadOK(s, fs, es) ==
  /\ s.op \in {"pipe2", "pipe3"} => \A j \in DOMAIN s.own : fs[s.own[j]].type = "none"
  /\ s.op = "pipe3" => s.own[1] # s.own[2]
  /\ s.op = "opened" => es[s.e].bytes # None
ProcessOK(x, fs, es) ==
  /\ x.st # "live" => x.todo = <<>> /\ \A fd \in DOMAIN x.ofile : x.ofile[fd] = None
  /\ Shape(x.todo)
  /\ \A fd \in DOMAIN x.ofile : x.ofile[fd] # None => fs[x.ofile[fd]].type # "none"
  /\ x.todo # <<>> => HeadOK(x.todo[1], fs, es)

LEMMA HeadOfTodo ==
  ASSUME NEW A, NEW t \in Seq(A), t # <<>>
  PROVE  Head(t) = t[1] /\ t[1] \in A /\ 1 \in DOMAIN t
OBVIOUS

LEMMA Parts ==
  ASSUME ShIndInv
  PROVE  /\ TypesOK /\ pr \in [Procs -> Process] /\ FilesOK(file, pipe, entry)
         /\ \A p \in Procs : ProcessOK(pr[p], file, entry)
         /\ RefsExact /\ PipeEndsOpen
<1>1. TypesOK /\ pr \in [Procs -> Process]
  BY DEF ShIndInv, ShTypeOK, TypesOK, Process, OFile, APipe, AnEntry, AnyStep
<1>2. FilesOK(file, pipe, entry)
  BY DEF ShIndInv, Opening, FilesOK
<1>3. ASSUME NEW p \in Procs PROVE ProcessOK(pr[p], file, entry)
  <2>1. pr[p] \in Process /\ DOMAIN pr[p].ofile = Fds /\ pr[p].todo \in Seq(AnyStep)
    BY <1>1 DEF Process
  <2>2. pr[p].st # "live" => pr[p].todo = <<>> /\ \A fd \in Fds : pr[p].ofile[fd] = None
    BY DEF ShIndInv, OnlyLive
  <2>3. Shape(pr[p].todo)
    BY DEF ShIndInv, CallFirst, Shape, Undo
  <2>4. \A fd \in Fds : pr[p].ofile[fd] # None => file[pr[p].ofile[fd]].type # "none"
    BY DEF ShIndInv, Opening
  <2>5. pr[p].todo # <<>> => HeadOK(pr[p].todo[1], file, entry)
    <3> SUFFICES ASSUME pr[p].todo # <<>> PROVE HeadOK(pr[p].todo[1], file, entry)
      OBVIOUS
    <3>1. pr[p].st = "live" /\ Head(pr[p].todo) = pr[p].todo[1]
      BY <2>1, <2>2, HeadOfTodo
    <3>2. \A o : At(p, o) <=> pr[p].todo[1].op = o
      BY <3>1 DEF At
    <3> QED BY <3>1, <3>2 DEF ShIndInv, Opening, HeadOK, Now
  <2> QED BY <2>1, <2>2, <2>3, <2>4, <2>5 DEF ProcessOK
<1> QED BY <1>1, <1>2, <1>3 DEF ShIndInv

LEMMA PartsNext ==
  ASSUME TypesOK', pr' \in [Procs -> Process'], FilesOK(file', pipe', entry'),
         \A p \in Procs : ProcessOK(pr'[p], file', entry'), RefsExact', PipeEndsOpen'
  PROVE  ShIndInv'
<1>1. ShTypeOK'
  BY DEF ShTypeOK, TypesOK, Process, OFile, APipe, AnEntry, AnyStep
<1>2. \A p \in Procs : DOMAIN pr'[p].ofile = Fds' /\ pr'[p].todo \in Seq(AnyStep')
  BY DEF Process
<1>3. OnlyLive'
  BY <1>2 DEF OnlyLive, ProcessOK
<1>4. CallFirst'
  BY DEF CallFirst, ProcessOK, Shape, Undo
<1>5. Opening'
  <2>1. ASSUME NEW p \in Procs, pr'[p].st = "live", pr'[p].todo # <<>>
        PROVE  HeadOK(Head(pr'[p].todo), file', entry')
    BY <2>1, <1>2, HeadOfTodo DEF ProcessOK
  <2>2. \A p \in Procs, fd \in Fds' : pr'[p].ofile[fd] # None => file'[pr'[p].ofile[fd]].type # "none"
    BY <1>2 DEF ProcessOK
  <2>3. \A p \in Procs : At(p, "pipe2")' \/ At(p, "pipe3")' =>
          \A j \in DOMAIN Now(p)'.own : file'[Now(p)'.own[j]].type = "none"
    BY <2>1 DEF HeadOK, At, Now
  <2>4. \A p \in Procs : /\ At(p, "pipe3")' => Now(p)'.own[1] # Now(p)'.own[2]
                         /\ At(p, "opened")' => entry'[Now(p)'.e].bytes # None
    BY <2>1 DEF HeadOK, At, Now
  <2>5. FilesOK(file', pipe', entry')
    OBVIOUS
  <2> HIDE DEF At, Now
  <2> QED BY <2>2, <2>3, <2>4, <2>5 DEF Opening, FilesOK
<1> QED BY <1>1, <1>3, <1>4, <1>5 DEF ShIndInv

-----------------------------------------------------------------------------
(* A step of p keeps the accounts when they balance over p.                *)
Change(x, p) == Cardinality(OpenIn(file', x)) - Cardinality(OpenIn(file, x))
                + InTodo(pr'[p].todo, x) - InTodo(pr[p].todo, x)
Flag(b) == IF b THEN 1 ELSE 0

FilesBalance(p) == \A f \in DOMAIN file :
  file'[f].ref = file[f].ref - Held(pr[p].ofile, Fds, f) - InTodo(pr[p].todo, <<"file", f>>)
                 + Held(pr'[p].ofile, Fds, f) + InTodo(pr'[p].todo, <<"file", f>>)
EntriesBalance(p) == \A e \in Names : entry'[e].ref = entry[e].ref + Change(<<"entry", e>>, p)
PipesBalance(p) == \A i \in DOMAIN pipe :
  /\ Flag(pipe'[i].writeopen) = Flag(pipe[i].writeopen) + Change(<<"end", i, TRUE>>, p)
  /\ Flag(pipe'[i].readopen) = Flag(pipe[i].readopen) + Change(<<"end", i, FALSE>>, p)
  /\ pipe'[i].alloc = (pipe'[i].readopen \/ pipe'[i].writeopen)

LEMMA Domains ==
  ASSUME TypesOK
  PROVE  /\ DOMAIN file = 1..load.nfile /\ DOMAIN pipe = 1..load.npipe /\ DOMAIN entry = Names
         /\ IsFiniteSet(DOMAIN file) /\ IsFiniteSet(Fds) /\ None \notin DOMAIN file
         /\ load.nproc \in Nat /\ 1..load.nproc \subseteq Procs
<1>1. /\ load.nfile \in Nat /\ load.nofile \in Nat /\ None \notin 1..load.nfile
      /\ load.nproc \in Nat /\ 1..load.nproc \subseteq Procs
  BY LoadsAssumption DEF TypesOK
<1>2. IsFiniteSet(1..load.nfile)
  <2>1. load.nfile \in Int /\ 1 \in Int
    BY <1>1
  <2> QED BY ONLY <2>1, FS_Interval
<1>3. IsFiniteSet(Fds)
  <2>1. 0 \in Int /\ load.nofile - 1 \in Int
    BY <1>1
  <2> QED BY ONLY <2>1, FS_Interval DEF Fds
<1> QED BY <1>1, <1>2, <1>3 DEF TypesOK

LEMMA UserChanges ==
  ASSUME TypesOK, DOMAIN file' = DOMAIN file, NEW p \in Procs, Same(pr, pr', p), NEW x
  PROVE  /\ Users(x) \in Nat /\ Users(x)' \in Nat /\ Change(x, p) \in Int
         /\ Users(x)' = Users(x) + Change(x, p)
<1>1. /\ Cardinality(PendingIn(pr, x)) \in Nat /\ Cardinality(PendingIn(pr', x)) \in Nat
      /\ Cardinality(PendingIn(pr', x)) =
              Cardinality(PendingIn(pr, x)) - InTodo(pr[p].todo, x) + InTodo(pr'[p].todo, x)
  BY PendingChanges
<1>2. Cardinality(OpenIn(file, x)) \in Nat /\ Cardinality(OpenIn(file', x)) \in Nat
  <2>1. IsFiniteSet(DOMAIN file)
    BY Domains
  <2>2. IsFiniteSet(OpenIn(file, x)) /\ IsFiniteSet(OpenIn(file', x))
    BY <2>1, FS_Subset DEF OpenIn
  <2> QED BY <2>2, FS_CardinalityType
<1>3. /\ Users(x) = Cardinality(OpenIn(file, x)) + Cardinality(PendingIn(pr, x))
      /\ Users(x)' = Cardinality(OpenIn(file', x)) + Cardinality(PendingIn(pr', x))
  BY InState, InNextState DEF Users
<1> QED BY <1>1, <1>2, <1>3, TodoNumbers DEF Change

LEMMA AccountsKept ==
  ASSUME TypesOK, RefsExact, PipeEndsOpen, DOMAIN file' = DOMAIN file, DOMAIN pipe' = DOMAIN pipe,
         DOMAIN entry' = DOMAIN entry, Fds' = Fds, NEW p \in Procs, Same(pr, pr', p),
         FilesBalance(p), EntriesBalance(p), PipesBalance(p)
  PROVE  RefsExact' /\ PipeEndsOpen'
<1>1. ASSUME NEW f \in DOMAIN file
      PROVE  file'[f].ref = Cardinality(HeldIn(pr', Fds, f)) + Cardinality(PendingIn(pr', <<"file", f>>))
  <2>1. file[f].ref = Cardinality(HeldIn(pr, Fds, f)) + Cardinality(PendingIn(pr, <<"file", f>>))
    BY InState DEF RefsExact
  <2>2. PICK x : x = <<"file", f>>
    OBVIOUS
  <2>3. /\ Cardinality(PendingIn(pr, x)) \in Nat /\ Cardinality(PendingIn(pr', x)) \in Nat
        /\ Cardinality(PendingIn(pr', x)) =
              Cardinality(PendingIn(pr, x)) - InTodo(pr[p].todo, x) + InTodo(pr'[p].todo, x)
    BY PendingChanges
  <2>4. /\ Cardinality(HeldIn(pr, Fds, f)) \in Nat /\ Cardinality(HeldIn(pr', Fds, f)) \in Nat
        /\ Held(pr[p].ofile, Fds, f) \in Nat /\ Held(pr'[p].ofile, Fds, f) \in Nat
        /\ Cardinality(HeldIn(pr', Fds, f)) = Cardinality(HeldIn(pr, Fds, f))
             - Held(pr[p].ofile, Fds, f) + Held(pr'[p].ofile, Fds, f)
    <3>1. IsFiniteSet(Fds)
      BY Domains
    <3> QED BY <3>1, HeldChanges
  <2>5. file'[f].ref = file[f].ref - Held(pr[p].ofile, Fds, f) - InTodo(pr[p].todo, x)
                 + Held(pr'[p].ofile, Fds, f) + InTodo(pr'[p].todo, x)
    BY <2>2 DEF FilesBalance
  <2>6. InTodo(pr[p].todo, x) \in Nat /\ InTodo(pr'[p].todo, x) \in Nat
    BY TodoNumbers
  <2> QED BY ONLY <2>1, <2>2, <2>3, <2>4, <2>5, <2>6
<1>2. \A x : /\ Users(x) \in Nat /\ Users(x)' \in Nat /\ Change(x, p) \in Int
             /\ Users(x)' = Users(x) + Change(x, p)
  BY UserChanges
<1>3. ASSUME NEW e \in Names PROVE entry'[e].ref = Users(<<"entry", e>>)'
  <2>1. entry[e].ref = Users(<<"entry", e>>)
    BY Domains DEF RefsExact
  <2>2. entry'[e].ref = entry[e].ref + Change(<<"entry", e>>, p)
    BY Zenon DEF EntriesBalance
  <2> QED BY <1>2, <2>1, <2>2
<1>4. RefsExact'
  BY <1>1, <1>3, InNextState, Domains DEF RefsExact
<1>5. ASSUME NEW i \in DOMAIN pipe
      PROVE  /\ Users(<<"end", i, TRUE>>)' = Flag(pipe'[i].writeopen)
             /\ Users(<<"end", i, FALSE>>)' = Flag(pipe'[i].readopen)
  <2>1. /\ Users(<<"end", i, TRUE>>) = Flag(pipe[i].writeopen)
        /\ Users(<<"end", i, FALSE>>) = Flag(pipe[i].readopen)
    BY DEF PipeEndsOpen, Flag
  <2>2. /\ Flag(pipe'[i].writeopen) = Flag(pipe[i].writeopen) + Change(<<"end", i, TRUE>>, p)
        /\ Flag(pipe'[i].readopen) = Flag(pipe[i].readopen) + Change(<<"end", i, FALSE>>, p)
    BY Zenon DEF PipesBalance
  <2> QED BY <1>2, <2>1, <2>2
<1>6. PipeEndsOpen'
  <2>1. \A i \in DOMAIN pipe : pipe'[i].alloc = (pipe'[i].readopen \/ pipe'[i].writeopen)
    BY Zenon DEF PipesBalance
  <2>2. \A i \in DOMAIN pipe' : Users(<<"end", i, TRUE>>)' = Flag(pipe'[i].writeopen)
                              /\ Users(<<"end", i, FALSE>>)' = Flag(pipe'[i].readopen)
    BY <1>5
  <2> QED BY ONLY <2>1, <2>2, DOMAIN pipe' = DOMAIN pipe DEF PipeEndsOpen, Flag
<1> QED BY <1>4, <1>6

-----------------------------------------------------------------------------
(* Who refers to a file.                                                   *)
Owns(x, f) == /\ x.todo # <<>> /\ x.todo[1].op \in {"fileclose", "pipe2", "pipe3"}
              /\ \E j \in DOMAIN x.todo[1].own : x.todo[1].own[j] = f
HasFd(x, f) == \E fd \in Fds : x.ofile[fd] = f

LEMMA Holders ==
  ASSUME TypesOK, pr \in [Procs -> Process], RefsExact, NEW f \in DOMAIN file
  PROVE  /\ \A q \in Procs : Owns(pr[q], f) \/ HasFd(pr[q], f) => file[f].ref > 0
         /\ file[f].ref = 1 =>
              \A p \in Procs : Owns(pr[p], f) =>
                /\ \A q \in Procs : ~HasFd(pr[q], f)
                /\ \A q \in Procs : Owns(pr[q], f) => q = p
<1>1. PICK P : P = PendingIn(pr, <<"file", f>>)
  OBVIOUS
<1>2. PICK H : H = HeldIn(pr, Fds, f)
  OBVIOUS
<1>3. IsFiniteSet(P) /\ IsFiniteSet(H)
  <2>1. IsFiniteSet(Steps)
    BY FiniteSteps
  <2>2. IsFiniteSet(Procs \X Fds)
    BY LoadsAssumption, Domains, FS_Product
  <2>3. P \subseteq Steps /\ H \subseteq Procs \X Fds
    BY <1>1, <1>2 DEF PendingIn, HeldIn
  <2> QED BY <2>1, <2>2, <2>3, FS_Subset
<1>4. file[f].ref = Cardinality(H) + Cardinality(P)
  BY <1>1, <1>2, InState DEF RefsExact
<1>5. Cardinality(P) \in Nat /\ Cardinality(H) \in Nat
  BY <1>3, FS_CardinalityType
<1>6. ASSUME NEW q \in Procs, HasFd(pr[q], f) PROVE H # {}
  <2>1. PICK fd \in Fds : pr[q].ofile[fd] = f
    BY <1>6 DEF HasFd
  <2>2. <<q, fd>> \in H
    BY <1>2, <2>1 DEF HeldIn
  <2> QED BY <2>2
<1>7. ASSUME NEW q \in Procs, Owns(pr[q], f) PROVE \E z \in P : z[1] = q
  <2>1. PICK s : s = pr[q].todo[1]
    OBVIOUS
  <2>2. pr[q].todo \in Seq(AnyStep) /\ pr[q].todo # <<>>
    BY <1>7 DEF Process, Owns
  <2>3. s \in AnyStep /\ 1 \in DOMAIN pr[q].todo
    BY <2>1, <2>2, HeadOfTodo
  <2>4. s.op \in {"fileclose", "pipe2", "pipe3"} /\ \E j \in DOMAIN s.own : s.own[j] = f
    BY <1>7, <2>1 DEF Owns
  <2>5. s \in CallStep
    <3>1. s.op \in CallOps
      BY <2>4 DEF CallOps
    <3> QED BY <2>3, <3>1, ProgramSteps DEF AnyStep
  <2>6. "own" \in DOMAIN s /\ (Len(s.own) = 1 \/ Len(s.own) = 2) /\ DOMAIN s.own = 1..Len(s.own)
    BY <2>4, <2>5, CallSteps
  <2>7. PICK j \in 1..2 : j <= Len(s.own) /\ s.own[j] = f
    BY <2>4, <2>6
  <2>8. Refers(s, j) = <<"file", f>>
    BY <2>4, <2>6, <2>7 DEF Refers
  <2>9. PICK z : z = <<q, 1, j>>
    OBVIOUS
  <2>10. z \in Steps /\ z[1] = q /\ z[2] = 1 /\ z[3] = j
    BY <2>9 DEF Steps
  <2>11. z \in P
    BY <2>1, <2>3, <2>8, <2>10, <1>1 DEF PendingIn
  <2> QED BY <2>10, <2>11
<1>8. /\ P # {} => Cardinality(P) > 0
      /\ H # {} => Cardinality(H) > 0
  BY <1>3, <1>5, FS_EmptySet
<1>9. \A q \in Procs : Owns(pr[q], f) \/ HasFd(pr[q], f) => file[f].ref > 0
  BY <1>4, <1>5, <1>6, <1>7, <1>8
<1>10. ASSUME file[f].ref = 1, NEW p \in Procs, Owns(pr[p], f)
       PROVE  /\ \A q \in Procs : ~HasFd(pr[q], f)
              /\ \A q \in Procs : Owns(pr[q], f) => q = p
  <2>1. Cardinality(P) = 1 /\ Cardinality(H) = 0
    BY <1>4, <1>5, <1>7, <1>8, <1>10
  <2>2. PICK y : P = {y}
    BY <1>3, <2>1, FS_Singleton
  <2> QED BY <2>1, <2>2, <1>6, <1>7, <1>8, <1>10
<1> QED BY <1>9, <1>10

(* A process keeps what it relies on.                                      *)
LEMMA StaysOK ==
  ASSUME NEW x, NEW fs, NEW es, NEW gs, NEW ds, ProcessOK(x, fs, es), x \in Process,
         \A f \in DOMAIN file : fs[f].type # "none" /\ HasFd(x, f) => gs[f].type # "none",
         \A f \in DOMAIN file : fs[f].type = "none" /\ Owns(x, f) => gs[f].type = "none",
         \A e \in Names : es[e].bytes # None => ds[e].bytes # None
  PROVE  ProcessOK(x, gs, ds)
<1>1. /\ x.ofile \in [Fds -> {None} \cup DOMAIN file] /\ DOMAIN x.ofile = Fds
      /\ x.todo \in Seq(AnyStep)
  BY DEF Process
<1>2. \A fd \in Fds : x.ofile[fd] # None => gs[x.ofile[fd]].type # "none"
  BY <1>1 DEF ProcessOK, HasFd
<1>3. x.todo # <<>> => HeadOK(x.todo[1], gs, ds)
  <2> SUFFICES ASSUME x.todo # <<>> PROVE HeadOK(x.todo[1], gs, ds)
    OBVIOUS
  <2>1. PICK s : s = x.todo[1]
    OBVIOUS
  <2>2. HeadOK(s, fs, es) /\ s \in AnyStep
    BY <2>1, <1>1, HeadOfTodo DEF ProcessOK
  <2>3. /\ s.op \in {"pipe2", "pipe3"} => s \in CallStep /\ s.own \in [DOMAIN s.own -> DOMAIN file]
        /\ s.op = "opened" => s.e \in Names
    <3>1. s.op \in {"pipe2", "pipe3", "opened"} => s \in CallStep
      BY <2>2, ProgramSteps DEF AnyStep, CallOps
    <3> QED BY <3>1, CallSteps
  <2>4. s.op \in {"pipe2", "pipe3"} => \A j \in DOMAIN s.own : Owns(x, s.own[j])
    BY <2>1 DEF Owns
  <2> QED BY <2>1, <2>2, <2>3, <2>4 DEF HeadOK
<1> QED BY <1>1, <1>2, <1>3 DEF ProcessOK

-----------------------------------------------------------------------------
(* One process moves.                                                      *)
Harmless(p) ==
  /\ \A q \in Procs, f \in DOMAIN file : q # p =>
       /\ file[f].type # "none" /\ HasFd(pr[q], f) => file'[f].type # "none"
       /\ file[f].type = "none" /\ Owns(pr[q], f) => file'[f].type = "none"
  /\ \A e \in Names : entry[e].bytes # None => entry'[e].bytes # None

LEMMA SameTypes ==
  ASSUME TypesOK, TypesOK', load' = load
  PROVE  /\ DOMAIN file' = DOMAIN file /\ DOMAIN pipe' = DOMAIN pipe /\ DOMAIN entry' = DOMAIN entry
         /\ Fds' = Fds /\ AnyStep' = AnyStep /\ Process' = Process
<1>1. /\ DOMAIN file' = DOMAIN file /\ DOMAIN pipe' = DOMAIN pipe /\ DOMAIN entry' = DOMAIN entry
  BY DEF TypesOK
<1>2. Fds' = Fds
  BY DEF Fds
<1>3. AnyStep' = AnyStep
  BY <1>1 DEF AnyStep, CallStep
<1> QED BY <1>1, <1>2, <1>3 DEF Process

LEMMA Move ==
  ASSUME ShIndInv, NEW p \in Procs, NEW y, pr' = [pr EXCEPT ![p] = y], load' = load,
         TypesOK', y \in Process, FilesOK(file', pipe', entry'), ProcessOK(y, file', entry'),
         Harmless(p), FilesBalance(p), EntriesBalance(p), PipesBalance(p)
  PROVE  ShIndInv'
<1>1. /\ TypesOK /\ pr \in [Procs -> Process] /\ RefsExact /\ PipeEndsOpen
      /\ \A q \in Procs : ProcessOK(pr[q], file, entry)
  BY Parts
<1>2. /\ DOMAIN file' = DOMAIN file /\ DOMAIN pipe' = DOMAIN pipe /\ DOMAIN entry' = DOMAIN entry
      /\ Fds' = Fds /\ Process' = Process
  BY <1>1, SameTypes
<1>3. pr' \in [Procs -> Process]
  BY <1>1
<1>4. ASSUME NEW q \in Procs PROVE ProcessOK(pr'[q], file', entry')
  <2>1. CASE q = p
    BY <2>1, <1>1
  <2>2. CASE q # p
    <3>1. pr'[q] = pr[q] /\ pr[q] \in Process /\ ProcessOK(pr[q], file, entry)
      BY <2>2, <1>1
    <3>2. /\ \A f \in DOMAIN file : file[f].type # "none" /\ HasFd(pr[q], f) => file'[f].type # "none"
          /\ \A f \in DOMAIN file : file[f].type = "none" /\ Owns(pr[q], f) => file'[f].type = "none"
          /\ \A e \in Names : entry[e].bytes # None => entry'[e].bytes # None
      BY <2>2 DEF Harmless
    <3>3. ProcessOK(pr[q], file', entry')
      BY ONLY <3>1, <3>2, StaysOK
    <3> QED BY <3>1, <3>3
  <2> QED BY <2>1, <2>2
<1>5. Same(pr, pr', p)
  BY <1>1 DEF Same
<1>6. RefsExact' /\ PipeEndsOpen'
  BY <1>1, <1>2, <1>5, AccountsKept
<1> QED BY <1>2, <1>3, <1>4, <1>6, PartsNext

(* ... and only its program, or data nobody counts.                        *)
QuietData ==
  /\ \A f \in DOMAIN file :
       /\ file'[f].type = file[f].type /\ file'[f].ref = file[f].ref /\ file'[f].to = file[f].to
       /\ file'[f].readable = file[f].readable /\ file'[f].writable = file[f].writable
  /\ \A i \in DOMAIN pipe :
       /\ pipe'[i].alloc = pipe[i].alloc /\ pipe'[i].readopen = pipe[i].readopen
       /\ pipe'[i].writeopen = pipe[i].writeopen
  /\ \A e \in Names :
       /\ entry'[e].ref = entry[e].ref
       /\ entry[e].bytes # None => entry'[e].bytes # None

LEMMA Quiet ==
  ASSUME ShIndInv, NEW p \in Procs, NEW y, pr' = [pr EXCEPT ![p] = y], load' = load,
         TypesOK', y \in Process, y.st = "live", y.ofile = pr[p].ofile,
         Plain(pr[p].todo), Plain(y.todo), QuietData
  PROVE  ShIndInv'
<1>1. /\ TypesOK /\ pr \in [Procs -> Process] /\ RefsExact /\ PipeEndsOpen
      /\ ProcessOK(pr[p], file, entry) /\ FilesOK(file, pipe, entry)
  BY Parts
<1>2. /\ DOMAIN file' = DOMAIN file /\ DOMAIN pipe' = DOMAIN pipe
  BY <1>1, SameTypes
<1>3. /\ pr[p] \in Process /\ pr[p].todo \in Seq(AnyStep) /\ y.todo \in Seq(AnyStep)
      /\ y.ofile \in [Fds -> {None} \cup DOMAIN file] /\ pr'[p] = y
  BY <1>1 DEF Process
<1>4. FilesOK(file', pipe', entry')
  BY <1>1, <1>2 DEF FilesOK, QuietData
<1>5. ProcessOK(y, file', entry')
  <2>1. Shape(y.todo)
    BY DEF Shape, Plain
  <2>2. y.todo # <<>> => HeadOK(y.todo[1], file', entry')
    <3>1. y.todo # <<>> => 1 \in DOMAIN y.todo
      BY <1>3, HeadOfTodo
    <3> QED BY <3>1 DEF HeadOK, Plain, CallOps
  <2>3. \A fd \in Fds : y.ofile[fd] # None => file'[y.ofile[fd]].type # "none"
    BY <1>1, <1>3 DEF ProcessOK, QuietData
  <2> QED BY <1>3, <2>1, <2>2, <2>3 DEF ProcessOK
<1>6. Harmless(p)
  BY DEF Harmless, QuietData
<1>7. \A x : x # Nothing => InTodo(y.todo, x) = 0 /\ InTodo(pr[p].todo, x) = 0
  BY <1>3, SilentSteps, NothingPending
<1>8. \A x : x # Nothing => Change(x, p) = 0
  <2> SUFFICES ASSUME NEW x, x # Nothing PROVE Change(x, p) = 0
    OBVIOUS
  <2>1. OpenIn(file', x) = OpenIn(file, x)
    BY <1>2 DEF OpenIn, QuietData, Target
  <2>2. Cardinality(OpenIn(file, x)) \in Nat
    <3>1. OpenIn(file, x) \subseteq DOMAIN file
      BY DEF OpenIn
    <3> QED BY <1>1, <3>1, Domains, FS_Subset, FS_CardinalityType
  <2>3. InTodo(y.todo, x) = 0 /\ InTodo(pr[p].todo, x) = 0
    BY <1>7
  <2> QED BY <2>1, <2>2, <2>3, <1>3 DEF Change
<1>9. FilesBalance(p)
  <2> SUFFICES ASSUME NEW f \in DOMAIN file
               PROVE  file'[f].ref = file[f].ref - Held(pr[p].ofile, Fds, f) - InTodo(pr[p].todo, <<"file", f>>)
                 + Held(pr'[p].ofile, Fds, f) + InTodo(pr'[p].todo, <<"file", f>>)
    BY Zenon DEF FilesBalance
  <2>1. InTodo(pr'[p].todo, <<"file", f>>) = 0 /\ InTodo(pr[p].todo, <<"file", f>>) = 0
    BY <1>3, <1>7 DEF Nothing
  <2>2. file'[f].ref = file[f].ref /\ file[f].ref \in Nat
    BY <1>1 DEF QuietData, TypesOK, OFile
  <2>3. Held(pr[p].ofile, Fds, f) \in Nat
    BY <1>1, Domains, FS_Subset, FS_CardinalityType DEF Held
  <2> QED BY <1>3, <2>1, <2>2, <2>3
<1>10. EntriesBalance(p)
  <2> SUFFICES ASSUME NEW e \in Names PROVE entry'[e].ref = entry[e].ref + Change(<<"entry", e>>, p)
    BY Zenon DEF EntriesBalance
  <2>1. Change(<<"entry", e>>, p) = 0
    BY <1>8 DEF Nothing
  <2>2. entry'[e].ref = entry[e].ref /\ entry[e].ref \in Nat
    BY <1>1 DEF QuietData, TypesOK, AnEntry
  <2> QED BY <2>1, <2>2
<1>11. PipesBalance(p)
  <2>1. \A i \in DOMAIN pipe : Change(<<"end", i, TRUE>>, p) = 0 /\ Change(<<"end", i, FALSE>>, p) = 0
    BY <1>8 DEF Nothing
  <2> SUFFICES ASSUME NEW i \in DOMAIN pipe
               PROVE  /\ Flag(pipe'[i].writeopen) = Flag(pipe[i].writeopen) + Change(<<"end", i, TRUE>>, p)
                      /\ Flag(pipe'[i].readopen) = Flag(pipe[i].readopen) + Change(<<"end", i, FALSE>>, p)
                      /\ pipe'[i].alloc = (pipe'[i].readopen \/ pipe'[i].writeopen)
    BY Zenon DEF PipesBalance
  <2>2. /\ pipe'[i].alloc = pipe[i].alloc /\ pipe'[i].readopen = pipe[i].readopen
        /\ pipe'[i].writeopen = pipe[i].writeopen
    BY DEF QuietData
  <2>3. pipe[i].alloc = (pipe[i].readopen \/ pipe[i].writeopen)
    BY <1>1 DEF PipeEndsOpen
  <2>4. \A b : Flag(b) + 0 = Flag(b)
    BY DEF Flag
  <2> QED BY <2>1, <2>2, <2>3, <2>4
<1> QED BY <1>4, <1>5, <1>6, <1>9, <1>10, <1>11, Move

-----------------------------------------------------------------------------
(* What a process does next, and what it has to do then.                   *)
LEMMA Doing ==
  ASSUME ShIndInv, NEW p \in Procs, NEW o, At(p, o)
  PROVE  /\ pr[p] \in Process /\ pr[p].st = "live" /\ ProcessOK(pr[p], file, entry)
         /\ Now(p).op = o /\ Now(p) \in AnyStep /\ Now(p) = pr[p].todo[1] /\ pr[p].todo # <<>>
         /\ o \in CallOps => Now(p) \in CallStep /\ HeadOK(Now(p), file, entry)
         /\ o \notin CallOps => Now(p) \in ProgramStep /\ Plain(pr[p].todo)
         /\ Tail(pr[p].todo) \in Seq(AnyStep) /\ AtMostUndo(Tail(pr[p].todo))
         /\ Adds(pr[p].todo, Now(p), Tail(pr[p].todo))
         /\ o \notin Undo => Plain(Tail(pr[p].todo))
<1>1. pr[p] \in Process /\ pr[p].todo \in Seq(AnyStep) /\ ProcessOK(pr[p], file, entry)
  BY Parts DEF Process
<1>2. PICK t, s, u : t = pr[p].todo /\ s = Now(p) /\ u = Tail(pr[p].todo)
  OBVIOUS
<1>3. pr[p].st = "live" /\ t # <<>> /\ s.op = o /\ First(t, s, u)
  BY <1>2 DEF At, First, Now
<1>4. Shape(t) /\ t \in Seq(AnyStep)
  BY <1>1, <1>2 DEF ProcessOK
<1>5. /\ s \in AnyStep /\ s = t[1] /\ 1 \in DOMAIN t
      /\ u \in Seq(AnyStep) /\ AtMostUndo(u) /\ Adds(t, s, u)
      /\ s.op \notin Undo => Plain(u)
  BY <1>3, <1>4, SilentSteps, NextStep
<1>6. /\ o \in CallOps => s \in CallStep
      /\ o \notin CallOps => s \in ProgramStep
  BY <1>3, <1>5, ProgramSteps, CallSteps DEF AnyStep
<1>7. HeadOK(s, file, entry)
  BY <1>1, <1>2, <1>3, <1>5 DEF ProcessOK
<1>8. o \notin CallOps => Plain(t)
  <2> SUFFICES ASSUME o \notin CallOps, NEW k \in DOMAIN t, t[k].op \in CallOps PROVE FALSE
    BY DEF Plain
  <2> QED BY <1>3, <1>4, <1>5 DEF Shape, Undo, CallOps
<1> QED BY <1>1, <1>2, <1>3, <1>5, <1>6, <1>7, <1>8

LEMMA Proceeds ==
  ASSUME NEW p \in Procs, pr[p] \in Process, pr[p].st = "live", NEW steps, NEW r \in Int,
         NEW v \in Seq(AnyStep), Joins(v, steps, Tail(pr[p].todo))
  PROVE  /\ Go(p, steps) \in Process /\ Go(p, steps).st = "live" /\ Go(p, steps).todo = v
         /\ Go(p, steps).ofile = pr[p].ofile
         /\ Ret(p, r, steps) \in Process /\ Ret(p, r, steps).st = "live" /\ Ret(p, r, steps).todo = v
         /\ Ret(p, r, steps).ofile = pr[p].ofile
BY DEF Go, Ret, Process, Joins

(* A program has more to do. *)
LEMMA ProgramMore ==
  ASSUME NEW T \in Seq(ProgramStep), NEW u \in Seq(AnyStep), Plain(u)
  PROVE  T \o u \in Seq(AnyStep) /\ Plain(T \o u)
<1>1. T \in Seq(AnyStep)
  <2>1. ProgramStep \subseteq AnyStep
    BY DEF AnyStep
  <2> QED BY ONLY <2>1, T \in Seq(ProgramStep), SeqMonotonic
<1>2. T \o u \in Seq(AnyStep)
  BY <1>1
<1>3. ASSUME NEW k \in DOMAIN (T \o u) PROVE (T \o u)[k].op \notin CallOps
  <2>1. CASE k \in DOMAIN T
    <3>1. (T \o u)[k] = T[k] /\ T[k] \in ProgramStep
      BY <2>1
    <3> QED BY <3>1, ProgramSteps
  <2>2. CASE k \notin DOMAIN T
    <3>1. (T \o u)[k] = u[k - Len(T)] /\ k - Len(T) \in DOMAIN u
      BY <1>1, <2>2
    <3> QED BY <3>1 DEF Plain
  <2> QED BY <2>1, <2>2
<1> QED BY <1>2, <1>3 DEF Plain

LEMMA AllPlain ==
  ASSUME NEW T \in Seq(ProgramStep)
  PROVE  T \in Seq(AnyStep) /\ Plain(T)
<1>1. <<>> \in Seq(AnyStep) /\ Plain(<<>>)
  BY DEF Plain
<1>2. T \o <<>> = T
  OBVIOUS
<1>3. T \o <<>> \in Seq(AnyStep) /\ Plain(T \o <<>>)
  BY ONLY <1>1, ProgramMore, T \in Seq(ProgramStep)
<1> QED BY <1>2, <1>3

(* The steps of the programs. *)
LEMMA Steps1 ==
  /\ \A n \in Int : close(n) \in ProgramStep /\ dup(n) \in ProgramStep /\ read(n) \in ProgramStep
  /\ \A n \in Int, b \in Seq(Nat) : write(n, b) \in ProgramStep
  /\ \A e \in Names, m \in {"r", "w", "a"} : open(e, m) \in ProgramStep
  /\ \A c \in Commands : runcmd(c) \in ProgramStep
  /\ \A c \in Children : fork(c) \in ProgramStep
  /\ dev \in ProgramStep /\ wait \in ProgramStep /\ exit \in ProgramStep /\ orExit \in ProgramStep
  /\ [op |-> "pipe"] \in ProgramStep /\ [op |-> "cat"] \in ProgramStep
  /\ [op |-> "shelldev"] \in ProgramStep /\ [op |-> "shell"] \in ProgramStep
  /\ [op |-> "started"] \in ProgramStep
  /\ \A n \in Int : [op |-> "initwait", pid |-> n] \in ProgramStep
<1> USE DEF ProgramStep
<1>1. \A n \in Int : close(n) \in ProgramStep /\ dup(n) \in ProgramStep /\ read(n) \in ProgramStep
  BY DEF close, dup, read
<1>2. \A n \in Int, b \in Seq(Nat) : write(n, b) \in ProgramStep
  BY DEF write
<1>3. \A e \in Names, m \in {"r", "w", "a"} : open(e, m) \in ProgramStep
  BY DEF open
<1>4. \A c \in Commands : runcmd(c) \in ProgramStep
  BY DEF runcmd
<1>5. \A c \in Children : fork(c) \in ProgramStep
  BY DEF fork
<1>6. dev \in ProgramStep /\ wait \in ProgramStep /\ exit \in ProgramStep /\ orExit \in ProgramStep
  BY DEF dev, wait, exit, orExit
<1>7. /\ [op |-> "pipe"] \in ProgramStep /\ [op |-> "cat"] \in ProgramStep
      /\ [op |-> "shelldev"] \in ProgramStep /\ [op |-> "shell"] \in ProgramStep
      /\ [op |-> "started"] \in ProgramStep
  OBVIOUS
<1>8. \A n \in Int : [op |-> "initwait", pid |-> n] \in ProgramStep
  OBVIOUS
<1> HIDE DEF ProgramStep
<1> QED BY <1>1, <1>2, <1>3, <1>4, <1>5, <1>6, <1>7, <1>8

LEMMA ChildrenSteps ==
  /\ \A c \in Commands : <<runcmd(c)>> \in Children /\ <<runcmd(c)>> \in Seq(ProgramStep)
  /\ \A c \in Commands : c.type = "PIPE" => Left(c) \in Children /\ Right(c) \in Children
  /\ Sh \in Children
  /\ Children \subseteq Seq(ProgramStep)
<1>1. \A c \in Commands : <<runcmd(c)>> \in Seq(ProgramStep)
  BY Steps1
<1>2. Sh \in Seq(ProgramStep)
  BY Steps1 DEF Sh
<1>3. \A c \in Commands : c.type = "PIPE" => Left(c) \in Seq(ProgramStep) /\ Right(c) \in Seq(ProgramStep)
  <2> SUFFICES ASSUME NEW c \in Commands, c.type = "PIPE"
               PROVE  Left(c) \in Seq(ProgramStep) /\ Right(c) \in Seq(ProgramStep)
    OBVIOUS
  <2>1. c.left \in Commands /\ c.right \in Commands
    BY CommandsAssumption
  <2>2. /\ runcmd(c.left) \in ProgramStep /\ runcmd(c.right) \in ProgramStep
        /\ close(0) \in ProgramStep /\ close(1) \in ProgramStep
        /\ close(P0) \in ProgramStep /\ close(P1) \in ProgramStep
        /\ dup(P0) \in ProgramStep /\ dup(P1) \in ProgramStep
    BY <2>1, Steps1 DEF P0, P1
  <2> QED BY <2>2 DEF Left, Right
<1>4. ASSUME NEW x \in Children
      PROVE  \/ \E c \in Commands : x = <<runcmd(c)>>
             \/ x = Sh
             \/ \E c \in Commands : c.type = "PIPE" /\ (x = Left(c) \/ x = Right(c))
  <2>1. PICK A, B : /\ A = {<<runcmd(c)>> : c \in Commands}
                    /\ B = UNION {{Left(c), Right(c)} : c \in {d \in Commands : d.type = "PIPE"}}
    OBVIOUS
  <2>2. x \in A \/ x = Sh \/ x \in B
    BY <2>1 DEF Children
  <2>3. x \in A => \E c \in Commands : x = <<runcmd(c)>>
    BY <2>1
  <2>4. x \in B => \E c \in Commands : c.type = "PIPE" /\ (x = Left(c) \/ x = Right(c))
    BY <2>1
  <2> QED BY <2>2, <2>3, <2>4
<1>5. /\ \A c \in Commands : <<runcmd(c)>> \in Children
      /\ \A c \in Commands : c.type = "PIPE" => Left(c) \in Children /\ Right(c) \in Children
      /\ Sh \in Children
  BY DEF Children
<1>6. Children \subseteq Seq(ProgramStep)
  <2> SUFFICES ASSUME NEW x \in Children PROVE x \in Seq(ProgramStep)
    OBVIOUS
  <2> QED BY <1>1, <1>2, <1>3, <1>4
<1> QED BY <1>1, <1>5, <1>6

-----------------------------------------------------------------------------
(* The actions of the programs.                                            *)
LEMMA ProgramMoves ==
  ASSUME ShIndInv, NEW p \in Procs, NEW o, At(p, o), o \notin CallOps, NEW y, Becomes(p, y),
         y \in Process, y.st = "live", y.ofile = pr[p].ofile, Plain(y.todo),
         UNCHANGED <<load, file, pipe, entry, out, faults>>, input' \in Seq(Commands)
  PROVE  ShIndInv'
<1>1. TypesOK /\ pr \in [Procs -> Process]
  BY Parts
<1>2. TypesOK'
  BY <1>1 DEF TypesOK, OFile, APipe, AnEntry
<1>3. Plain(pr[p].todo)
  BY Doing
<1>4. QuietData
  BY DEF QuietData
<1>5. pr' = [pr EXCEPT ![p] = y] /\ load' = load
  BY DEF Becomes
<1> QED BY <1>2, <1>3, <1>4, <1>5, Quiet

LEMMA NoCallOps ==
  {"close", "dup", "read", "write", "open", "fork", "runcmd", "initwait", "dev", "wait", "exit",
   "orexit", "pipe", "cat", "shelldev", "shell", "started"} \cap CallOps = {}
BY DEF CallOps

LEMMA WholeTodo ==
  ASSUME NEW p \in Procs, pr[p] \in Process, NEW v \in Seq(AnyStep), NEW y,
         y = [pr[p] EXCEPT !.todo = v]
  PROVE  y \in Process /\ y.todo = v /\ y.st = pr[p].st /\ y.ofile = pr[p].ofile
BY DEF Process

LEMMA RuncmdStep ==
  ASSUME ShIndInv, NEW p \in Procs, Runcmd(p), input' = input
  PROVE  ShIndInv'
<1>1. At(p, "runcmd")
  BY DEF Runcmd
<1>2. /\ pr[p] \in Process /\ pr[p].st = "live" /\ Now(p) \in ProgramStep /\ Now(p).op = "runcmd"
      /\ Tail(pr[p].todo) \in Seq(AnyStep)
  BY <1>1, Doing, NoCallOps
<1>3. PICK c \in Commands : c = Now(p).c
  BY <1>2, ProgramSteps
<1>4. PICK T : /\ T = CASE c.type = "EXEC" -> Exec(c) [] c.type = "REDIR" -> Redir(c) [] c.type = "LIST" -> List(c)
                        [] c.type = "PIPE" -> PipeCmd(c) [] c.type = "BACK" -> Back(c)
               /\ Becomes(p, [pr[p] EXCEPT !.todo = T])
  BY <1>3 DEF Runcmd
<1>5. T \in Seq(ProgramStep)
  <2>1. /\ exit \in ProgramStep /\ orExit \in ProgramStep /\ wait \in ProgramStep /\ read(0) \in ProgramStep
        /\ [op |-> "cat"] \in ProgramStep /\ [op |-> "pipe"] \in ProgramStep
        /\ close(P0) \in ProgramStep /\ close(P1) \in ProgramStep
    BY Steps1 DEF P0, P1
  <2>2. \A d \in Commands : runcmd(d) \in ProgramStep /\ fork(<<runcmd(d)>>) \in ProgramStep
    BY Steps1, ChildrenSteps
  <2>3. CASE c.type = "EXEC"
    <3>1. T = Exec(c) /\ c.prog \in {"echo", "cat", "none"} /\ (c.prog = "echo" => c.bytes \in Seq(Nat))
      BY <1>4, <2>3, CommandsAssumption
    <3>2. c.prog = "echo" => write(1, c.bytes) \in ProgramStep
      BY <3>1, Steps1
    <3> QED BY <3>1, <3>2, <2>1 DEF Exec
  <2>4. CASE c.type = "REDIR"
    <3>1. T = Redir(c) /\ c.cmd \in Commands /\ c.file \in Names /\ c.mode \in {"r", "w", "a"} /\ c.fd \in Nat
      BY <1>4, <2>4, CommandsAssumption
    <3>2. /\ close(c.fd) \in ProgramStep /\ open(c.file, c.mode) \in ProgramStep
          /\ orExit \in ProgramStep /\ runcmd(c.cmd) \in ProgramStep
      BY <3>1, Steps1
    <3>3. Redir(c) \in Seq(ProgramStep)
      BY ONLY <3>2 DEF Redir
    <3> QED BY <3>1, <3>3
  <2>5. CASE c.type = "LIST"
    <3>1. T = List(c) /\ c.left \in Commands /\ c.right \in Commands
      BY <1>4, <2>5, CommandsAssumption
    <3>2. /\ fork(<<runcmd(c.left)>>) \in ProgramStep /\ orExit \in ProgramStep
          /\ wait \in ProgramStep /\ runcmd(c.right) \in ProgramStep
      BY <3>1, <2>1, <2>2
    <3>3. List(c) \in Seq(ProgramStep)
      BY ONLY <3>2 DEF List
    <3> QED BY <3>1, <3>3
  <2>6. CASE c.type = "PIPE"
    <3>1. T = PipeCmd(c) /\ fork(Left(c)) \in ProgramStep /\ fork(Right(c)) \in ProgramStep
      BY <1>4, <2>6, Steps1, ChildrenSteps
    <3>2. PipeEnd(c) \in Seq(ProgramStep)
      BY <2>1 DEF PipeEnd
    <3>3. <<[op |-> "pipe"], orExit, fork(Left(c)), orExit, fork(Right(c)), orExit>> \in Seq(ProgramStep)
      BY <3>1, <2>1
    <3> QED BY <3>1, <3>2, <3>3 DEF PipeCmd
  <2>7. CASE c.type = "BACK"
    <3>1. T = Back(c) /\ c.cmd \in Commands
      BY <1>4, <2>7, CommandsAssumption
    <3> QED BY <3>1, <2>1, <2>2 DEF Back
  <2> QED BY <2>3, <2>4, <2>5, <2>6, <2>7, CommandsAssumption
<1>6. PICK y : y = [pr[p] EXCEPT !.todo = T]
  OBVIOUS
<1>7. y \in Process /\ y.st = "live" /\ y.ofile = pr[p].ofile /\ Plain(y.todo)
  BY <1>2, <1>5, <1>6, AllPlain, WholeTodo
<1>8. UNCHANGED <<load, file, pipe, entry, out, faults>> /\ Becomes(p, y)
  BY <1>4, <1>6 DEF Runcmd
<1>9. input' \in Seq(Commands)
  BY Parts DEF TypesOK
<1> QED BY <1>1, <1>7, <1>8, <1>9, NoCallOps, ProgramMoves

(* p goes on with its program, after a call that left r or not. *)
LEMMA ProgramGoesOn ==
  ASSUME ShIndInv, NEW p \in Procs, NEW o, At(p, o), o \notin CallOps,
         NEW T \in Seq(ProgramStep), NEW r \in Int,
         Becomes(p, Go(p, T)) \/ Becomes(p, Ret(p, r, T)),
         UNCHANGED <<load, file, pipe, entry, out, faults>>, input' \in Seq(Commands)
  PROVE  ShIndInv'
<1>1. /\ pr[p] \in Process /\ pr[p].st = "live" /\ Tail(pr[p].todo) \in Seq(AnyStep)
      /\ Plain(Tail(pr[p].todo))
  BY Doing DEF Undo, CallOps
<1>2. PICK v : Joins(v, T, Tail(pr[p].todo)) /\ v \in Seq(AnyStep) /\ Plain(v)
  BY <1>1, ProgramMore DEF Joins
<1>3. /\ Go(p, T) \in Process /\ Go(p, T).st = "live" /\ Go(p, T).todo = v /\ Go(p, T).ofile = pr[p].ofile
      /\ Ret(p, r, T) \in Process /\ Ret(p, r, T).st = "live" /\ Ret(p, r, T).todo = v
      /\ Ret(p, r, T).ofile = pr[p].ofile
  BY <1>1, <1>2, Proceeds
<1> QED BY <1>2, <1>3, ProgramMoves

LEMMA ProgramStepsKeep ==
  ASSUME ShIndInv, NEW p \in Procs,
         \/ (OrExit(p) \/ Cat(p) \/ ShellDev(p) \/ InitWait(p)) /\ input' = input
         \/ Shell(p)
  PROVE  ShIndInv'
<1>1. /\ input \in Seq(Commands) /\ pr[p] \in Process /\ pr[p].ret \in Int /\ pr[p].buf \in Seq(Nat)
  BY Parts DEF TypesOK, Process
<1>2. <<>> \in Seq(ProgramStep) /\ <<exit>> \in Seq(ProgramStep) /\ 0 \in Int
  BY Steps1
<1>3. CASE OrExit(p) /\ input' = input
  <2>1. At(p, "orexit") /\ UNCHANGED <<load, file, pipe, entry, out, faults>>
    BY <1>3 DEF OrExit
  <2>2. CASE pr[p].ret < 0
    <3>0. PICK T : T = <<exit>>
      OBVIOUS
    <3>1. PICK y : y = [pr[p] EXCEPT !.todo = T] /\ Becomes(p, y)
      BY <1>3, <2>2, <3>0 DEF OrExit
    <3>2. y \in Process /\ y.st = "live" /\ y.ofile = pr[p].ofile /\ Plain(y.todo)
      <4>1. T \in Seq(AnyStep) /\ Plain(T)
        BY <1>2, <3>0, AllPlain
      <4> QED BY <1>1, <2>1, <3>1, <4>1, WholeTodo DEF At
    <3> QED BY <1>1, <1>3, <2>1, <3>1, <3>2, NoCallOps, ProgramMoves
  <2>3. CASE ~(pr[p].ret < 0)
    <3>1. Becomes(p, Go(p, <<>>))
      BY <1>3, <2>3 DEF OrExit
    <3> QED BY <1>1, <1>2, <1>3, <2>1, <3>1, NoCallOps, ProgramGoesOn
  <2> QED BY <2>2, <2>3
<1>4. CASE Cat(p) /\ input' = input
  <2>1. At(p, "cat") /\ UNCHANGED <<load, file, pipe, entry, out, faults>>
    BY <1>4 DEF Cat
  <2>2. PICK T : /\ T = IF pr[p].ret > 0 THEN <<write(1, pr[p].buf), orExit, read(0), [op |-> "cat"]>> ELSE <<exit>>
                 /\ Becomes(p, Go(p, T))
    BY <1>4 DEF Cat
  <2>3. T \in Seq(ProgramStep)
    <3>1. /\ write(1, pr[p].buf) \in ProgramStep /\ orExit \in ProgramStep
          /\ read(0) \in ProgramStep /\ [op |-> "cat"] \in ProgramStep
      BY <1>1, Steps1
    <3> QED BY <1>2, <2>2, <3>1
  <2> QED BY <1>1, <1>2, <1>4, <2>1, <2>2, <2>3, NoCallOps, ProgramGoesOn
<1>5. CASE ShellDev(p) /\ input' = input
  <2>1. At(p, "shelldev") /\ UNCHANGED <<load, file, pipe, entry, out, faults>>
    BY <1>5 DEF ShellDev
  <2>2. PICK T : /\ T = IF pr[p].ret < 0 THEN <<>> ELSE IF pr[p].ret >= 3 THEN <<close(pr[p].ret)>>
                        ELSE <<dev, [op |-> "shelldev"]>>
                 /\ Becomes(p, Go(p, T))
    BY <1>5 DEF ShellDev
  <2>3. T \in Seq(ProgramStep)
    <3>1. close(pr[p].ret) \in ProgramStep /\ dev \in ProgramStep /\ [op |-> "shelldev"] \in ProgramStep
      BY <1>1, Steps1
    <3> QED BY <1>2, <2>2, <3>1
  <2> QED BY <1>1, <1>2, <1>5, <2>1, <2>2, <2>3, NoCallOps, ProgramGoesOn
<1>6. CASE InitWait(p) /\ input' = input
  <2>1. PICK o : At(p, o) /\ o \in {"started", "initwait"}
    BY <1>6 DEF InitWait
  <2>2. UNCHANGED <<load, file, pipe, entry, out, faults>>
    BY <1>6 DEF InitWait
  <2>3. PICK pid : pid = IF At(p, "started") THEN pr[p].ret ELSE Now(p).pid
    OBVIOUS
  <2>4. pid \in Int
    <3>1. Now(p) \in ProgramStep /\ Now(p).op = o
      BY <2>1, NoCallOps, Doing
    <3>2. CASE o = "started"
      BY <1>1, <2>1, <2>3, <3>2
    <3>3. CASE o = "initwait" /\ ~At(p, "started")
      BY <2>3, <3>1, <3>3, ProgramSteps
    <3> QED BY <1>1, <2>1, <2>3, <3>2, <3>3
  <2>5. PICK T : /\ T = IF At(p, "initwait") /\ pr[p].ret = pid THEN StartSh
                        ELSE <<wait, [op |-> "initwait", pid |-> pid]>>
                 /\ Becomes(p, Go(p, T))
    BY <1>6, <2>3 DEF InitWait
  <2>6. T \in Seq(ProgramStep)
    <3>1. fork(Sh) \in ProgramStep /\ orExit \in ProgramStep /\ [op |-> "started"] \in ProgramStep
      BY Steps1, ChildrenSteps
    <3>2. StartSh \in Seq(ProgramStep)
      BY <3>1 DEF StartSh
    <3>3. wait \in ProgramStep /\ [op |-> "initwait", pid |-> pid] \in ProgramStep
      BY <2>4, Steps1
    <3> QED BY <2>5, <3>2, <3>3
  <2> QED BY <1>1, <1>2, <1>6, <2>1, <2>2, <2>5, <2>6, NoCallOps, ProgramGoesOn
<1>7. CASE Shell(p)
  <2>1. At(p, "shell") /\ UNCHANGED <<load, file, pipe, entry, out, faults>>
    BY <1>7 DEF Shell
  <2>2. input' \in Seq(Commands) /\ Head(input) \in Commands
    BY <1>1, <1>7 DEF Shell
  <2>3. PICK T : /\ T = <<fork(<<runcmd(Head(input))>>), orExit, wait, [op |-> "shell"]>>
                 /\ Becomes(p, Go(p, T))
    BY <1>7 DEF Shell
  <2>4. T \in Seq(ProgramStep)
    <3>1. /\ fork(<<runcmd(Head(input))>>) \in ProgramStep /\ orExit \in ProgramStep
          /\ wait \in ProgramStep /\ [op |-> "shell"] \in ProgramStep
      BY <2>2, Steps1, ChildrenSteps
    <3> QED BY <2>3, <3>1
  <2> QED BY <1>2, <2>1, <2>2, <2>3, <2>4, NoCallOps, ProgramGoesOn
<1> QED BY <1>3, <1>4, <1>5, <1>6, <1>7

LEMMA TwoMore ==
  ASSUME NEW A, Silent(A), NEW u \in Seq(A), Plain(u), NEW a \in A, NEW b \in A,
         a.op \in Undo, b.op \in {"fileclose", "eput"}, NEW v, Joins(v, <<a, b>>, u)
  PROVE  /\ v \in Seq(A) /\ v # <<>> /\ v[1] = a /\ Shape(v)
         /\ \A x : x # Nothing => InTodo(v, x) = Refs(a, x) + Refs(b, x) + InTodo(u, x)
<1>1. PICK w : w = <<b>> \o u
  OBVIOUS
<1>2. Joins(w, <<b>>, u)
  BY <1>1 DEF Joins
<1>3. w \in Seq(A) /\ w[1] = b /\ Shape(w) /\ Adds(w, b, u)
  BY <1>2, OneMore
<1>4. Joins(v, <<a>>, w)
  <2>1. v = <<a, b>> \o u
    BY DEF Joins
  <2>2. <<a>> \in Seq(A) /\ <<b>> \in Seq(A) /\ <<a, b>> = <<a>> \o <<b>>
    <3>1. <<a>> \in Seq(A) /\ <<b>> \in Seq(A)
      OBVIOUS
    <3>2. <<a, b>> = <<a>> \o <<b>>
      <4>1. PICK c, d, e : c = <<a, b>> /\ d = <<a>> /\ e = <<b>>
        OBVIOUS
      <4>2. /\ c \in Seq(A) /\ Len(c) = 2 /\ c[1] = a /\ c[2] = b
            /\ d \in Seq(A) /\ Len(d) = 1 /\ d[1] = a
            /\ e \in Seq(A) /\ Len(e) = 1 /\ e[1] = b
        BY <4>1
      <4>3. PICK f : f = d \o e
        OBVIOUS
      <4>4. f \in Seq(A) /\ Len(f) = 2 /\ f[1] = a /\ f[2] = b
        <5>1. /\ f \in Seq(A) /\ Len(f) = Len(d) + Len(e)
              /\ \A i \in 1 .. Len(d) + Len(e) : f[i] = IF i <= Len(d) THEN d[i] ELSE e[i - Len(d)]
          BY <4>2, <4>3, ConcatProperties
        <5>2. f[1] = d[1] /\ f[2] = e[1]
          BY <4>2, <5>1
        <5> QED BY <4>2, <5>1, <5>2
      <4>5. c = f
        BY <4>2, <4>4, SeqEqual
      <4> QED BY <4>1, <4>3, <4>5
    <3> QED BY <3>1, <3>2
  <2>3. v = <<a>> \o w
    BY <1>1, <2>1, <2>2, ConcatAssociative
  <2> QED BY <2>3 DEF Joins
<1>5. AtMostUndo(w)
  <2> SUFFICES ASSUME NEW k \in DOMAIN w, w[k].op \in CallOps PROVE k = 1 /\ w[1].op \in {"fileclose", "eput"}
    BY DEF AtMostUndo
  <2>1. CASE k = 1
    BY <2>1, <1>3
  <2>2. CASE k # 1
    <3>1. k - 1 \in DOMAIN u /\ w[k] = u[k - 1]
      BY <2>2, <1>1
    <3> QED BY <3>1 DEF Plain
  <2> QED BY <2>1, <2>2
<1>6. v \in Seq(A) /\ v # <<>> /\ v[1] = a /\ Shape(v) /\ Adds(v, a, w)
  BY <1>3, <1>4, <1>5, OneMore
<1>7. \A x : x # Nothing => InTodo(v, x) = Refs(a, x) + Refs(b, x) + InTodo(u, x)
  <2> SUFFICES ASSUME NEW x, x # Nothing PROVE InTodo(v, x) = Refs(a, x) + Refs(b, x) + InTodo(u, x)
    OBVIOUS
  <2>1. InTodo(v, x) = Refs(a, x) + InTodo(w, x) /\ InTodo(w, x) = Refs(b, x) + InTodo(u, x)
    BY <1>3, <1>6 DEF Adds
  <2> QED BY <2>1, TodoNumbers
<1> QED BY <1>6, <1>7

-----------------------------------------------------------------------------
(* Steps of calls: what they are, and what they refer to.                  *)
LEMMA NewSteps ==
  /\ \A f \in DOMAIN file :
       /\ fileclose(f) \in CallStep /\ fileclose(f).op = "fileclose" /\ fileclose(f).own[1] = f
       /\ [op |-> "pipe2", own |-> <<f>>] \in CallStep
  /\ \A f \in DOMAIN file, g \in DOMAIN file : [op |-> "pipe3", own |-> <<f, g>>] \in CallStep
  /\ \A e \in Names : eput(e) \in CallStep /\ eput(e).op = "eput" /\ eput(e).e = e
  /\ \A e \in Names, m \in {"r", "w", "a"} : [op |-> "opened", e |-> e, mode |-> m] \in CallStep
  /\ \A i \in DOMAIN pipe, w \in BOOLEAN : [op |-> "pipeclose", i |-> i, writable |-> w] \in CallStep
<1>1. ASSUME NEW f \in DOMAIN file
      PROVE  /\ fileclose(f) \in CallStep /\ fileclose(f).op = "fileclose" /\ fileclose(f).own[1] = f
             /\ [op |-> "pipe2", own |-> <<f>>] \in CallStep
  <2>1. <<f>> \in [1..1 -> DOMAIN file] /\ <<f>>[1] = f
    OBVIOUS
  <2> QED BY <2>1 DEF CallStep, fileclose
<1>2. ASSUME NEW f \in DOMAIN file, NEW g \in DOMAIN file
      PROVE  [op |-> "pipe3", own |-> <<f, g>>] \in CallStep
  <2>1. <<f, g>> \in [1..2 -> DOMAIN file]
    OBVIOUS
  <2> QED BY <2>1 DEF CallStep
<1>3. \A e \in Names : eput(e) \in CallStep /\ eput(e).op = "eput" /\ eput(e).e = e
  BY DEF CallStep, eput
<1>4. \A e \in Names, m \in {"r", "w", "a"} : [op |-> "opened", e |-> e, mode |-> m] \in CallStep
  BY DEF CallStep
<1>5. \A i \in DOMAIN pipe, w \in BOOLEAN : [op |-> "pipeclose", i |-> i, writable |-> w] \in CallStep
  BY DEF CallStep
<1> QED BY <1>1, <1>2, <1>3, <1>4, <1>5

LEMMA RefsTo ==
  ASSUME NEW s \in AnyStep
  PROVE  /\ \A f : Refs(s, <<"file", f>>) =
              IF s.op \in {"fileclose", "pipe2"} THEN One(s.own[1], f)
              ELSE IF s.op = "pipe3" THEN One(s.own[1], f) + One(s.own[2], f) ELSE 0
         /\ \A e : Refs(s, <<"entry", e>>) = IF s.op \in {"eput", "opened"} THEN One(s.e, e) ELSE 0
         /\ \A i, w : Refs(s, <<"end", i, w>>) =
              IF s.op = "pipeclose" /\ s.i = i /\ s.writable = w THEN 1 ELSE 0
<1>1. /\ s \in ProgramStep => s.op \notin CallOps /\ \A x : x # Nothing => Refs(s, x) = 0
      /\ s \in CallStep => s.op \in CallOps
  BY ProgramSteps, CallSteps
<1>2. ASSUME NEW f
      PROVE  Refs(s, <<"file", f>>) =
              IF s.op \in {"fileclose", "pipe2"} THEN One(s.own[1], f)
              ELSE IF s.op = "pipe3" THEN One(s.own[1], f) + One(s.own[2], f) ELSE 0
  <2>1. PICK x : x = <<"file", f>>
    OBVIOUS
  <2>2. x # Nothing
    BY <2>1 DEF Nothing
  <2>3. /\ \A a : One(<<"file", a>>, x) = One(a, f)
        /\ \A e : One(<<"entry", e>>, x) = 0
        /\ \A i, w : One(<<"end", i, w>>, x) = 0
    BY <2>1 DEF One
  <2>4. CASE s \in ProgramStep
    BY <1>1, <2>1, <2>2, <2>4 DEF CallOps
  <2>5. CASE s \in CallStep
    <3>1. /\ s.op \in {"fileclose", "pipe2"} => Refs(s, x) = One(<<"file", s.own[1]>>, x)
          /\ s.op = "pipe3" =>
               Refs(s, x) = One(<<"file", s.own[1]>>, x) + One(<<"file", s.own[2]>>, x)
          /\ s.op \in {"eput", "opened"} => Refs(s, x) = One(<<"entry", s.e>>, x)
          /\ s.op = "pipeclose" => Refs(s, x) = One(<<"end", s.i, s.writable>>, x)
      BY <2>2, <2>5, CallRefs
    <3>2. /\ s.op \in {"fileclose", "pipe2"} => Refs(s, x) = One(s.own[1], f)
          /\ s.op = "pipe3" => Refs(s, x) = One(s.own[1], f) + One(s.own[2], f)
          /\ s.op \in {"eput", "opened", "pipeclose"} => Refs(s, x) = 0
      BY <2>3, <3>1
    <3> QED BY <1>1, <2>1, <2>5, <3>2 DEF CallOps
  <2> QED BY <2>4, <2>5 DEF AnyStep
<1>3. ASSUME NEW e
      PROVE  Refs(s, <<"entry", e>>) = IF s.op \in {"eput", "opened"} THEN One(s.e, e) ELSE 0
  <2>1. PICK x : x = <<"entry", e>>
    OBVIOUS
  <2>2. x # Nothing
    BY <2>1 DEF Nothing
  <2>3. /\ \A a : One(<<"entry", a>>, x) = One(a, e)
        /\ \A f : One(<<"file", f>>, x) = 0
        /\ \A i, w : One(<<"end", i, w>>, x) = 0
    BY <2>1 DEF One
  <2>4. CASE s \in ProgramStep
    BY <1>1, <2>1, <2>2, <2>4 DEF CallOps
  <2>5. CASE s \in CallStep
    <3>1. /\ s.op \in {"fileclose", "pipe2"} => Refs(s, x) = One(<<"file", s.own[1]>>, x)
          /\ s.op = "pipe3" =>
               Refs(s, x) = One(<<"file", s.own[1]>>, x) + One(<<"file", s.own[2]>>, x)
          /\ s.op \in {"eput", "opened"} => Refs(s, x) = One(<<"entry", s.e>>, x)
          /\ s.op = "pipeclose" => Refs(s, x) = One(<<"end", s.i, s.writable>>, x)
      BY <2>2, <2>5, CallRefs
    <3>2. /\ s.op \in {"fileclose", "pipe2", "pipe3", "pipeclose"} => Refs(s, x) = 0
          /\ s.op \in {"eput", "opened"} => Refs(s, x) = One(s.e, e)
      BY <2>3, <3>1
    <3> QED BY <1>1, <2>1, <2>5, <3>2 DEF CallOps
  <2> QED BY <2>4, <2>5 DEF AnyStep
<1>4. ASSUME NEW i, NEW w
      PROVE  Refs(s, <<"end", i, w>>) = IF s.op = "pipeclose" /\ s.i = i /\ s.writable = w THEN 1 ELSE 0
  <2>1. PICK x : x = <<"end", i, w>>
    OBVIOUS
  <2>2. x # Nothing
    BY <2>1 DEF Nothing
  <2>3. /\ \A a : One(<<"entry", a>>, x) = 0
        /\ \A f : One(<<"file", f>>, x) = 0
        /\ \A a, b : One(<<"end", a, b>>, x) = IF a = i /\ b = w THEN 1 ELSE 0
    BY <2>1 DEF One
  <2>4. CASE s \in ProgramStep
    BY <1>1, <2>1, <2>2, <2>4 DEF CallOps
  <2>5. CASE s \in CallStep
    <3>1. /\ s.op \in {"fileclose", "pipe2"} => Refs(s, x) = One(<<"file", s.own[1]>>, x)
          /\ s.op = "pipe3" =>
               Refs(s, x) = One(<<"file", s.own[1]>>, x) + One(<<"file", s.own[2]>>, x)
          /\ s.op \in {"eput", "opened"} => Refs(s, x) = One(<<"entry", s.e>>, x)
          /\ s.op = "pipeclose" => Refs(s, x) = One(<<"end", s.i, s.writable>>, x)
      BY <2>2, <2>5, CallRefs
    <3>2. /\ s.op \in {"fileclose", "pipe2", "pipe3", "eput", "opened"} => Refs(s, x) = 0
          /\ s.op = "pipeclose" => Refs(s, x) = IF s.i = i /\ s.writable = w THEN 1 ELSE 0
      BY <2>3, <3>1
    <3> QED BY <1>1, <2>1, <2>5, <3>2 DEF CallOps
  <2> QED BY <2>4, <2>5 DEF AnyStep
<1> QED BY <1>2, <1>3, <1>4

-----------------------------------------------------------------------------
(* Accounts that do not change.                                            *)
LEMMA SameFiles ==
  ASSUME TypesOK, file' = file, NEW p \in Procs, NEW x
  PROVE  Change(x, p) = InTodo(pr'[p].todo, x) - InTodo(pr[p].todo, x)
<1>1. IsFiniteSet(OpenIn(file, x))
  BY Domains, FS_Subset DEF OpenIn
<1>2. Cardinality(OpenIn(file, x)) \in Nat /\ OpenIn(file', x) = OpenIn(file, x)
  BY <1>1, FS_CardinalityType
<1> QED BY <1>2, TodoNumbers DEF Change

LEMMA OneFile ==
  ASSUME TypesOK, DOMAIN file' = DOMAIN file, NEW f \in DOMAIN file,
         \A g \in DOMAIN file : g # f => file'[g] = file[g], NEW p \in Procs, NEW x
  PROVE  Change(x, p) = Opens(file'[f], x) - Opens(file[f], x)
                        + InTodo(pr'[p].todo, x) - InTodo(pr[p].todo, x)
<1>1. IsFiniteSet(DOMAIN file)
  BY Domains
<1>2. /\ Cardinality(OpenIn(file, x)) \in Nat /\ Cardinality(OpenIn(file', x)) \in Nat
      /\ Cardinality(OpenIn(file', x)) =
           Cardinality(OpenIn(file, x)) - Opens(file[f], x) + Opens(file'[f], x)
  BY <1>1, FileChanges
<1>3. Opens(file[f], x) \in Nat /\ Opens(file'[f], x) \in Nat
  BY DEF Opens
<1> QED BY <1>2, <1>3, TodoNumbers DEF Change

LEMMA KeepsEntries ==
  ASSUME TypesOK, NEW p \in Procs, \A e \in Names : entry'[e].ref = entry[e].ref,
         \A e \in Names : Change(<<"entry", e>>, p) = 0
  PROVE  EntriesBalance(p)
<1>1. \A e \in Names : entry[e].ref \in Nat
  BY DEF TypesOK, AnEntry
<1>2. ASSUME NEW e \in Names PROVE entry'[e].ref = entry[e].ref + Change(<<"entry", e>>, p)
  <2>1. entry'[e].ref = entry[e].ref /\ Change(<<"entry", e>>, p) = 0
    OBVIOUS
  <2> QED BY <1>1, <2>1
<1> QED BY ONLY <1>2, Zenon DEF EntriesBalance

LEMMA KeepsPipes ==
  ASSUME PipeEndsOpen, NEW p \in Procs, pipe' = pipe,
         \A i \in DOMAIN pipe, w \in BOOLEAN : Change(<<"end", i, w>>, p) = 0
  PROVE  PipesBalance(p)
<1>1. \A b : Flag(b) + 0 = Flag(b)
  BY DEF Flag
<1>2. \A i \in DOMAIN pipe : pipe[i].alloc = (pipe[i].readopen \/ pipe[i].writeopen)
  BY DEF PipeEndsOpen
<1> QED BY <1>1, <1>2 DEF PipesBalance

LEMMA HeldNumbers ==
  ASSUME TypesOK
  PROVE  \A o, f : Held(o, Fds, f) \in Nat
BY Domains, FS_Subset, FS_CardinalityType DEF Held

-----------------------------------------------------------------------------
(* close(), and exit() with a descriptor: a descriptor becomes a step.     *)
Drops(o, n, fd) == n = [o EXCEPT ![fd] = None]

LEMMA GivesUp ==
  ASSUME ShIndInv, NEW p \in Procs, Plain(pr[p].todo), NEW u \in Seq(AnyStep), Plain(u),
         NEW fd \in Fds, NEW f, f = pr[p].ofile[fd], f # None,
         NEW y \in Process, y.st = "live", Drops(pr[p].ofile, y.ofile, fd),
         Joins(y.todo, <<fileclose(f)>>, u), Becomes(p, y), input' = input,
         UNCHANGED <<load, file, pipe, entry, out, faults>>
  PROVE  ShIndInv'
<1>1. /\ TypesOK /\ pr \in [Procs -> Process] /\ RefsExact /\ PipeEndsOpen
      /\ ProcessOK(pr[p], file, entry) /\ FilesOK(file, pipe, entry)
  BY Parts
<1>2. TypesOK'
  BY <1>1 DEF TypesOK, OFile, APipe, AnEntry
<1>3. /\ pr[p].todo \in Seq(AnyStep) /\ pr[p].ofile \in [Fds -> {None} \cup DOMAIN file]
      /\ y.ofile \in [Fds -> {None} \cup DOMAIN file] /\ f \in DOMAIN file /\ None \notin DOMAIN file
  <2>1. pr[p] \in Process /\ y \in Process /\ None \notin DOMAIN file
    BY ONLY <1>1, Domains, p \in Procs, y \in Process
  <2>2. /\ pr[p].todo \in Seq(AnyStep) /\ pr[p].ofile \in [Fds -> {None} \cup DOMAIN file]
        /\ y.ofile \in [Fds -> {None} \cup DOMAIN file]
    BY ONLY <2>1 DEF Process
  <2>3. f \in DOMAIN file
    BY ONLY <2>2, fd \in Fds, f = pr[p].ofile[fd], f # None
  <2> QED BY ONLY <2>1, <2>2, <2>3
<1>4. /\ pr' = [pr EXCEPT ![p] = y] /\ pr'[p] = y /\ load' = load
  BY <1>1 DEF Becomes
<1>5. PICK s : s = fileclose(f) /\ s \in AnyStep /\ s.op = "fileclose" /\ s.own[1] = f
  BY <1>3, NewSteps DEF AnyStep
<1>6. y.todo # <<>> /\ y.todo[1] = s /\ Shape(y.todo) /\ Adds(y.todo, s, u)
  BY <1>5, SilentSteps, OneMore
<1>7. \A x : x # Nothing => InTodo(pr[p].todo, x) = 0 /\ InTodo(y.todo, x) = Refs(s, x)
  <2> SUFFICES ASSUME NEW x, x # Nothing
               PROVE  InTodo(pr[p].todo, x) = 0 /\ InTodo(y.todo, x) = Refs(s, x)
    OBVIOUS
  <2>1. InTodo(pr[p].todo, x) = 0 /\ InTodo(u, x) = 0
    BY <1>3, SilentSteps, NothingPending
  <2>2. InTodo(y.todo, x) = Refs(s, x) + InTodo(u, x)
    BY <1>6 DEF Adds
  <2> QED BY <2>1, <2>2, TodoNumbers
<1>8. /\ \A g : InTodo(pr[p].todo, <<"file", g>>) = 0 /\ InTodo(y.todo, <<"file", g>>) = One(f, g)
      /\ \A e : InTodo(pr[p].todo, <<"entry", e>>) = 0 /\ InTodo(y.todo, <<"entry", e>>) = 0
      /\ \A i, w : InTodo(pr[p].todo, <<"end", i, w>>) = 0 /\ InTodo(y.todo, <<"end", i, w>>) = 0
  <2>1. /\ \A g : Refs(s, <<"file", g>>) = One(f, g)
        /\ \A e : Refs(s, <<"entry", e>>) = 0
        /\ \A i, w : Refs(s, <<"end", i, w>>) = 0
    BY <1>5, RefsTo
  <2> QED BY <1>7, <2>1 DEF Nothing
<1>9. FilesBalance(p)
  <2> SUFFICES ASSUME NEW g \in DOMAIN file
               PROVE  file'[g].ref = file[g].ref - Held(pr[p].ofile, Fds, g) - InTodo(pr[p].todo, <<"file", g>>)
                 + Held(pr'[p].ofile, Fds, g) + InTodo(pr'[p].todo, <<"file", g>>)
    BY Zenon DEF FilesBalance
  <2>1. /\ Held(pr[p].ofile, Fds, g) \in Nat
        /\ Held(y.ofile, Fds, g) = Held(pr[p].ofile, Fds, g) - One(f, g) + One(None, g)
    <3>1. y.ofile[fd] = None /\ OneFd(pr[p].ofile, y.ofile, Fds, fd)
      BY <1>3 DEF OneFd, Drops
    <3>2. IsFiniteSet(Fds)
      BY <1>1, Domains
    <3> QED BY <3>1, <3>2, DescriptorChanges
  <2>2. One(None, g) = 0 /\ One(f, g) \in Nat
    BY <1>3 DEF One
  <2>3. file'[g].ref = file[g].ref /\ file[g].ref \in Nat
    BY <1>1 DEF TypesOK, OFile
  <2> QED BY <1>4, <1>8, <2>1, <2>2, <2>3
<1>10. EntriesBalance(p) /\ PipesBalance(p)
  <2>1. \A x : Change(x, p) = InTodo(pr'[p].todo, x) - InTodo(pr[p].todo, x)
    BY <1>1, SameFiles
  <2>2. /\ \A e \in Names : Change(<<"entry", e>>, p) = 0
        /\ \A i \in DOMAIN pipe, w \in BOOLEAN : Change(<<"end", i, w>>, p) = 0
    BY <1>4, <1>8, <2>1
  <2> QED BY <1>1, <2>2, KeepsEntries, KeepsPipes
<1>11. ProcessOK(y, file', entry')
  <2>1. HeadOK(y.todo[1], file', entry')
    BY <1>5, <1>6 DEF HeadOK
  <2>2. \A d \in Fds : y.ofile[d] # None => file'[y.ofile[d]].type # "none"
    BY <1>1, <1>3 DEF ProcessOK, Drops
  <2> QED BY <1>3, <1>6, <2>1, <2>2 DEF ProcessOK
<1>12. FilesOK(file', pipe', entry') /\ Harmless(p)
  BY <1>1 DEF Harmless
<1> QED BY <1>2, <1>4, <1>9, <1>10, <1>11, <1>12, Move

LEMMA Argument ==
  ASSUME ShIndInv, NEW p \in Procs, NEW n, NEW f, f = ArgFd(p, n), f # None
  PROVE  /\ Fd(p, n) \in Fds /\ f = pr[p].ofile[Fd(p, n)] /\ f \in DOMAIN file
         /\ file[f].type # "none"
<1>1. Fd(p, n) \in Fds /\ f = pr[p].ofile[Fd(p, n)]
  BY DEF ArgFd
<1>2. pr[p] \in Process /\ ProcessOK(pr[p], file, entry)
  BY Parts
<1> QED BY <1>1, <1>2 DEF Process, ProcessOK

LEMMA CloseStep ==
  ASSUME ShIndInv, NEW p \in Procs, Close(p), input' = input
  PROVE  ShIndInv'
<1>1. At(p, "close") /\ UNCHANGED <<load, file, pipe, entry, out, faults>>
  BY DEF Close
<1>2. PICK n, f : n = Now(p).fd /\ f = ArgFd(p, n)
  OBVIOUS
<1>3. CASE f = None
  <2>1. Becomes(p, Ret(p, -1, <<>>))
    BY <1>2, <1>3 DEF Close
  <2>2. <<>> \in Seq(ProgramStep) /\ -1 \in Int /\ input' \in Seq(Commands)
    BY Parts DEF TypesOK
  <2> QED BY <1>1, <2>1, <2>2, NoCallOps, ProgramGoesOn
<1>4. CASE f # None
  <2>1. PICK fd : fd = Fd(p, n) /\ fd \in Fds /\ f = pr[p].ofile[fd] /\ f \in DOMAIN file
    BY <1>2, <1>4, Argument
  <2>2. PICK u : /\ u = Tail(pr[p].todo) /\ u \in Seq(AnyStep) /\ Plain(u) /\ Plain(pr[p].todo)
                 /\ pr[p] \in Process /\ pr[p].st = "live"
    <3>1. "close" \notin CallOps /\ "close" \notin Undo
      BY DEF CallOps, Undo
    <3> QED BY <1>1, <3>1, Doing
  <2>3. PICK r : r = Ret(p, 0, <<fileclose(f)>>)
    OBVIOUS
  <2>4. PICK v : Joins(v, <<fileclose(f)>>, u) /\ v \in Seq(AnyStep)
    <3>1. fileclose(f) \in AnyStep /\ fileclose(f).op \in Undo
      BY <2>1, NewSteps DEF AnyStep, Undo
    <3>2. PICK v : v = <<fileclose(f)>> \o u
      OBVIOUS
    <3>3. Joins(v, <<fileclose(f)>>, u)
      BY <3>2 DEF Joins
    <3> QED BY <2>2, <3>1, <3>3, SilentSteps, OneMore
  <2>5. r \in Process /\ r.st = "live" /\ r.todo = v /\ r.ofile = pr[p].ofile
    BY <2>2, <2>3, <2>4, Proceeds
  <2>6. PICK y : y = [r EXCEPT !.ofile[fd] = None] /\ Becomes(p, y)
    BY <1>2, <1>4, <2>1, <2>3 DEF Close
  <2>7. y \in Process /\ y.st = "live" /\ y.todo = v /\ Drops(pr[p].ofile, y.ofile, fd)
    BY <2>1, <2>5, <2>6 DEF Process, Drops
  <2> QED BY <1>1, <1>4, <2>1, <2>2, <2>4, <2>6, <2>7, GivesUp
<1> QED BY <1>3, <1>4

(* exit() and wait(): descriptors and pending steps stay. *)
LEMMA SilentMove ==
  ASSUME ShIndInv, NEW p \in Procs, pr' \in [Procs -> Process], Same(pr, pr', p),
         pr'[p].ofile = pr[p].ofile, Plain(pr[p].todo), Plain(pr'[p].todo),
         \A q \in Procs : ProcessOK(pr'[q], file, entry), input' = input,
         UNCHANGED <<load, file, pipe, entry, out, faults>>
  PROVE  ShIndInv'
<1>1. /\ TypesOK /\ pr \in [Procs -> Process] /\ RefsExact /\ PipeEndsOpen
      /\ FilesOK(file, pipe, entry)
  BY Parts
<1>2. TypesOK'
  BY <1>1 DEF TypesOK, OFile, APipe, AnEntry
<1>3. pr[p].todo \in Seq(AnyStep) /\ pr'[p].todo \in Seq(AnyStep)
  BY <1>1 DEF Process
<1>4. \A x : x # Nothing => InTodo(pr'[p].todo, x) = 0 /\ InTodo(pr[p].todo, x) = 0
  BY <1>3, SilentSteps, NothingPending
<1>5. FilesBalance(p)
  <2> SUFFICES ASSUME NEW g \in DOMAIN file
               PROVE  file'[g].ref = file[g].ref - Held(pr[p].ofile, Fds, g) - InTodo(pr[p].todo, <<"file", g>>)
                 + Held(pr'[p].ofile, Fds, g) + InTodo(pr'[p].todo, <<"file", g>>)
    BY Zenon DEF FilesBalance
  <2>1. InTodo(pr[p].todo, <<"file", g>>) = 0 /\ InTodo(pr'[p].todo, <<"file", g>>) = 0
    BY <1>4 DEF Nothing
  <2>2. file'[g].ref = file[g].ref /\ file[g].ref \in Nat /\ Held(pr[p].ofile, Fds, g) \in Nat
    BY <1>1, HeldNumbers DEF TypesOK, OFile
  <2> QED BY <2>1, <2>2
<1>6. EntriesBalance(p) /\ PipesBalance(p)
  <2>1. \A x : Change(x, p) = InTodo(pr'[p].todo, x) - InTodo(pr[p].todo, x)
    BY <1>1, SameFiles
  <2>2. /\ \A e \in Names : Change(<<"entry", e>>, p) = 0
        /\ \A i \in DOMAIN pipe, w \in BOOLEAN : Change(<<"end", i, w>>, p) = 0
    BY <1>4, <2>1 DEF Nothing
  <2> QED BY <1>1, <2>2, KeepsEntries, KeepsPipes
<1>7. /\ DOMAIN file' = DOMAIN file /\ DOMAIN pipe' = DOMAIN pipe /\ DOMAIN entry' = DOMAIN entry
      /\ Fds' = Fds /\ Process' = Process
  BY <1>1, <1>2, SameTypes
<1>8. RefsExact' /\ PipeEndsOpen'
  BY <1>1, <1>5, <1>6, <1>7, AccountsKept
<1>9. FilesOK(file', pipe', entry') /\ \A q \in Procs : ProcessOK(pr'[q], file', entry')
  BY <1>1
<1> QED BY <1>2, <1>7, <1>8, <1>9, PartsNext

LEMMA ExitStep ==
  ASSUME ShIndInv, NEW p \in Procs, Exit(p), input' = input
  PROVE  ShIndInv'
<1>1. At(p, "exit") /\ p # INIT /\ UNCHANGED <<load, file, pipe, entry, out, faults>>
  BY ZenonT(60) DEF Exit
<1>2. PICK t : /\ t = pr[p].todo /\ t \in Seq(AnyStep) /\ Plain(t)
               /\ pr[p] \in Process /\ pr[p].st = "live"
  BY <1>1, Doing, NoCallOps DEF Process
<1>3. PICK taken : taken = {fd \in Fds : pr[p].ofile[fd] # None}
  OBVIOUS
<1>4. ASSUME NEW fd \in Lowest(taken),
             Becomes(p, [pr[p] EXCEPT !.ofile[fd] = None, !.todo = <<fileclose(pr[p].ofile[fd])>> \o @])
      PROVE  ShIndInv'
  <2>2. PICK f : fd \in Fds /\ f = pr[p].ofile[fd] /\ f # None /\ f \in DOMAIN file
    BY <1>2, <1>3, <1>4 DEF Lowest, Process
  <2>3. PICK v : Joins(v, <<fileclose(f)>>, t) /\ v \in Seq(AnyStep)
    <3>1. fileclose(f) \in AnyStep /\ fileclose(f).op \in Undo
      BY <2>2, NewSteps DEF AnyStep, Undo
    <3>2. PICK v : v = <<fileclose(f)>> \o t
      OBVIOUS
    <3>3. Joins(v, <<fileclose(f)>>, t)
      BY <3>2 DEF Joins
    <3> QED BY <1>2, <3>1, <3>3, SilentSteps, OneMore
  <2>4. PICK y : y = [pr[p] EXCEPT !.ofile[fd] = None, !.todo = v] /\ Becomes(p, y)
    BY <1>2, <1>4, <2>2, <2>3 DEF Joins
  <2>5. y \in Process /\ y.st = "live" /\ y.todo = v /\ Drops(pr[p].ofile, y.ofile, fd)
    BY <1>2, <2>2, <2>3, <2>4 DEF Process, Drops
  <2> QED BY <1>1, <1>2, <2>2, <2>3, <2>4, <2>5, GivesUp
<1>5. ASSUME taken = {},
             pr' = [q \in Procs |-> IF q = p THEN [pr[p] EXCEPT !.st = "zombie", !.todo = <<>>]
                                    ELSE IF pr[q].parent = p THEN [pr[q] EXCEPT !.parent = INIT] ELSE pr[q]]
      PROVE  ShIndInv'
  <2>2. pr \in [Procs -> Process] /\ \A q \in Procs : ProcessOK(pr[q], file, entry)
    BY Parts
  <2>3. PICK n : n = <<>> /\ n \in Seq(AnyStep)
    <3>1. <<>> \in Seq(AnyStep)
      OBVIOUS
    <3> QED BY ONLY <3>1, Zenon
  <2>4. PICK z : z = [pr[p] EXCEPT !.st = "zombie", !.todo = n]
    OBVIOUS
  <2>5. /\ z \in Process /\ z.st = "zombie" /\ z.todo = <<>> /\ z.ofile = pr[p].ofile /\ pr'[p] = z
    <3>1. z \in Process /\ z.st = "zombie" /\ z.todo = n /\ z.ofile = pr[p].ofile
      BY <1>2, <2>3, <2>4 DEF Process
    <3>2. pr'[p] = z
      BY <2>3, <1>5, <2>4
    <3> QED BY <2>3, <3>1, <3>2
  <2>6. ASSUME NEW q \in Procs, q # p
        PROVE  /\ pr'[q] \in Process /\ pr'[q].st = pr[q].st
               /\ pr'[q].todo = pr[q].todo /\ pr'[q].ofile = pr[q].ofile
    <3>1. pr'[q] = IF pr[q].parent = p THEN [pr[q] EXCEPT !.parent = INIT] ELSE pr[q]
      BY <1>5, <2>6
    <3>2. pr[q] \in Process /\ INIT \in Procs
      BY <2>2, LoadsAssumption
    <3> QED BY <3>1, <3>2 DEF Process
  <2>7. pr' \in [Procs -> Process]
    <3>1. DOMAIN pr' = Procs /\ pr' = [q \in Procs |-> pr'[q]]
      BY <1>5
    <3> QED BY <3>1, <2>5, <2>6
  <2>8. ASSUME NEW q \in Procs PROVE ProcessOK(pr'[q], file, entry)
    <3>1. CASE q = p
      <4>1. \A fd \in DOMAIN z.ofile : z.ofile[fd] = None
        BY <1>2, <1>3, <1>5, <2>5 DEF Process
      <4> QED BY <3>1, <2>5, <4>1 DEF ProcessOK, Shape
    <3>2. CASE q # p
      BY <1>1, <2>2, <2>6, <3>2 DEF ProcessOK
    <3> QED BY <3>1, <3>2
  <2>9. Same(pr, pr', p)
    BY <2>6 DEF Same
  <2>10. Plain(pr'[p].todo) /\ Plain(pr[p].todo) /\ pr'[p].ofile = pr[p].ofile
    BY <1>2, <2>5 DEF Plain
  <2> QED BY <1>1, <2>7, <2>8, <2>9, <2>10, SilentMove
<1>6. \/ \E fd \in Lowest(taken) : Becomes(p, [pr[p] EXCEPT !.ofile[fd] = None,
                                                      !.todo = <<fileclose(pr[p].ofile[fd])>> \o @])
      \/ /\ taken = {}
         /\ pr' = [q \in Procs |-> IF q = p THEN [pr[p] EXCEPT !.st = "zombie", !.todo = <<>>]
                                   ELSE IF pr[q].parent = p THEN [pr[q] EXCEPT !.parent = INIT] ELSE pr[q]]
  BY <1>3, ZenonT(60) DEF Exit
<1> QED BY <1>4, <1>5, <1>6, Zenon

LEMMA WaitStep ==
  ASSUME ShIndInv, NEW p \in Procs, Wait(p), input' = input
  PROVE  ShIndInv'
<1>1. At(p, "wait") /\ UNCHANGED <<load, file, pipe, entry, out, faults>>
  BY DEF Wait
<1>2. PICK kids : kids = {q \in Procs : pr[q].st # "unused" /\ pr[q].parent = p}
  OBVIOUS
<1>3. \/ kids = {} /\ Becomes(p, Ret(p, -1, <<>>))
      \/ \E q \in Lowest({q \in kids : pr[q].st = "zombie"}) :
           pr' = [pr EXCEPT ![p] = Ret(p, q, <<>>), ![q] = Unused]
  BY <1>2 DEF Wait
<1>4. CASE Becomes(p, Ret(p, -1, <<>>))
  <2>1. <<>> \in Seq(ProgramStep) /\ -1 \in Int /\ input' \in Seq(Commands)
    BY Parts DEF TypesOK
  <2> QED BY <1>1, <1>4, <2>1, NoCallOps, ProgramGoesOn
<1>5. ASSUME NEW q \in Lowest({q \in kids : pr[q].st = "zombie"}),
             pr' = [pr EXCEPT ![p] = Ret(p, q, <<>>), ![q] = Unused]
      PROVE  ShIndInv'
  <2>1. q \in Procs /\ pr[q].st = "zombie"
    BY <1>2 DEF Lowest
  <2>2. pr \in [Procs -> Process] /\ \A r \in Procs : ProcessOK(pr[r], file, entry)
    BY Parts
  <2>3. PICK u : u = Tail(pr[p].todo)
    OBVIOUS
  <2>4. /\ u \in Seq(AnyStep) /\ Plain(u) /\ Plain(pr[p].todo) /\ pr[p].st = "live"
    <3>1. "wait" \notin CallOps /\ "wait" \notin Undo
      BY DEF CallOps, Undo
    <3> QED BY <1>1, <2>3, <3>1, Doing
  <2>5. q # p /\ q \in Int
    BY <2>1, <2>4, LoadsAssumption
  <2>6. PICK y : y = Ret(p, q, <<>>)
    OBVIOUS
  <2>7. y \in Process /\ y.st = "live" /\ y.todo = u /\ y.ofile = pr[p].ofile
    <3>1. Joins(u, <<>>, u)
      BY <2>4 DEF Joins
    <3> QED BY <2>2, <2>3, <2>4, <2>5, <2>6, <3>1, Proceeds
  <2>8. /\ pr'[p] = y /\ pr'[q] = Unused
        /\ \A r \in Procs : r # p /\ r # q => pr'[r] = pr[r]
        /\ DOMAIN pr' = Procs
    BY <1>5, <2>1, <2>2, <2>5, <2>6
  <2>9. /\ Unused \in Process /\ Unused.todo = <<>> /\ Unused.st = "unused"
        /\ DOMAIN Unused.ofile = Fds /\ \A fd \in Fds : Unused.ofile[fd] = None
    <3>1. /\ [fd \in Fds |-> None] \in [Fds -> {None} \cup DOMAIN file] /\ <<>> \in Seq(AnyStep)
          /\ <<0, 0>> \in Nat \X Nat /\ <<>> \in Seq(Nat)
      OBVIOUS
    <3>2. Unused \in Process
      BY <3>1 DEF Unused, Process
    <3> QED BY <3>2 DEF Unused
  <2>10. /\ pr[q].todo = <<>> /\ pr[q].ofile = Unused.ofile
    <3>1. pr[q] \in Process /\ pr[q].todo = <<>> /\ \A fd \in Fds : pr[q].ofile[fd] = None
      BY <2>1, <2>2 DEF ProcessOK, Process
    <3>2. pr[q].ofile = [fd \in Fds |-> None]
      BY <3>1 DEF Process
    <3> QED BY <3>1, <3>2 DEF Unused
  <2>11. Same(pr, pr', p)
    BY <2>8, <2>9, <2>10 DEF Same
  <2>12. pr' \in [Procs -> Process]
    <3>1. pr' = [r \in Procs |-> pr'[r]]
      BY <1>5, <2>2
    <3> QED BY <2>2, <2>7, <2>8, <2>9, <3>1
  <2>13. ASSUME NEW r \in Procs PROVE ProcessOK(pr'[r], file, entry)
    <3>1. CASE r = p
      <4>1. Shape(u)
        BY <2>4 DEF Plain, Shape
      <4>2. u # <<>> => HeadOK(u[1], file, entry)
        <5>1. u # <<>> => 1 \in DOMAIN u
          BY <2>4, HeadOfTodo
        <5> QED BY <2>4, <5>1 DEF HeadOK, Plain, CallOps
      <4> QED BY <2>2, <2>7, <2>8, <3>1, <4>1, <4>2 DEF ProcessOK
    <3>2. CASE r = q
      BY <2>8, <2>9, <3>2 DEF ProcessOK, Shape
    <3>3. CASE r # p /\ r # q
      BY <2>2, <2>8, <3>3
    <3> QED BY <3>1, <3>2, <3>3
  <2> QED BY <1>1, <2>4, <2>7, <2>8, <2>11, <2>12, <2>13, SilentMove
<1> QED BY <1>3, <1>4, <1>5

-----------------------------------------------------------------------------
(* The steps that give something back.                                     *)
LEMMA AfterUndo ==
  ASSUME NEW u \in Seq(AnyStep), AtMostUndo(u), NEW fs, NEW es
  PROVE  Shape(u) /\ (u # <<>> => HeadOK(u[1], fs, es))
<1>1. Shape(u)
  BY DEF Shape, AtMostUndo
<1>2. u # <<>> => 1 \in DOMAIN u
  BY HeadOfTodo
<1> QED BY <1>1, <1>2 DEF HeadOK, AtMostUndo, CallOps

\* what a step refers to is in use
LEMMA InUse ==
  ASSUME TypesOK, NEW p \in Procs, NEW x
  PROVE  Users(x) \in Nat /\ InTodo(pr[p].todo, x) <= Users(x)
<1>1. IsFiniteSet(OpenIn(file, x))
  BY Domains, FS_Subset DEF OpenIn
<1>2. Cardinality(OpenIn(file, x)) \in Nat
  BY <1>1, FS_CardinalityType
<1>3. Same(pr, pr, p)
  BY DEF Same
<1>4. /\ Cardinality(PendingIn(pr, x)) \in Nat
      /\ InTodo(pr[p].todo, x) <= Cardinality(PendingIn(pr, x))
  BY <1>3, PendingChanges
<1>5. Users(x) = Cardinality(OpenIn(file, x)) + Cardinality(PendingIn(pr, x))
  BY InState DEF Users
<1> QED BY <1>2, <1>4, <1>5, TodoNumbers

LEMMA KeepsFiles ==
  ASSUME TypesOK, NEW p \in Procs, \A g \in DOMAIN file : file'[g].ref = file[g].ref,
         pr'[p].ofile = pr[p].ofile,
         \A g \in DOMAIN file : InTodo(pr'[p].todo, <<"file", g>>) = InTodo(pr[p].todo, <<"file", g>>)
  PROVE  FilesBalance(p)
<1> SUFFICES ASSUME NEW g \in DOMAIN file
             PROVE  file'[g].ref = file[g].ref - Held(pr[p].ofile, Fds, g) - InTodo(pr[p].todo, <<"file", g>>)
               + Held(pr'[p].ofile, Fds, g) + InTodo(pr'[p].todo, <<"file", g>>)
  BY Zenon DEF FilesBalance
<1>1. InTodo(pr'[p].todo, <<"file", g>>) = InTodo(pr[p].todo, <<"file", g>>)
  OBVIOUS
<1>2. InTodo(pr[p].todo, <<"file", g>>) \in Nat
  BY TodoNumbers
<1>3. file'[g].ref = file[g].ref /\ file[g].ref \in Nat /\ Held(pr[p].ofile, Fds, g) \in Nat
  BY HeldNumbers DEF TypesOK, OFile
<1>4. pr'[p].ofile = pr[p].ofile
  OBVIOUS
<1> QED BY ONLY <1>1, <1>2, <1>3, <1>4

LEMMA EputStep ==
  ASSUME ShIndInv, NEW p \in Procs, Eput(p), input' = input
  PROVE  ShIndInv'
<1>1. At(p, "eput") /\ UNCHANGED <<load, file, pipe, out, faults>>
  BY DEF Eput
<1>2. PICK s : s = Now(p)
  OBVIOUS
<1>3. PICK u : u = Tail(pr[p].todo)
  OBVIOUS
<1>4. /\ pr[p] \in Process /\ pr[p].st = "live" /\ s.op = "eput" /\ s \in CallStep /\ s \in AnyStep
      /\ u \in Seq(AnyStep) /\ AtMostUndo(u) /\ Adds(pr[p].todo, s, u)
  <2>1. "eput" \in CallOps
    BY DEF CallOps
  <2> QED BY <1>1, <1>2, <1>3, <2>1, Doing
<1>5. PICK e \in Names : e = s.e
  BY <1>4, CallSteps
<1>6. /\ TypesOK /\ pr \in [Procs -> Process] /\ RefsExact /\ PipeEndsOpen
      /\ ProcessOK(pr[p], file, entry) /\ FilesOK(file, pipe, entry)
  BY Parts
<1>7. PICK y : y = Go(p, <<>>) /\ Becomes(p, y) /\ entry' = [entry EXCEPT ![e].ref = @ - 1]
  BY <1>2, <1>5 DEF Eput
<1>8. y \in Process /\ y.st = "live" /\ y.todo = u /\ y.ofile = pr[p].ofile
  <2>1. PICK n : n = <<>>
    OBVIOUS
  <2>2. Joins(u, n, Tail(pr[p].todo)) /\ 0 \in Int /\ p \in Procs
    BY <1>3, <1>4, <2>1 DEF Joins
  <2>3. y = Go(p, n)
    BY ONLY <1>7, <2>1, Zenon
  <2>4. pr[p] \in Process /\ pr[p].st = "live" /\ u \in Seq(AnyStep)
    BY ONLY <1>4
  <2> QED BY ONLY <2>2, <2>3, <2>4, Proceeds
<1>9. pr' = [pr EXCEPT ![p] = y] /\ pr'[p] = y /\ load' = load
  BY <1>1, <1>6, <1>7 DEF Becomes
<1>10. /\ \A g : InTodo(pr[p].todo, <<"file", g>>) = InTodo(u, <<"file", g>>)
       /\ \A d : InTodo(pr[p].todo, <<"entry", d>>) = One(e, d) + InTodo(u, <<"entry", d>>)
       /\ \A i, w : InTodo(pr[p].todo, <<"end", i, w>>) = InTodo(u, <<"end", i, w>>)
  <2>1. /\ \A g : Refs(s, <<"file", g>>) = 0
        /\ \A d : Refs(s, <<"entry", d>>) = One(e, d)
        /\ \A i, w : Refs(s, <<"end", i, w>>) = 0
    BY <1>4, <1>5, RefsTo
  <2>2. \A x : x # Nothing => InTodo(pr[p].todo, x) = Refs(s, x) + InTodo(u, x)
    BY <1>4 DEF Adds
  <2> QED BY <2>1, <2>2, TodoNumbers DEF Nothing
<1>11. entry[e].ref \in Nat \ {0}
  <2>1. entry[e].ref = Users(<<"entry", e>>)
    BY <1>6, Domains DEF RefsExact
  <2>2. Users(<<"entry", e>>) \in Nat /\ InTodo(pr[p].todo, <<"entry", e>>) <= Users(<<"entry", e>>)
    BY <1>6, InUse
  <2>3. InTodo(pr[p].todo, <<"entry", e>>) >= 1
    BY <1>10, TodoNumbers DEF One
  <2> QED BY <2>1, <2>2, <2>3, TodoNumbers
<1>12. /\ entry' \in [Names -> AnEntry]
       /\ \A d \in Names : entry'[d].bytes = entry[d].bytes /\ entry'[d].ref = entry[d].ref - One(e, d)
  <2>1. entry \in [Names -> AnEntry] /\ entry[e] \in AnEntry
    BY <1>6 DEF TypesOK
  <2>2. PICK n \in Nat : n = entry[e].ref - 1
    BY ONLY <1>11
  <2>3. entry' = [entry EXCEPT ![e].ref = n]
    BY ONLY <1>7, <2>1, <2>2, e \in Names
  <2>4. /\ entry' \in [Names -> AnEntry] /\ entry'[e].ref = n /\ entry'[e].bytes = entry[e].bytes
        /\ \A d \in Names : d # e => entry'[d] = entry[d]
    BY ONLY <2>1, <2>3, e \in Names DEF AnEntry
  <2>5. \A d \in Names : entry'[d].bytes = entry[d].bytes
    BY ONLY <2>4
  <2>6. \A d \in Names : entry'[d].ref = entry[d].ref - One(e, d)
    <3>1. \A d \in Names : entry[d].ref \in Nat
      BY ONLY <2>1 DEF AnEntry
    <3> QED BY ONLY <2>2, <2>4, <3>1 DEF One
  <2> QED BY ONLY <2>4, <2>5, <2>6
<1>13. TypesOK'
  BY <1>1, <1>6, <1>12 DEF TypesOK, OFile, APipe, AnEntry
<1>14. FilesBalance(p)
  BY <1>1, <1>6, <1>8, <1>9, <1>10, KeepsFiles
<1>15. \A x : Change(x, p) = InTodo(u, x) - InTodo(pr[p].todo, x)
  BY <1>1, <1>6, <1>8, <1>9, SameFiles
<1>16. EntriesBalance(p)
  <2> SUFFICES ASSUME NEW d \in Names PROVE entry'[d].ref = entry[d].ref + Change(<<"entry", d>>, p)
    BY Zenon DEF EntriesBalance
  <2>1. PICK x : x = <<"entry", d>>
    OBVIOUS
  <2>2. Change(x, p) = InTodo(u, x) - InTodo(pr[p].todo, x) /\ InTodo(pr[p].todo, x) = One(e, d) + InTodo(u, x)
    BY <1>10, <1>15, <2>1
  <2>3. entry[d].ref \in Nat /\ One(e, d) \in Nat /\ InTodo(u, x) \in Nat
    BY <1>6, TodoNumbers DEF TypesOK, AnEntry, One
  <2> QED BY <1>12, <2>1, <2>2, <2>3
<1>17. PipesBalance(p)
  <2>1. ASSUME NEW i \in DOMAIN pipe, NEW w \in BOOLEAN PROVE Change(<<"end", i, w>>, p) = 0
    <3>1. PICK x : x = <<"end", i, w>>
      OBVIOUS
    <3>2. Change(x, p) = InTodo(u, x) - InTodo(pr[p].todo, x) /\ InTodo(pr[p].todo, x) = InTodo(u, x)
      BY <1>10, <1>15, <3>1
    <3> QED BY <3>1, <3>2, TodoNumbers
  <2> QED BY <1>1, <1>6, <2>1, KeepsPipes
<1>18. Harmless(p) /\ FilesOK(file', pipe', entry')
  BY <1>1, <1>6, <1>12 DEF Harmless, FilesOK
<1>19. ProcessOK(y, file', entry')
  <2>1. Shape(u) /\ (u # <<>> => HeadOK(u[1], file', entry'))
    BY <1>4, AfterUndo
  <2> QED BY <1>1, <1>6, <1>8, <2>1 DEF ProcessOK
<1> QED BY <1>8, <1>9, <1>13, <1>14, <1>16, <1>17, <1>18, <1>19, Move

LEMMA PipecloseStep ==
  ASSUME ShIndInv, NEW p \in Procs, Pipeclose(p), input' = input
  PROVE  ShIndInv'
<1>1. At(p, "pipeclose") /\ UNCHANGED <<load, file, entry, out, faults>>
  BY DEF Pipeclose
<1>2. PICK s : s = Now(p)
  OBVIOUS
<1>3. PICK u : u = Tail(pr[p].todo)
  OBVIOUS
<1>4. /\ pr[p] \in Process /\ pr[p].st = "live" /\ s.op = "pipeclose" /\ s \in CallStep /\ s \in AnyStep
      /\ u \in Seq(AnyStep) /\ AtMostUndo(u) /\ Adds(pr[p].todo, s, u)
  <2>1. "pipeclose" \in CallOps
    BY DEF CallOps
  <2> QED BY <1>1, <1>2, <1>3, <2>1, Doing
<1>5. PICK i \in DOMAIN pipe, w \in BOOLEAN : i = s.i /\ w = s.writable
  BY <1>4, CallSteps
<1>6. /\ TypesOK /\ pr \in [Procs -> Process] /\ RefsExact /\ PipeEndsOpen
      /\ ProcessOK(pr[p], file, entry) /\ FilesOK(file, pipe, entry)
  BY Parts
<1>7. PICK y : y = Go(p, <<>>) /\ Becomes(p, y)
  BY DEF Pipeclose
<1>8. y \in Process /\ y.st = "live" /\ y.todo = u /\ y.ofile = pr[p].ofile
  <2>1. PICK n : n = <<>>
    OBVIOUS
  <2>2. Joins(u, n, Tail(pr[p].todo)) /\ 0 \in Int /\ p \in Procs
    BY <1>3, <1>4, <2>1 DEF Joins
  <2>3. y = Go(p, n)
    BY ONLY <1>7, <2>1, Zenon
  <2>4. pr[p] \in Process /\ pr[p].st = "live" /\ u \in Seq(AnyStep)
    BY ONLY <1>4
  <2> QED BY ONLY <2>2, <2>3, <2>4, Proceeds
<1>9. pr' = [pr EXCEPT ![p] = y] /\ pr'[p] = y /\ load' = load
  BY <1>1, <1>6, <1>7 DEF Becomes
<1>10. /\ \A g : InTodo(pr[p].todo, <<"file", g>>) = InTodo(u, <<"file", g>>)
       /\ \A d : InTodo(pr[p].todo, <<"entry", d>>) = InTodo(u, <<"entry", d>>)
       /\ \A j, b : InTodo(pr[p].todo, <<"end", j, b>>) =
                      (IF i = j /\ w = b THEN 1 ELSE 0) + InTodo(u, <<"end", j, b>>)
  <2>1. /\ \A g : Refs(s, <<"file", g>>) = 0
        /\ \A d : Refs(s, <<"entry", d>>) = 0
        /\ \A j, b : Refs(s, <<"end", j, b>>) = IF i = j /\ w = b THEN 1 ELSE 0
    BY <1>4, <1>5, RefsTo
  <2>2. \A x : x # Nothing => InTodo(pr[p].todo, x) = Refs(s, x) + InTodo(u, x)
    BY <1>4 DEF Adds
  <2> QED BY <2>1, <2>2, TodoNumbers DEF Nothing
<1>11. \A x : Change(x, p) = InTodo(u, x) - InTodo(pr[p].todo, x)
  BY <1>1, <1>6, <1>8, <1>9, SameFiles
<1>12. /\ \A d : Change(<<"entry", d>>, p) = 0
       /\ \A j, b : Change(<<"end", j, b>>, p) = IF i = j /\ w = b THEN -1 ELSE 0
  <2>1. ASSUME NEW d PROVE Change(<<"entry", d>>, p) = 0
    <3>1. PICK x : x = <<"entry", d>>
      OBVIOUS
    <3>2. Change(x, p) = InTodo(u, x) - InTodo(pr[p].todo, x) /\ InTodo(pr[p].todo, x) = InTodo(u, x)
      BY <1>10, <1>11, <3>1
    <3> QED BY <3>1, <3>2, TodoNumbers
  <2>2. ASSUME NEW j, NEW b PROVE Change(<<"end", j, b>>, p) = IF i = j /\ w = b THEN -1 ELSE 0
    <3>1. PICK x : x = <<"end", j, b>>
      OBVIOUS
    <3>2. /\ Change(x, p) = InTodo(u, x) - InTodo(pr[p].todo, x)
          /\ InTodo(pr[p].todo, x) = (IF i = j /\ w = b THEN 1 ELSE 0) + InTodo(u, x)
      BY <1>10, <1>11, <3>1
    <3> QED BY <3>1, <3>2, TodoNumbers
  <2> QED BY <2>1, <2>2
<1>13. PICK x : x = pipe[i] /\ x \in APipe
  BY <1>6 DEF TypesOK
<1>14. (IF w THEN x.writeopen ELSE x.readopen) /\ x.alloc
  <2>1. PICK z : z = <<"end", i, w>>
    OBVIOUS
  <2>2. Users(z) \in Nat /\ InTodo(pr[p].todo, z) <= Users(z)
    BY <1>6, InUse
  <2>3. InTodo(pr[p].todo, z) = 1 + InTodo(u, z)
    BY <1>10, <2>1
  <2>4. Users(z) >= 1
    BY <2>2, <2>3, TodoNumbers
  <2>5. /\ Users(<<"end", i, TRUE>>) = IF x.writeopen THEN 1 ELSE 0
        /\ Users(<<"end", i, FALSE>>) = IF x.readopen THEN 1 ELSE 0
        /\ x.alloc = (x.readopen \/ x.writeopen)
    BY <1>6, <1>13 DEF PipeEndsOpen
  <2>6. CASE w = TRUE
    <3>1. x.writeopen
      BY <2>1, <2>4, <2>5, <2>6
    <3> QED BY <2>5, <2>6, <3>1
  <2>7. CASE w = FALSE
    <3>1. z = <<"end", i, FALSE>>
      BY <2>1, <2>7, Zenon
    <3>2. x.readopen
      BY <2>4, <2>5, <3>1
    <3> QED BY <2>5, <2>7, <3>2
  <2> QED BY <2>6, <2>7
<1>15. PICK v : /\ v = IF w THEN [x EXCEPT !.writeopen = FALSE] ELSE [x EXCEPT !.readopen = FALSE]
                /\ pipe' = [pipe EXCEPT ![i] = IF v.readopen \/ v.writeopen THEN v ELSE NoPipe]
  BY <1>2, <1>5, <1>13 DEF Pipeclose
<1>16. PICK z : z = IF v.readopen \/ v.writeopen THEN v ELSE NoPipe
  OBVIOUS
<1>17. /\ v \in APipe /\ v.alloc = TRUE
       /\ v.writeopen = (x.writeopen /\ ~w) /\ v.readopen = (x.readopen /\ w)
  BY <1>13, <1>14, <1>15 DEF APipe
<1>18. /\ z \in APipe /\ z.alloc = (z.readopen \/ z.writeopen)
       /\ z.writeopen = (x.writeopen /\ ~w) /\ z.readopen = (x.readopen /\ w)
  <2>1. NoPipe \in APipe /\ ~NoPipe.alloc /\ ~NoPipe.readopen /\ ~NoPipe.writeopen
    BY DEF NoPipe, APipe
  <2>2. CASE v.readopen \/ v.writeopen
    BY <1>16, <1>17, <2>2
  <2>3. CASE ~(v.readopen \/ v.writeopen)
    BY <1>16, <1>17, <2>1, <2>3 DEF APipe
  <2> QED BY <2>2, <2>3
<1>19. /\ pipe'[i] = z /\ \A j \in DOMAIN pipe : j # i => pipe'[j] = pipe[j]
       /\ pipe' \in [1..load.npipe -> APipe] /\ DOMAIN pipe' = DOMAIN pipe
  BY <1>6, <1>15, <1>16, <1>18 DEF TypesOK
<1>20. TypesOK'
  BY <1>1, <1>6, <1>19 DEF TypesOK, OFile, APipe, AnEntry
<1>21. FilesBalance(p)
  BY <1>1, <1>6, <1>8, <1>9, <1>10, KeepsFiles
<1>22. EntriesBalance(p)
  BY <1>1, <1>6, <1>12, KeepsEntries
<1>23. PipesBalance(p)
  <2>1. ASSUME NEW j \in DOMAIN pipe
        PROVE  /\ Flag(pipe'[j].writeopen) = Flag(pipe[j].writeopen) + Change(<<"end", j, TRUE>>, p)
               /\ Flag(pipe'[j].readopen) = Flag(pipe[j].readopen) + Change(<<"end", j, FALSE>>, p)
               /\ pipe'[j].alloc = (pipe'[j].readopen \/ pipe'[j].writeopen)
    <3>1. CASE j = i
      <4>1. /\ Change(<<"end", j, TRUE>>, p) = IF w THEN -1 ELSE 0
            /\ Change(<<"end", j, FALSE>>, p) = IF ~w THEN -1 ELSE 0
        BY <1>12, <3>1
      <4>2. /\ Flag(z.writeopen) = Flag(x.writeopen) + (IF w THEN -1 ELSE 0)
            /\ Flag(z.readopen) = Flag(x.readopen) + (IF ~w THEN -1 ELSE 0)
        <5>1. CASE w = TRUE
          <6>1. x.writeopen /\ ~z.writeopen /\ (z.readopen <=> x.readopen)
            BY <1>14, <1>18, <5>1
          <6> QED BY <5>1, <6>1 DEF Flag
        <5>2. CASE w = FALSE
          <6>1. x.readopen /\ ~z.readopen /\ (z.writeopen <=> x.writeopen)
            BY <1>14, <1>18, <5>2
          <6> QED BY <5>2, <6>1 DEF Flag
        <5> QED BY <5>1, <5>2
      <4> QED BY <1>13, <1>18, <1>19, <3>1, <4>1, <4>2
    <3>2. CASE j # i
      <4>1. Change(<<"end", j, TRUE>>, p) = 0 /\ Change(<<"end", j, FALSE>>, p) = 0
        BY <1>12, <3>2
      <4>2. pipe'[j] = pipe[j] /\ pipe[j].alloc = (pipe[j].readopen \/ pipe[j].writeopen)
        BY <1>6, <1>19, <3>2 DEF PipeEndsOpen
      <4>3. \A b : Flag(b) + 0 = Flag(b)
        BY DEF Flag
      <4> QED BY <4>1, <4>2, <4>3
    <3> QED BY <3>1, <3>2
  <2> QED BY ONLY <2>1, Zenon DEF PipesBalance
<1>24. Harmless(p) /\ FilesOK(file', pipe', entry')
  BY <1>1, <1>6, <1>19 DEF Harmless, FilesOK
<1>25. ProcessOK(y, file', entry')
  <2>1. Shape(u) /\ (u # <<>> => HeadOK(u[1], file', entry'))
    BY <1>4, AfterUndo
  <2> QED BY <1>1, <1>6, <1>8, <2>1 DEF ProcessOK
<1> QED BY <1>8, <1>9, <1>20, <1>21, <1>22, <1>23, <1>24, <1>25, Move

\* one less user of a file that is still open
LEMMA LastCloseSteps ==
  ASSUME NEW x \in OFile, x.type = "pipe" => x.to \in DOMAIN pipe, x.type = "entry" => x.to \in Names
  PROVE  \/ LastClose(x) = <<>> /\ Target(x) = Nothing
         \/ \E a \in CallStep : /\ LastClose(x) = <<a>> /\ a.op \in Undo
                                /\ \A g : Refs(a, <<"file", g>>) = 0
                                /\ \A d : Refs(a, <<"entry", d>>) = One(Target(x), <<"entry", d>>)
                                /\ \A i, w : Refs(a, <<"end", i, w>>) = One(Target(x), <<"end", i, w>>)
<1>1. CASE x.type = "pipe"
  <2>1. x.writable \in BOOLEAN /\ x.to \in DOMAIN pipe
    BY <1>1 DEF OFile
  <2>2. PICK a : a = [op |-> "pipeclose", i |-> x.to, writable |-> x.writable]
    OBVIOUS
  <2>3. /\ a \in CallStep /\ a.op = "pipeclose" /\ a.i = x.to /\ a.writable = x.writable
        /\ LastClose(x) = <<a>> /\ Target(x) = <<"end", x.to, x.writable>>
    BY <1>1, <2>1, <2>2, NewSteps DEF LastClose, Target
  <2>4. a \in AnyStep
    BY <2>3 DEF AnyStep
  <2>5. /\ \A g : Refs(a, <<"file", g>>) = 0
        /\ \A d : Refs(a, <<"entry", d>>) = 0
        /\ \A i, w : Refs(a, <<"end", i, w>>) = IF x.to = i /\ x.writable = w THEN 1 ELSE 0
    BY <2>3, <2>4, RefsTo
  <2>6. /\ \A d : One(Target(x), <<"entry", d>>) = 0
        /\ \A i, w : One(Target(x), <<"end", i, w>>) = IF x.to = i /\ x.writable = w THEN 1 ELSE 0
    BY <2>3 DEF One
  <2> QED BY <2>3, <2>5, <2>6 DEF Undo
<1>2. CASE x.type = "entry"
  <2>1. PICK a : a = eput(x.to)
    OBVIOUS
  <2>2. /\ a \in CallStep /\ a.op = "eput" /\ a.e = x.to
        /\ LastClose(x) = <<a>> /\ Target(x) = <<"entry", x.to>>
    BY <1>2, <2>1, NewSteps DEF LastClose, Target
  <2>3. a \in AnyStep
    BY <2>2 DEF AnyStep
  <2>4. /\ \A g : Refs(a, <<"file", g>>) = 0
        /\ \A d : Refs(a, <<"entry", d>>) = One(x.to, d)
        /\ \A i, w : Refs(a, <<"end", i, w>>) = 0
    BY <2>2, <2>3, RefsTo
  <2>5. /\ \A d : One(Target(x), <<"entry", d>>) = One(x.to, d)
        /\ \A i, w : One(Target(x), <<"end", i, w>>) = 0
    BY <2>2 DEF One
  <2> QED BY <2>2, <2>4, <2>5 DEF Undo
<1>3. CASE x.type \notin {"pipe", "entry"}
  BY <1>3 DEF LastClose, Target, Nothing
<1> QED BY <1>1, <1>2, <1>3

CloseTodo(v, T, u, x) ==
  /\ Joins(v, T, u) /\ v \in Seq(AnyStep) /\ Shape(v)
  /\ v # <<>> => HeadOK(v[1], file', entry')
  /\ \A g : InTodo(v, <<"file", g>>) = InTodo(u, <<"file", g>>)
  /\ \A d : InTodo(v, <<"entry", d>>) =
       (IF x.ref = 1 THEN One(Target(x), <<"entry", d>>) ELSE 0) + InTodo(u, <<"entry", d>>)
  /\ \A i, w : InTodo(v, <<"end", i, w>>) =
       (IF x.ref = 1 THEN One(Target(x), <<"end", i, w>>) ELSE 0) + InTodo(u, <<"end", i, w>>)

LEMMA FilecloseStep ==
  ASSUME ShIndInv, NEW p \in Procs, Fileclose(p), input' = input
  PROVE  ShIndInv'
<1>1. At(p, "fileclose") /\ UNCHANGED <<load, pipe, entry, out, faults>>
  BY DEF Fileclose
<1>2. PICK s : s = Now(p)
  OBVIOUS
<1>3. PICK u : u = Tail(pr[p].todo)
  OBVIOUS
<1>4. /\ pr[p] \in Process /\ pr[p].st = "live" /\ s.op = "fileclose" /\ s \in CallStep /\ s \in AnyStep
      /\ s = pr[p].todo[1] /\ pr[p].todo # <<>>
      /\ u \in Seq(AnyStep) /\ AtMostUndo(u) /\ Adds(pr[p].todo, s, u)
  <2>1. "fileclose" \in CallOps
    BY DEF CallOps
  <2> QED BY <1>1, <1>2, <1>3, <2>1, Doing
<1>5. PICK f \in DOMAIN file : f = s.own[1] /\ 1 \in DOMAIN s.own
  BY <1>4, CallSteps
<1>6. /\ TypesOK /\ pr \in [Procs -> Process] /\ RefsExact /\ PipeEndsOpen
      /\ \A q \in Procs : ProcessOK(pr[q], file, entry)
      /\ FilesOK(file, pipe, entry)
  BY Parts
<1>7. PICK x : x = file[f] /\ x \in OFile
  BY <1>6 DEF TypesOK
<1>8. PICK z : z = [x EXCEPT !.ref = @ - 1, !.type = IF x.ref = 1 THEN "none" ELSE @]
  OBVIOUS
<1>9. file' = [file EXCEPT ![f] = z]
  <2>1. file' = [file EXCEPT ![f].ref = @ - 1, ![f].type = IF x.ref = 1 THEN "none" ELSE @]
    BY <1>2, <1>5, <1>7 DEF Fileclose
  <2> QED BY <1>6, <1>7, <1>8, <2>1 DEF TypesOK, OFile
<1>10. PICK T : T = (IF x.ref = 1 THEN LastClose(x) ELSE <<>>) /\ Becomes(p, Go(p, T))
  BY <1>2, <1>5, <1>7 DEF Fileclose
<1>11. Owns(pr[p], f)
  BY <1>4, <1>5 DEF Owns
<1>12. x.ref \in Nat \ {0}
  BY <1>6, <1>7, <1>11, Holders DEF OFile
<1>13. /\ z \in OFile /\ z.ref = x.ref - 1 /\ z.type = (IF x.ref = 1 THEN "none" ELSE x.type)
       /\ z.to = x.to /\ z.readable = x.readable /\ z.writable = x.writable
  <2>1. PICK n \in Nat : n = x.ref - 1
    BY <1>12
  <2>2. PICK ty \in {"none", "device", "entry", "pipe"} : ty = IF x.ref = 1 THEN "none" ELSE x.type
    BY <1>7 DEF OFile
  <2>3. z = [x EXCEPT !.ref = n, !.type = ty]
    BY <1>7, <1>8, <2>1, <2>2 DEF OFile
  <2> QED BY <1>7, <2>1, <2>2, <2>3 DEF OFile
<1>14. /\ file' \in [1..load.nfile -> OFile] /\ file'[f] = z /\ DOMAIN file' = DOMAIN file
       /\ \A g \in DOMAIN file : g # f => file'[g] = file[g]
  BY <1>6, <1>9, <1>13 DEF TypesOK
<1>15. TypesOK'
  BY <1>1, <1>6, <1>14 DEF TypesOK, OFile, APipe, AnEntry
<1>16. /\ x.type = "pipe" => x.to \in DOMAIN pipe
       /\ x.type = "entry" => x.to \in Names
  BY <1>6, <1>7 DEF FilesOK
\* what p does next refers to what the file referred to, if this was its last reference
<1>17. PICK v : CloseTodo(v, T, u, x)
  <2>1. ASSUME T = <<>>, x.ref = 1 => Target(x) = Nothing
        PROVE  CloseTodo(u, T, u, x)
    <3>1. Joins(u, T, u)
      BY <1>4, <2>1 DEF Joins
    <3>2. Shape(u) /\ (u # <<>> => HeadOK(u[1], file', entry'))
      BY <1>4, AfterUndo
    <3>3. /\ \A d : (IF x.ref = 1 THEN One(Target(x), <<"entry", d>>) ELSE 0) = 0
          /\ \A i, w : (IF x.ref = 1 THEN One(Target(x), <<"end", i, w>>) ELSE 0) = 0
      BY <2>1 DEF One, Nothing
    <3>4. \A c : 0 + InTodo(u, c) = InTodo(u, c)
      BY TodoNumbers
    <3>5. /\ \A d : InTodo(u, <<"entry", d>>) =
                     (IF x.ref = 1 THEN One(Target(x), <<"entry", d>>) ELSE 0) + InTodo(u, <<"entry", d>>)
          /\ \A i, w : InTodo(u, <<"end", i, w>>) =
                     (IF x.ref = 1 THEN One(Target(x), <<"end", i, w>>) ELSE 0) + InTodo(u, <<"end", i, w>>)
      BY ONLY <3>3, <3>4
    <3> QED BY <1>4, <3>1, <3>2, <3>5, Zenon DEF CloseTodo
  <2>2. CASE x.ref # 1
    BY <1>4, <1>10, <2>1, <2>2
  <2>3. CASE x.ref = 1 /\ LastClose(x) = <<>> /\ Target(x) = Nothing
    BY <1>4, <1>10, <2>1, <2>3
  <2>4. ASSUME x.ref = 1, NEW a \in CallStep, LastClose(x) = <<a>>, a.op \in Undo,
               \A g : Refs(a, <<"file", g>>) = 0,
               \A d : Refs(a, <<"entry", d>>) = One(Target(x), <<"entry", d>>),
               \A i, w : Refs(a, <<"end", i, w>>) = One(Target(x), <<"end", i, w>>)
        PROVE  \E v : CloseTodo(v, T, u, x)
    <3>1. PICK v : v = <<a>> \o u
      OBVIOUS
    <3>2. Joins(v, <<a>>, u) /\ Joins(v, T, u) /\ a \in AnyStep
      BY <1>10, <2>4, <3>1 DEF Joins, AnyStep
    <3>3. v \in Seq(AnyStep) /\ v[1] = a /\ Shape(v) /\ Adds(v, a, u)
      BY <1>4, <2>4, <3>2, SilentSteps, OneMore
    <3>4. HeadOK(v[1], file', entry')
      BY <2>4, <3>3 DEF HeadOK, Undo
    <3>5. \A y : y # Nothing => InTodo(v, y) = Refs(a, y) + InTodo(u, y)
      BY <3>3 DEF Adds
    <3>6. ASSUME NEW g PROVE InTodo(v, <<"file", g>>) = InTodo(u, <<"file", g>>)
      BY <2>4, <3>5, TodoNumbers DEF Nothing
    <3>7. ASSUME NEW d
          PROVE  InTodo(v, <<"entry", d>>) =
                     (IF x.ref = 1 THEN One(Target(x), <<"entry", d>>) ELSE 0) + InTodo(u, <<"entry", d>>)
      BY <2>4, <3>5 DEF Nothing
    <3>8. ASSUME NEW i, NEW w
          PROVE  InTodo(v, <<"end", i, w>>) =
                     (IF x.ref = 1 THEN One(Target(x), <<"end", i, w>>) ELSE 0) + InTodo(u, <<"end", i, w>>)
      BY <2>4, <3>5 DEF Nothing
    <3>9. CloseTodo(v, T, u, x)
      BY ONLY <3>2, <3>3, <3>4, <3>6, <3>7, <3>8, Zenon DEF CloseTodo
    <3> QED BY <3>9
  <2> QED BY <1>7, <1>16, <2>2, <2>3, <2>4, LastCloseSteps
<1>18. PICK y : y = Go(p, T)
  OBVIOUS
<1>19. y \in Process /\ y.st = "live" /\ y.todo = v /\ y.ofile = pr[p].ofile
  <2>1. Joins(v, T, Tail(pr[p].todo)) /\ 0 \in Int /\ p \in Procs
    BY <1>3, <1>17 DEF CloseTodo
  <2>2. pr[p] \in Process /\ pr[p].st = "live" /\ v \in Seq(AnyStep)
    BY <1>4, <1>17 DEF CloseTodo
  <2> QED BY ONLY <1>18, <2>1, <2>2, Proceeds
<1>20. pr' = [pr EXCEPT ![p] = y] /\ pr'[p] = y /\ load' = load
  BY <1>1, <1>6, <1>10, <1>18 DEF Becomes
<1>21. /\ \A g : InTodo(pr[p].todo, <<"file", g>>) = One(f, g) + InTodo(u, <<"file", g>>)
       /\ \A d : InTodo(pr[p].todo, <<"entry", d>>) = InTodo(u, <<"entry", d>>)
       /\ \A j, b : InTodo(pr[p].todo, <<"end", j, b>>) = InTodo(u, <<"end", j, b>>)
  <2>1. /\ \A g : Refs(s, <<"file", g>>) = One(f, g)
        /\ \A d : Refs(s, <<"entry", d>>) = 0
        /\ \A j, b : Refs(s, <<"end", j, b>>) = 0
    BY <1>4, <1>5, RefsTo
  <2>2. \A c : c # Nothing => InTodo(pr[p].todo, c) = Refs(s, c) + InTodo(u, c)
    BY <1>4 DEF Adds
  <2> QED BY <2>1, <2>2, TodoNumbers DEF Nothing
<1>22. FilesBalance(p)
  <2> SUFFICES ASSUME NEW g \in DOMAIN file
               PROVE  file'[g].ref = file[g].ref - Held(pr[p].ofile, Fds, g) - InTodo(pr[p].todo, <<"file", g>>)
                 + Held(pr'[p].ofile, Fds, g) + InTodo(pr'[p].todo, <<"file", g>>)
    BY Zenon DEF FilesBalance
  <2>1. PICK c : c = <<"file", g>>
    OBVIOUS
  <2>2. InTodo(pr[p].todo, c) = One(f, g) + InTodo(u, c) /\ InTodo(v, c) = InTodo(u, c)
    BY <1>17, <1>21, <2>1 DEF CloseTodo
  <2>3. file'[g].ref = file[g].ref - One(f, g) /\ file[g].ref \in Nat
    <3>1. file[g].ref \in Nat
      BY <1>6 DEF TypesOK, OFile
    <3>2. g = f => file'[g].ref = file[g].ref - 1
      BY ONLY <1>7, <1>13, <1>14
    <3>3. g # f => file'[g].ref = file[g].ref
      BY ONLY <1>14, g \in DOMAIN file
    <3> QED BY ONLY <3>1, <3>2, <3>3 DEF One
  <2>4. Held(pr[p].ofile, Fds, g) \in Nat /\ InTodo(u, c) \in Nat /\ One(f, g) \in Nat
    BY <1>6, HeldNumbers, TodoNumbers DEF One
  <2> QED BY <1>19, <1>20, <2>1, <2>2, <2>3, <2>4
<1>23. \A c : /\ Change(c, p) = Opens(z, c) - Opens(x, c) + InTodo(v, c) - InTodo(pr[p].todo, c)
              /\ Opens(x, c) = One(Target(x), c)
              /\ c # Nothing => Opens(z, c) = IF x.ref = 1 THEN 0 ELSE One(Target(x), c)
  <2> SUFFICES ASSUME NEW c
               PROVE  /\ Change(c, p) = Opens(z, c) - Opens(x, c) + InTodo(v, c) - InTodo(pr[p].todo, c)
                      /\ Opens(x, c) = One(Target(x), c)
                      /\ c # Nothing => Opens(z, c) = IF x.ref = 1 THEN 0 ELSE One(Target(x), c)
    OBVIOUS
  <2>1. Change(c, p) = Opens(z, c) - Opens(x, c) + InTodo(v, c) - InTodo(pr[p].todo, c)
    BY <1>6, <1>7, <1>14, <1>19, <1>20, OneFile
  <2>2. x.ref # 1 => Target(z) = Target(x)
    BY <1>13 DEF Target
  <2> QED BY <1>12, <1>13, <2>1, <2>2 DEF Opens, One
<1>24. \A c : (\E d : c = <<"entry", d>>) \/ (\E i, w : c = <<"end", i, w>>) => Change(c, p) = 0
  <2> SUFFICES ASSUME NEW c, (\E d : c = <<"entry", d>>) \/ (\E i, w : c = <<"end", i, w>>)
               PROVE  Change(c, p) = 0
    OBVIOUS
  <2>1. c # Nothing
    BY DEF Nothing
  <2>2. /\ InTodo(pr[p].todo, c) = InTodo(u, c)
        /\ InTodo(v, c) = (IF x.ref = 1 THEN One(Target(x), c) ELSE 0) + InTodo(u, c)
    BY <1>17, <1>21 DEF CloseTodo
  <2>3. /\ Change(c, p) = Opens(z, c) - Opens(x, c) + InTodo(v, c) - InTodo(pr[p].todo, c)
        /\ Opens(x, c) = One(Target(x), c)
        /\ Opens(z, c) = IF x.ref = 1 THEN 0 ELSE One(Target(x), c)
    BY <1>23, <2>1
  <2>4. One(Target(x), c) \in Nat /\ InTodo(u, c) \in Nat
    BY TodoNumbers DEF One
  <2> QED BY ONLY <2>2, <2>3, <2>4
<1>25. EntriesBalance(p) /\ PipesBalance(p)
  <2>1. /\ \A d \in Names : Change(<<"entry", d>>, p) = 0
        /\ \A i \in DOMAIN pipe, w \in BOOLEAN : Change(<<"end", i, w>>, p) = 0
    BY <1>24
  <2> QED BY <1>1, <1>6, <2>1, KeepsEntries, KeepsPipes
\* nobody else has the file when it is closed
<1>26. x.ref = 1 => \A q \in Procs : ~HasFd(pr[q], f)
  BY <1>6, <1>7, <1>11, Holders
<1>27. Harmless(p)
  <2>1. ASSUME NEW q \in Procs, NEW g \in DOMAIN file, q # p
        PROVE  /\ file[g].type # "none" /\ HasFd(pr[q], g) => file'[g].type # "none"
               /\ file[g].type = "none" /\ Owns(pr[q], g) => file'[g].type = "none"
    BY <1>7, <1>13, <1>14, <1>26
  <2> QED BY <1>1, <2>1 DEF Harmless
<1>28. FilesOK(file', pipe', entry')
  <2> SUFFICES ASSUME NEW g \in DOMAIN file
               PROVE  /\ file'[g].type = "none" => file'[g].ref <= 1
                      /\ file'[g].type = "pipe" => file'[g].to \in DOMAIN pipe /\ file'[g].readable = ~file'[g].writable
                      /\ file'[g].type = "entry" => file'[g].to \in Names /\ entry[file'[g].to].bytes # None
                      /\ file'[g].ref = 0 => file'[g].type = "none"
    BY <1>1, <1>14 DEF FilesOK
  <2>1. /\ file[g].type = "none" => file[g].ref <= 1
        /\ file[g].type = "pipe" => file[g].to \in DOMAIN pipe /\ file[g].readable = ~file[g].writable
        /\ file[g].type = "entry" => file[g].to \in Names /\ entry[file[g].to].bytes # None
        /\ file[g].ref = 0 => file[g].type = "none"
    BY <1>6 DEF FilesOK
  <2>2. CASE g = f
    BY <1>7, <1>12, <1>13, <1>14, <2>1, <2>2
  <2>3. CASE g # f
    BY <1>14, <2>1, <2>3
  <2> QED BY <2>2, <2>3
<1>29. ProcessOK(y, file', entry')
  <2>1. \A fd \in Fds : y.ofile[fd] # None => file'[y.ofile[fd]].type # "none"
    <3> SUFFICES ASSUME NEW fd \in Fds, y.ofile[fd] # None PROVE file'[y.ofile[fd]].type # "none"
      OBVIOUS
    <3>4. pr[p].ofile \in [Fds -> {None} \cup DOMAIN file] /\ y.ofile[fd] = pr[p].ofile[fd]
      BY <1>4, <1>19 DEF Process
    <3>1. PICK g \in DOMAIN file : g = pr[p].ofile[fd] /\ g = y.ofile[fd] /\ file[g].type # "none"
      BY <1>6, <3>4 DEF ProcessOK
    <3>2. HasFd(pr[p], g)
      BY <3>1 DEF HasFd
    <3>3. file'[g].type # "none"
      BY <1>7, <1>13, <1>14, <1>26, <3>1, <3>2
    <3> QED BY <3>1, <3>3
  <2> QED BY <1>17, <1>19, <2>1 DEF ProcessOK, Process, CloseTodo
<1> QED BY <1>15, <1>19, <1>20, <1>22, <1>25, <1>27, <1>28, <1>29, Move

-----------------------------------------------------------------------------
(* Calls that take files and descriptors.                                  *)
LEMMA AddOfOne ==
  \A a, b : One(a, b) \in Nat
BY DEF One

\* p gets a descriptor fd for f, of which its step held what f now refers to
LEMMA GetsFd ==
  ASSUME ShIndInv, NEW p \in Procs, NEW o, At(p, o), o \notin Undo, NEW fd \in fdalloc(pr[p].ofile),
         NEW f \in DOMAIN file, NEW X \in OFile, X.ref = file[f].ref + 1, X.type # "none",
         file[f].type # "none" \/ file[f].ref = 0,
         X.type = "pipe" => X.to \in DOMAIN pipe /\ X.readable = ~X.writable,
         X.type = "entry" => X.to \in Names /\ entry'[X.to].bytes # None,
         \A x : x # Nothing => Opens(X, x) - Opens(file[f], x) = Refs(Now(p), x),
         \A g : Refs(Now(p), <<"file", g>>) = 0,
         file' = [file EXCEPT ![f] = X],
         Becomes(p, [Ret(p, fd, <<>>) EXCEPT !.ofile[fd] = f]),
         entry' \in [Names -> AnEntry],
         \A e \in Names : entry'[e].ref = entry[e].ref /\ (entry[e].bytes # None => entry'[e].bytes # None),
         input' = input, UNCHANGED <<load, pipe, out, faults>>
  PROVE  ShIndInv'
<1>1. /\ TypesOK /\ pr \in [Procs -> Process] /\ RefsExact /\ PipeEndsOpen
      /\ ProcessOK(pr[p], file, entry) /\ FilesOK(file, pipe, entry)
  BY Parts
<1>2. PICK s : s = Now(p)
  OBVIOUS
<1>3. PICK u : u = Tail(pr[p].todo)
  OBVIOUS
<1>4. /\ pr[p] \in Process /\ pr[p].st = "live"
      /\ u \in Seq(AnyStep) /\ AtMostUndo(u) /\ Adds(pr[p].todo, s, u)
  BY <1>2, <1>3, Doing
<1>5. fd \in Fds /\ pr[p].ofile[fd] = None /\ fd \in Int /\ f # None
  BY <1>1, Domains DEF fdalloc, Lowest, Fds
<1>6. PICK r : r = Ret(p, fd, <<>>)
  OBVIOUS
<1>7. r \in Process /\ r.st = "live" /\ r.todo = u /\ r.ofile = pr[p].ofile
  <2>1. Joins(u, <<>>, Tail(pr[p].todo))
    BY <1>3, <1>4 DEF Joins
  <2>2. pr[p] \in Process /\ pr[p].st = "live" /\ u \in Seq(AnyStep) /\ fd \in Int /\ p \in Procs
    BY <1>4, <1>5
  <2> QED BY ONLY <1>6, <2>1, <2>2, Proceeds
<1>8. PICK y : y = [r EXCEPT !.ofile[fd] = f] /\ Becomes(p, y)
  BY <1>6
<1>9. /\ y \in Process /\ y.st = "live" /\ y.todo = u /\ y.ofile[fd] = f
      /\ OneFd(pr[p].ofile, y.ofile, Fds, fd)
  BY <1>5, <1>7, <1>8 DEF Process, OneFd
<1>10. pr' = [pr EXCEPT ![p] = y] /\ pr'[p] = y /\ load' = load
  BY <1>1, <1>8 DEF Becomes
<1>11. /\ file' \in [1..load.nfile -> OFile] /\ file'[f] = X /\ DOMAIN file' = DOMAIN file
       /\ \A g \in DOMAIN file : g # f => file'[g] = file[g]
  BY <1>1 DEF TypesOK
<1>12. TypesOK'
  BY <1>1, <1>11 DEF TypesOK, OFile, APipe, AnEntry
<1>13. \A x : x # Nothing => InTodo(pr[p].todo, x) = Refs(s, x) + InTodo(u, x)
  BY <1>4 DEF Adds
<1>14. FilesBalance(p)
  <2> SUFFICES ASSUME NEW g \in DOMAIN file
               PROVE  file'[g].ref = file[g].ref - Held(pr[p].ofile, Fds, g) - InTodo(pr[p].todo, <<"file", g>>)
                 + Held(pr'[p].ofile, Fds, g) + InTodo(pr'[p].todo, <<"file", g>>)
    BY Zenon DEF FilesBalance
  <2>1. /\ Held(pr[p].ofile, Fds, g) \in Nat
        /\ Held(y.ofile, Fds, g) = Held(pr[p].ofile, Fds, g) - One(None, g) + One(f, g)
    <3>1. IsFiniteSet(Fds)
      BY <1>1, Domains
    <3> QED BY <1>5, <1>9, <3>1, DescriptorChanges
  <2>2. One(None, g) = 0 /\ One(f, g) \in Nat
    BY <1>1, Domains DEF One
  <2>3. file'[g].ref = file[g].ref + One(f, g) /\ file[g].ref \in Nat
    <3>1. file[g].ref \in Nat
      BY <1>1 DEF TypesOK, OFile
    <3>2. g = f => file'[g].ref = file[g].ref + 1
      BY ONLY <1>11, X.ref = file[f].ref + 1
    <3>3. g # f => file'[g].ref = file[g].ref
      BY ONLY <1>11, g \in DOMAIN file
    <3> QED BY ONLY <3>1, <3>2, <3>3 DEF One
  <2>4. InTodo(pr[p].todo, <<"file", g>>) = 0 + InTodo(u, <<"file", g>>)
    BY <1>2, <1>13 DEF Nothing
  <2>5. InTodo(u, <<"file", g>>) \in Nat
    BY TodoNumbers
  <2>6. pr'[p].ofile = y.ofile /\ pr'[p].todo = u
    BY <1>9, <1>10
  <2> QED BY ONLY <2>1, <2>2, <2>3, <2>4, <2>5, <2>6
<1>15. \A x : x # Nothing => Change(x, p) = 0
  <2> SUFFICES ASSUME NEW x, x # Nothing PROVE Change(x, p) = 0
    OBVIOUS
  <2>1. Change(x, p) = Opens(X, x) - Opens(file[f], x) + InTodo(u, x) - InTodo(pr[p].todo, x)
    BY <1>1, <1>9, <1>10, <1>11, OneFile
  <2>2. Opens(X, x) - Opens(file[f], x) = Refs(s, x) /\ InTodo(pr[p].todo, x) = Refs(s, x) + InTodo(u, x)
    BY <1>2, <1>13
  <2>3. Refs(s, x) \in Nat /\ InTodo(u, x) \in Nat /\ Opens(X, x) \in Nat /\ Opens(file[f], x) \in Nat
    BY TodoNumbers DEF Opens
  <2> QED BY ONLY <2>1, <2>2, <2>3
<1>16. EntriesBalance(p) /\ PipesBalance(p)
  <2>1. /\ \A d \in Names : Change(<<"entry", d>>, p) = 0
        /\ \A i \in DOMAIN pipe, w \in BOOLEAN : Change(<<"end", i, w>>, p) = 0
    BY <1>15 DEF Nothing
  <2>2. \A e \in Names : entry'[e].ref = entry[e].ref
    OBVIOUS
  <2> QED BY <1>1, <2>1, <2>2, KeepsEntries, KeepsPipes
<1>17. Harmless(p)
  <2>1. file[f].type = "none" => \A q \in Procs : ~Owns(pr[q], f)
    BY <1>1, Holders DEF TypesOK, OFile
  <2>2. ASSUME NEW q \in Procs, NEW g \in DOMAIN file, q # p
        PROVE  /\ file[g].type # "none" /\ HasFd(pr[q], g) => file'[g].type # "none"
               /\ file[g].type = "none" /\ Owns(pr[q], g) => file'[g].type = "none"
    BY <1>11, <2>1
  <2> QED BY <2>2 DEF Harmless
<1>18. FilesOK(file', pipe', entry')
  <2> SUFFICES ASSUME NEW g \in DOMAIN file
               PROVE  /\ file'[g].type = "none" => file'[g].ref <= 1
                      /\ file'[g].type = "pipe" => file'[g].to \in DOMAIN pipe /\ file'[g].readable = ~file'[g].writable
                      /\ file'[g].type = "entry" => file'[g].to \in Names /\ entry'[file'[g].to].bytes # None
                      /\ file'[g].ref = 0 => file'[g].type = "none"
    BY <1>11 DEF FilesOK
  <2>1. CASE g = f
    <3>1. X.ref # 0
      <4>1. file[f].ref \in Nat
        BY <1>1 DEF TypesOK, OFile
      <4> QED BY <4>1
    <3> QED BY <1>11, <2>1, <3>1
  <2>2. CASE g # f
    BY <1>1, <1>11, <2>2 DEF FilesOK
  <2> QED BY <2>1, <2>2
<1>19. ProcessOK(y, file', entry')
  <2>1. Shape(u) /\ (u # <<>> => HeadOK(u[1], file', entry'))
    BY <1>4, AfterUndo
  <2>2. \A d \in Fds : y.ofile[d] # None => file'[y.ofile[d]].type # "none"
    <3> SUFFICES ASSUME NEW d \in Fds, y.ofile[d] # None, y.ofile[d] # f PROVE file'[y.ofile[d]].type # "none"
      BY <1>11
    <3>1. d # fd /\ y.ofile[d] = pr[p].ofile[d]
      BY <1>9 DEF OneFd
    <3>2. pr[p].ofile[d] \in DOMAIN file /\ file[pr[p].ofile[d]].type # "none"
      BY <1>1, <1>4, <3>1 DEF ProcessOK, Process
    <3> QED BY <1>11, <3>1, <3>2
  <2> QED BY <1>9, <2>1, <2>2 DEF ProcessOK, Process
<1> QED BY <1>9, <1>10, <1>12, <1>14, <1>16, <1>17, <1>18, <1>19, Move

LEMMA DupStep ==
  ASSUME ShIndInv, NEW p \in Procs, Dup(p), input' = input
  PROVE  ShIndInv'
<1>1. At(p, "dup") /\ UNCHANGED <<load, pipe, entry, out, faults>>
  BY DEF Dup
<1>2. PICK f : f = ArgFd(p, Now(p).fd)
  OBVIOUS
<1>3. CASE f = None \/ fdalloc(pr[p].ofile) = {}
  <2>1. Becomes(p, Ret(p, -1, <<>>)) /\ UNCHANGED file
    BY <1>2, <1>3 DEF Dup
  <2>2. <<>> \in Seq(ProgramStep) /\ -1 \in Int /\ input' \in Seq(Commands)
    BY Parts DEF TypesOK
  <2> QED BY <1>1, <2>1, <2>2, NoCallOps, ProgramGoesOn
<1>4. CASE ~(f = None \/ fdalloc(pr[p].ofile) = {})
  <2>1. PICK fd \in fdalloc(pr[p].ofile) : /\ file' = [file EXCEPT ![f].ref = @ + 1]
                                           /\ Becomes(p, [Ret(p, fd, <<>>) EXCEPT !.ofile[fd] = f])
    BY <1>2, <1>4, ZenonT(60) DEF Dup
  <2>2. /\ TypesOK /\ pr \in [Procs -> Process] /\ RefsExact /\ PipeEndsOpen
        /\ FilesOK(file, pipe, entry)
    BY Parts
  <2>3. f \in DOMAIN file /\ file[f].type # "none" /\ HasFd(pr[p], f)
    BY <1>2, <1>4, Argument DEF HasFd
  <2>4. PICK x : x = file[f] /\ x \in OFile /\ x.ref \in Nat \ {0}
    <3>1. file[f].ref > 0
      BY <2>2, <2>3, Holders
    <3>2. file[f] \in OFile
      BY ONLY <2>2, <2>3 DEF TypesOK
    <3>3. file[f].ref \in Nat
      BY ONLY <3>2 DEF OFile
    <3> QED BY ONLY <3>1, <3>2, <3>3
  <2>5. PICK X : X = [x EXCEPT !.ref = @ + 1]
    OBVIOUS
  <2>6. /\ X \in OFile /\ X.ref = x.ref + 1 /\ X.type = x.type /\ X.to = x.to
        /\ X.readable = x.readable /\ X.writable = x.writable
    BY <2>4, <2>5 DEF OFile
  <2>7. file' = [file EXCEPT ![f] = X]
    BY <2>1, <2>2, <2>4, <2>5 DEF TypesOK, OFile
  <2>8. /\ X.type = "pipe" => X.to \in DOMAIN pipe /\ X.readable = ~X.writable
        /\ X.type = "entry" => X.to \in Names /\ entry'[X.to].bytes # None
    BY <1>1, <2>2, <2>3, <2>4, <2>6 DEF FilesOK
  <2>9. \A c : Opens(X, c) - Opens(file[f], c) = 0
    <3>1. Target(X) = Target(x)
      BY <2>6 DEF Target
    <3> QED BY <2>4, <2>6, <3>1 DEF Opens
  <2>10. \A c : c # Nothing => Refs(Now(p), c) = 0
    <3>1. Now(p) \in ProgramStep
      BY <1>1, Doing, NoCallOps
    <3> QED BY <3>1, ProgramSteps
  <2>11. /\ \A c : c # Nothing => Opens(X, c) - Opens(file[f], c) = Refs(Now(p), c)
         /\ \A g : Refs(Now(p), <<"file", g>>) = 0
    BY <2>9, <2>10 DEF Nothing
  <2>12. /\ entry' \in [Names -> AnEntry]
         /\ \A e \in Names : entry'[e].ref = entry[e].ref /\ (entry[e].bytes # None => entry'[e].bytes # None)
    BY <1>1, <2>2 DEF TypesOK
  <2>13. "dup" \notin Undo
    BY DEF Undo
  <2>14. /\ X.ref = file[f].ref + 1 /\ X.type # "none" /\ (file[f].type # "none" \/ file[f].ref = 0)
         /\ fd \in fdalloc(pr[p].ofile) /\ f \in DOMAIN file /\ X \in OFile
         /\ At(p, "dup") /\ UNCHANGED <<load, pipe, out, faults>>
    BY <1>1, <2>1, <2>3, <2>4, <2>6
  <2> QED BY ONLY <2>1, <2>7, <2>8, <2>11, <2>12, <2>13, <2>14, GetsFd, ShIndInv, p \in Procs, input' = input,
              ZenonT(60)
<1> QED BY <1>3, <1>4

-----------------------------------------------------------------------------
(* A call goes on with the references it has.                              *)
Alike(t, v) == \A x : x # Nothing => InTodo(v, x) = InTodo(t, x)

LEMMA SameRefs ==
  ASSUME ShIndInv, NEW p \in Procs, NEW y \in Process, y.st = "live", y.ofile = pr[p].ofile,
         Shape(y.todo), y.todo # <<>> => HeadOK(y.todo[1], file, entry), Alike(pr[p].todo, y.todo),
         Becomes(p, y), input' = input, UNCHANGED <<load, file, pipe, entry, out>>, faults' \in Nat
  PROVE  ShIndInv'
<1>1. /\ TypesOK /\ pr \in [Procs -> Process] /\ RefsExact /\ PipeEndsOpen
      /\ ProcessOK(pr[p], file, entry) /\ FilesOK(file, pipe, entry)
  BY Parts
<1>2. TypesOK'
  BY <1>1 DEF TypesOK, OFile, APipe, AnEntry
<1>3. pr' = [pr EXCEPT ![p] = y] /\ pr'[p] = y /\ load' = load
  BY <1>1 DEF Becomes
<1>4. \A x : x # Nothing => InTodo(y.todo, x) = InTodo(pr[p].todo, x)
  BY DEF Alike
<1>5. FilesBalance(p)
  <2>1. \A g \in DOMAIN file : InTodo(pr'[p].todo, <<"file", g>>) = InTodo(pr[p].todo, <<"file", g>>)
    BY <1>3, <1>4 DEF Nothing
  <2>2. \A g \in DOMAIN file : file'[g].ref = file[g].ref
    OBVIOUS
  <2> QED BY <1>1, <1>3, <2>1, <2>2, KeepsFiles
<1>6. EntriesBalance(p) /\ PipesBalance(p)
  <2>1. \A x : Change(x, p) = InTodo(pr'[p].todo, x) - InTodo(pr[p].todo, x)
    BY <1>1, SameFiles
  <2>2. \A x : x # Nothing => Change(x, p) = 0
    <3> SUFFICES ASSUME NEW x, x # Nothing PROVE Change(x, p) = 0
      OBVIOUS
    <3>1. InTodo(y.todo, x) = InTodo(pr[p].todo, x) /\ InTodo(y.todo, x) \in Nat
      BY <1>4, TodoNumbers
    <3>2. Change(x, p) = InTodo(y.todo, x) - InTodo(pr[p].todo, x)
      BY <1>3, <2>1
    <3> QED BY ONLY <3>1, <3>2
  <2>3. /\ \A e \in Names : Change(<<"entry", e>>, p) = 0
        /\ \A i \in DOMAIN pipe, w \in BOOLEAN : Change(<<"end", i, w>>, p) = 0
    BY <2>2 DEF Nothing
  <2> QED BY <1>1, <2>3, KeepsEntries, KeepsPipes
<1>7. Harmless(p) /\ FilesOK(file', pipe', entry')
  BY <1>1 DEF Harmless
<1>8. ProcessOK(y, file', entry')
  BY <1>1 DEF ProcessOK, Process
<1> QED BY <1>2, <1>3, <1>5, <1>6, <1>7, <1>8, Move

(* A free file is taken, and held by the next step of the call.            *)
Takes(t, v, f) ==
  \A x : x # Nothing => InTodo(v, x) = (IF x = <<"file", f>> THEN 1 ELSE 0) + InTodo(t, x)
HasRef(fs, gs, f) == gs = [fs EXCEPT ![f].ref = 1]

LEMMA NewFile ==
  ASSUME ShIndInv, NEW p \in Procs, NEW h \in DOMAIN file, file[h].ref = 0, HasRef(file, file', h),
         NEW y \in Process, y.st = "live", y.ofile = pr[p].ofile,
         Shape(y.todo), y.todo # <<>>, HeadOK(y.todo[1], file, entry), Takes(pr[p].todo, y.todo, h),
         Becomes(p, y), input' = input, UNCHANGED <<load, pipe, entry, out, faults>>
  PROVE  ShIndInv'
<1>1. /\ TypesOK /\ pr \in [Procs -> Process] /\ RefsExact /\ PipeEndsOpen
      /\ ProcessOK(pr[p], file, entry) /\ FilesOK(file, pipe, entry)
  BY Parts
<1>2. h \in DOMAIN file /\ file[h].ref = 0 /\ file[h].type = "none"
  BY <1>1 DEF FilesOK
<1>3. PICK X : X = [file[h] EXCEPT !.ref = 1] /\ X \in OFile /\ X.ref = 1 /\ X.type = "none"
  <2>1. file[h] \in OFile /\ file[h].type = "none"
    BY <1>1, <1>2 DEF TypesOK
  <2>2. PICK X : X = [file[h] EXCEPT !.ref = 1]
    OBVIOUS
  <2>3. X \in OFile /\ X.ref = 1 /\ X.type = "none"
    BY ONLY <2>1, <2>2 DEF OFile
  <2> QED BY <2>2, <2>3
<1>4. /\ file' \in [1..load.nfile -> OFile] /\ file'[h] = X /\ DOMAIN file' = DOMAIN file
      /\ \A g \in DOMAIN file : g # h => file'[g] = file[g]
      /\ \A g \in DOMAIN file : file'[g].type = file[g].type
  <2>1. file' = [file EXCEPT ![h] = X]
    BY <1>1, <1>2, <1>3 DEF TypesOK, HasRef
  <2> QED BY <1>1, <1>2, <1>3, <2>1 DEF TypesOK
<1>5. TypesOK'
  BY <1>1, <1>4 DEF TypesOK, OFile, APipe, AnEntry
<1>6. pr' = [pr EXCEPT ![p] = y] /\ pr'[p] = y /\ load' = load
  BY <1>1 DEF Becomes
<1>7. /\ \A g : InTodo(y.todo, <<"file", g>>) = One(h, g) + InTodo(pr[p].todo, <<"file", g>>)
      /\ \A d : InTodo(y.todo, <<"entry", d>>) = InTodo(pr[p].todo, <<"entry", d>>)
      /\ \A i, w : InTodo(y.todo, <<"end", i, w>>) = InTodo(pr[p].todo, <<"end", i, w>>)
  <2>1. ASSUME NEW g PROVE InTodo(y.todo, <<"file", g>>) = One(h, g) + InTodo(pr[p].todo, <<"file", g>>)
    <3>1. PICK x : x = <<"file", g>>
      OBVIOUS
    <3>2. x # Nothing /\ (IF x = <<"file", h>> THEN 1 ELSE 0) = One(h, g)
      BY <3>1 DEF Nothing, One
    <3> QED BY <3>1, <3>2 DEF Takes
  <2>2. ASSUME NEW d PROVE InTodo(y.todo, <<"entry", d>>) = InTodo(pr[p].todo, <<"entry", d>>)
    <3>1. PICK x : x = <<"entry", d>>
      OBVIOUS
    <3>2. x # Nothing /\ x # <<"file", h>>
      BY <3>1 DEF Nothing
    <3>3. InTodo(y.todo, x) = 0 + InTodo(pr[p].todo, x)
      BY <3>2 DEF Takes
    <3> QED BY ONLY <3>1, <3>3, TodoNumbers
  <2>3. ASSUME NEW i, NEW w PROVE InTodo(y.todo, <<"end", i, w>>) = InTodo(pr[p].todo, <<"end", i, w>>)
    <3>1. PICK x : x = <<"end", i, w>>
      OBVIOUS
    <3>2. x # Nothing /\ x # <<"file", h>>
      BY <3>1 DEF Nothing
    <3>3. InTodo(y.todo, x) = 0 + InTodo(pr[p].todo, x)
      BY <3>2 DEF Takes
    <3> QED BY ONLY <3>1, <3>3, TodoNumbers
  <2> QED BY <2>1, <2>2, <2>3
<1>8. FilesBalance(p)
  <2>1. ASSUME NEW g \in DOMAIN file
        PROVE  file'[g].ref = file[g].ref - Held(pr[p].ofile, Fds, g) - InTodo(pr[p].todo, <<"file", g>>)
                 + Held(pr'[p].ofile, Fds, g) + InTodo(pr'[p].todo, <<"file", g>>)
    <3>1. file'[g].ref = file[g].ref + One(h, g) /\ file[g].ref \in Nat
      <4>1. file[g].ref \in Nat
        BY <1>1 DEF TypesOK, OFile
      <4>2. g = h => file'[g].ref = file[g].ref + 1
        <5>1. file'[h].ref = 1 /\ file[h].ref = 0
          BY ONLY <1>2, <1>3, <1>4
        <5> QED BY ONLY <5>1
      <4>3. g # h => file'[g].ref = file[g].ref
        BY ONLY <1>4, g \in DOMAIN file
      <4> QED BY ONLY <4>1, <4>2, <4>3 DEF One
    <3>2. Held(pr[p].ofile, Fds, g) \in Nat /\ InTodo(pr[p].todo, <<"file", g>>) \in Nat /\ One(h, g) \in Nat
      BY <1>1, HeldNumbers, TodoNumbers, AddOfOne
    <3>3. InTodo(y.todo, <<"file", g>>) = One(h, g) + InTodo(pr[p].todo, <<"file", g>>)
      BY <1>7
    <3>4. y.ofile = pr[p].ofile
      OBVIOUS
    <3> QED BY ONLY <1>6, <3>1, <3>2, <3>3, <3>4
  <2> QED BY ONLY <2>1, Zenon DEF FilesBalance
<1>9. \A x : x # Nothing => Change(x, p) = InTodo(y.todo, x) - InTodo(pr[p].todo, x)
  <2> SUFFICES ASSUME NEW x, x # Nothing PROVE Change(x, p) = InTodo(y.todo, x) - InTodo(pr[p].todo, x)
    OBVIOUS
  <2>1. Change(x, p) = Opens(X, x) - Opens(file[h], x) + InTodo(y.todo, x) - InTodo(pr[p].todo, x)
    BY <1>1, <1>2, <1>4, <1>6, OneFile
  <2>2. Opens(X, x) = 0 /\ Opens(file[h], x) = 0
    BY <1>2, <1>3 DEF Opens, Target, Nothing
  <2> QED BY <2>1, <2>2, TodoNumbers
<1>10. EntriesBalance(p) /\ PipesBalance(p)
  <2>1. ASSUME NEW e \in Names PROVE Change(<<"entry", e>>, p) = 0
    <3>1. PICK x : x = <<"entry", e>>
      OBVIOUS
    <3>2. x # Nothing /\ InTodo(y.todo, x) = InTodo(pr[p].todo, x)
      BY <1>7, <3>1 DEF Nothing
    <3>3. Change(x, p) = InTodo(y.todo, x) - InTodo(pr[p].todo, x)
      BY <1>9, <3>2
    <3>4. Change(x, p) = 0
      BY ONLY <3>2, <3>3, TodoNumbers
    <3> QED BY ONLY <3>1, <3>4
  <2>2. ASSUME NEW i \in DOMAIN pipe, NEW w \in BOOLEAN PROVE Change(<<"end", i, w>>, p) = 0
    <3>1. PICK x : x = <<"end", i, w>>
      OBVIOUS
    <3>2. x # Nothing /\ InTodo(y.todo, x) = InTodo(pr[p].todo, x)
      BY <1>7, <3>1 DEF Nothing
    <3>3. Change(x, p) = InTodo(y.todo, x) - InTodo(pr[p].todo, x)
      BY <1>9, <3>2
    <3>4. Change(x, p) = 0
      BY ONLY <3>2, <3>3, TodoNumbers
    <3> QED BY ONLY <3>1, <3>4
  <2> QED BY <1>1, <2>1, <2>2, KeepsEntries, KeepsPipes
<1>11. Harmless(p) /\ FilesOK(file', pipe', entry')
  <2>1. Harmless(p)
    BY <1>4 DEF Harmless
  <2>2. FilesOK(file', pipe', entry')
    <3>1. FilesOK(file, pipe, entry) /\ pipe' = pipe /\ entry' = entry
      BY <1>1
    <3>2. ASSUME NEW g \in DOMAIN file'
          PROVE  /\ file'[g].type = "none" => file'[g].ref <= 1
                 /\ file'[g].type = "pipe" => file'[g].to \in DOMAIN pipe /\ file'[g].readable = ~file'[g].writable
                 /\ file'[g].type = "entry" => file'[g].to \in Names /\ entry[file'[g].to].bytes # None
                 /\ file'[g].ref = 0 => file'[g].type = "none"
      <4>1. CASE g = h
        <5>1. file'[g].type = "none" /\ file'[g].ref = 1
          BY ONLY <1>3, <1>4, <4>1
        <5> QED BY ONLY <5>1
      <4>2. CASE g # h
        BY <1>4, <3>1, <4>2 DEF FilesOK
      <4> QED BY <4>1, <4>2
    <3> QED BY ONLY <3>1, <3>2, Zenon DEF FilesOK
  <2> QED BY <2>1, <2>2
<1>12. ProcessOK(y, file', entry')
  <2>1. HeadOK(y.todo[1], file', entry')
    <3>1. PICK s : s = y.todo[1] /\ s \in AnyStep
      BY HeadOfTodo DEF Process
    <3>2. s.op \in {"pipe2", "pipe3"} => s.own \in [DOMAIN s.own -> DOMAIN file]
      BY <3>1, ProgramSteps, CallSteps DEF AnyStep, CallOps
    <3>3. /\ s.op \in {"pipe2", "pipe3"} => \A j \in DOMAIN s.own : file[s.own[j]].type = "none"
          /\ s.op = "pipe3" => s.own[1] # s.own[2]
          /\ s.op = "opened" => entry[s.e].bytes # None
      BY <3>1 DEF HeadOK
    <3> QED BY <1>4, <3>1, <3>2, <3>3 DEF HeadOK
  <2>2. \A fd \in Fds : y.ofile[fd] # None => file'[y.ofile[fd]].type # "none"
    <3>1. /\ y.ofile \in [Fds -> {None} \cup DOMAIN file] /\ y.ofile = pr[p].ofile
          /\ \A fd \in DOMAIN pr[p].ofile : pr[p].ofile[fd] # None => file[pr[p].ofile[fd]].type # "none"
      BY <1>1 DEF ProcessOK, Process
    <3> QED BY ONLY <1>4, <3>1
  <2> QED BY <2>1, <2>2 DEF ProcessOK, Process
<1> QED BY <1>5, <1>6, <1>8, <1>10, <1>11, <1>12, Move

LEMMA FreeFile ==
  ASSUME ShIndInv, NEW h \in filealloc
  PROVE  h \in DOMAIN file /\ file[h].ref = 0 /\ file[h].type = "none"
BY Parts DEF filealloc, Lowest, FilesOK

(* dev() and open(): the open file x, with what is undone without it.      *)
Fits(x, s) ==
  /\ x \in OFile /\ x.ref = 1 /\ x.type \in {"device", "entry"}
  /\ \A c : c # Nothing => One(Target(x), c) = Refs(s, c)
  /\ \A g : Refs(s, <<"file", g>>) = 0
KeepsEntry ==
  /\ entry' \in [Names -> AnEntry]
  /\ \A e \in Names : entry'[e].ref = entry[e].ref /\ (entry[e].bytes # None => entry'[e].bytes # None)

LEMMA TakeFileStep ==
  ASSUME ShIndInv, NEW p \in Procs, NEW o, At(p, o), o \notin Undo, NEW x, Fits(x, Now(p)),
         x.type = "entry" => x.to \in Names /\ entry'[x.to].bytes # None,
         NEW before \in Seq(AnyStep), TakeFile(p, x, before), NEW w \in Seq(AnyStep),
         Joins(w, before, Tail(pr[p].todo)), AtMostUndo(w), Alike(pr[p].todo, w), KeepsEntry,
         filealloc = {} \/ fdalloc(pr[p].ofile) = {} => entry' = entry,
         input' = input, UNCHANGED <<load, pipe, out, faults>>
  PROVE  ShIndInv'
<1>1. PICK u : u = Tail(pr[p].todo)
  OBVIOUS
<1>2. pr[p] \in Process /\ pr[p].st = "live" /\ u \in Seq(AnyStep) /\ faults \in Nat /\ -1 \in Int
  BY <1>1, Doing, Parts DEF TypesOK
<1>3. \A fs, es : Shape(w) /\ (w # <<>> => HeadOK(w[1], fs, es))
  BY AfterUndo
<1>4. CASE filealloc = {}
  <2>1. PICK y : y = Ret(p, -1, before) /\ Becomes(p, y) /\ UNCHANGED file
    BY <1>4 DEF TakeFile
  <2>2. y \in Process /\ y.st = "live" /\ y.todo = w /\ y.ofile = pr[p].ofile
    BY ONLY <1>2, <2>1, Proceeds, w \in Seq(AnyStep), Joins(w, before, Tail(pr[p].todo)), p \in Procs
  <2>3. Alike(pr[p].todo, y.todo) /\ Shape(y.todo) /\ (y.todo # <<>> => HeadOK(y.todo[1], file, entry))
    BY <1>3, <2>2
  <2>4. UNCHANGED <<load, file, pipe, entry, out>> /\ faults' \in Nat
    BY <1>2, <1>4, <2>1
  <2> QED BY <2>1, <2>2, <2>3, <2>4, SameRefs
<1>5. ASSUME NEW h \in filealloc, fdalloc(pr[p].ofile) = {}, file' = [file EXCEPT ![h].ref = 1],
             Becomes(p, Ret(p, -1, <<fileclose(h)>> \o before))
      PROVE  ShIndInv'
  <2>1. PICK s : s = fileclose(h)
    OBVIOUS
  <2>2. s \in AnyStep /\ s.op = "fileclose" /\ s.own[1] = h
    BY <1>5, <2>1, FreeFile, NewSteps DEF AnyStep
  <2>3. PICK v : Joins(v, <<s>>, w)
    BY DEF Joins
  <2>4. v \in Seq(AnyStep) /\ v # <<>> /\ v[1] = s /\ Shape(v) /\ Adds(v, s, w)
    <3>1. s.op \in Undo
      BY <2>2 DEF Undo
    <3> QED BY <2>2, <2>3, <3>1, SilentSteps, OneMore
  <2>5. PICK steps : steps = <<s>> \o before
    OBVIOUS
  <2>6. Joins(v, steps, Tail(pr[p].todo))
    <3>1. PICK a : a = <<s>>
      OBVIOUS
    <3>2. v = a \o w /\ w = before \o u /\ Tail(pr[p].todo) = u /\ steps = a \o before
      BY ONLY <1>1, <2>3, <2>5, <3>1, Joins(w, before, Tail(pr[p].todo)), Zenon DEF Joins
    <3>3. a \in Seq(AnyStep)
      BY ONLY <2>2, <3>1
    <3>4. a \o (before \o u) = (a \o before) \o u
      <4>1. before \in Seq(AnyStep) /\ u \in Seq(AnyStep)
        BY ONLY <1>2, before \in Seq(AnyStep)
      <4>2. PICK S : S = AnyStep
        OBVIOUS
      <4>3. a \in Seq(S) /\ before \in Seq(S) /\ u \in Seq(S)
        BY ONLY <3>3, <4>1, <4>2
      <4> QED BY ONLY <4>3, ConcatAssociative, SMTT(60)
    <3>5. v = steps \o Tail(pr[p].todo)
      BY ONLY <3>2, <3>4, Zenon
    <3> QED BY ONLY <3>5, Zenon DEF Joins
  <2>7. PICK y : y = Ret(p, -1, steps) /\ Becomes(p, y)
    BY <1>5, <2>1, <2>5
  <2>8. y \in Process /\ y.st = "live" /\ y.todo = v /\ y.ofile = pr[p].ofile
    BY ONLY <1>2, <2>4, <2>6, <2>7, Proceeds, p \in Procs
  <2>9. Shape(y.todo) /\ y.todo # <<>> /\ HeadOK(y.todo[1], file, entry)
    BY <2>2, <2>4, <2>8 DEF HeadOK
  <2>10. Takes(pr[p].todo, y.todo, h)
    <3> SUFFICES ASSUME NEW c, c # Nothing
                 PROVE  InTodo(v, c) = (IF c = <<"file", h>> THEN 1 ELSE 0) + InTodo(pr[p].todo, c)
      BY <2>8 DEF Takes
    <3>1. InTodo(v, c) = Refs(s, c) + InTodo(w, c) /\ InTodo(w, c) = InTodo(pr[p].todo, c)
      BY <2>4 DEF Adds, Alike
    <3>2. s \in CallStep
      BY <1>5, <2>1, FreeFile, NewSteps
    <3>3. Refs(s, c) = One(<<"file", h>>, c)
      BY <2>2, <3>2, CallRefs
    <3> QED BY <3>1, <3>3 DEF One
  <2>11. h \in DOMAIN file /\ file[h].ref = 0
    BY <1>5, FreeFile
  <2>12. HasRef(file, file', h) /\ UNCHANGED <<load, pipe, entry, out, faults>>
    BY <1>5 DEF HasRef
  <2> QED BY <2>7, <2>8, <2>9, <2>10, <2>11, <2>12, NewFile
<1>6. ASSUME NEW h \in filealloc, NEW fd \in fdalloc(pr[p].ofile), file' = [file EXCEPT ![h] = x],
             Becomes(p, [Ret(p, fd, <<>>) EXCEPT !.ofile[fd] = h])
      PROVE  ShIndInv'
  <2>1. h \in DOMAIN file /\ file[h].ref = 0
    BY <1>6, FreeFile
  <2>2. x \in OFile /\ x.ref = file[h].ref + 1 /\ x.type \in {"device", "entry"}
    BY <2>1 DEF Fits
  <2>3. \A c : c # Nothing => Opens(x, c) - Opens(file[h], c) = Refs(Now(p), c)
    <3> SUFFICES ASSUME NEW c, c # Nothing PROVE Opens(x, c) - Opens(file[h], c) = Refs(Now(p), c)
      OBVIOUS
    <3>1. Opens(x, c) = One(Target(x), c) /\ Opens(file[h], c) = 0
      BY <2>1 DEF Opens, One, Fits
    <3>2. One(Target(x), c) = Refs(Now(p), c) /\ One(Target(x), c) \in Nat
      BY AddOfOne DEF Fits
    <3> QED BY ONLY <3>1, <3>2
  <2>4. \A g : Refs(Now(p), <<"file", g>>) = 0
    BY ONLY Fits(x, Now(p)), Zenon DEF Fits
  <2>5. /\ x.type # "none" /\ x.type # "pipe"
        /\ entry' \in [Names -> AnEntry]
        /\ \A e \in Names : entry'[e].ref = entry[e].ref /\ (entry[e].bytes # None => entry'[e].bytes # None)
    BY <2>2 DEF KeepsEntry
  <2> QED BY <1>6, <2>1, <2>2, <2>3, <2>4, <2>5, GetsFd
<1> QED BY <1>4, <1>5, <1>6 DEF TakeFile

LEMMA DevStep ==
  ASSUME ShIndInv, NEW p \in Procs, Dev(p), input' = input
  PROVE  ShIndInv'
<1>1. At(p, "dev") /\ UNCHANGED <<load, pipe, entry, out, faults>>
  BY DEF Dev
<1>2. PICK x : /\ x = [Closed EXCEPT !.type = "device", !.ref = 1, !.readable = TRUE, !.writable = TRUE]
               /\ TakeFile(p, x, <<>>)
  BY DEF Dev
<1>3. Now(p) \in ProgramStep /\ Plain(Tail(pr[p].todo)) /\ Tail(pr[p].todo) \in Seq(AnyStep) /\ Plain(pr[p].todo)
      /\ pr[p].todo \in Seq(AnyStep)
  <2>1. "dev" \notin Undo
    BY DEF Undo
  <2> QED BY <1>1, <2>1, NoCallOps, Doing DEF Process
<1>4. x.type = "device" /\ Fits(x, Now(p))
  <2>1. x \in OFile /\ x.ref = 1 /\ x.type = "device"
    BY <1>2 DEF Closed, OFile
  <2>2. Target(x) = Nothing
    BY <2>1 DEF Target, Nothing
  <2>3. \A c : c # Nothing => Refs(Now(p), c) = 0
    BY <1>3, ProgramSteps
  <2> QED BY <2>1, <2>2, <2>3 DEF Fits, One, Nothing
<1>5. PICK w : w = Tail(pr[p].todo)
  OBVIOUS
<1>6. PICK b : b = <<>> /\ b \in Seq(AnyStep)
  <2>1. <<>> \in Seq(AnyStep)
    OBVIOUS
  <2> QED BY ONLY <2>1, Zenon
<1>7. w \in Seq(AnyStep) /\ Joins(w, b, Tail(pr[p].todo)) /\ AtMostUndo(w)
  BY <1>3, <1>5, <1>6 DEF Joins, AtMostUndo, Plain
<1>8. Alike(pr[p].todo, w)
  <2> SUFFICES ASSUME NEW c, c # Nothing PROVE InTodo(w, c) = InTodo(pr[p].todo, c)
    BY DEF Alike
  <2>1. InTodo(w, c) = 0 /\ InTodo(pr[p].todo, c) = 0
    BY <1>3, <1>5, SilentSteps, NothingPending
  <2> QED BY <2>1
<1>9. KeepsEntry
  BY <1>1, Parts DEF KeepsEntry, TypesOK
<1>10. "dev" \notin Undo /\ TakeFile(p, x, b)
  BY <1>2, <1>6 DEF Undo
<1> QED BY <1>1, <1>4, <1>6, <1>7, <1>8, <1>9, <1>10, TakeFileStep

LEMMA OpenedStep ==
  ASSUME ShIndInv, NEW p \in Procs, Opened(p), input' = input
  PROVE  ShIndInv'
<1>1. At(p, "opened") /\ UNCHANGED <<load, pipe, out, faults>>
  BY DEF Opened
<1>2. PICK s, u : s = Now(p) /\ u = Tail(pr[p].todo)
  OBVIOUS
<1>3. /\ s \in CallStep /\ s \in AnyStep /\ s.op = "opened" /\ HeadOK(s, file, entry)
      /\ u \in Seq(AnyStep) /\ Plain(u) /\ Adds(pr[p].todo, s, u)
  <2>1. "opened" \in CallOps /\ "opened" \notin Undo
    BY DEF Undo, CallOps
  <2> QED BY <1>1, <1>2, <2>1, Doing
<1>4. PICK e \in Names : e = s.e
  BY <1>3, CallSteps
<1>5. TypesOK /\ entry[e] \in AnEntry /\ entry[e].bytes # None
  BY <1>3, <1>4, Parts DEF HeadOK, TypesOK
<1>6. PICK off : off = IF s.mode = "a" THEN Len(entry[e].bytes) ELSE 0
  OBVIOUS
<1>7. off \in Nat
  BY <1>5, <1>6 DEF AnEntry
<1>8. PICK wr \in BOOLEAN : wr = (s.mode # "r")
  OBVIOUS
<1>9. PICK x : x = [type |-> "entry", ref |-> 1, readable |-> ~wr, writable |-> wr, to |-> e, off |-> off]
  OBVIOUS
<1>10. PICK b : b = <<eput(e)>>
  OBVIOUS
<1>11. /\ TakeFile(p, x, b)
       /\ entry' = IF s.mode = "w" /\ filealloc # {} /\ fdalloc(pr[p].ofile) # {}
                   THEN [entry EXCEPT ![e].bytes = <<>>] ELSE entry
  <2>1. /\ TakeFile(p, [type |-> "entry", ref |-> 1, readable |-> ~(s.mode # "r"), writable |-> (s.mode # "r"),
                        to |-> s.e, off |-> IF s.mode = "a" THEN Len(entry[s.e].bytes) ELSE 0], <<eput(s.e)>>)
        /\ entry' = IF s.mode = "w" /\ filealloc # {} /\ fdalloc(pr[p].ofile) # {}
                    THEN [entry EXCEPT ![s.e].bytes = <<>>] ELSE entry
    BY <1>2 DEF Opened
  <2> QED BY <1>4, <1>6, <1>8, <1>9, <1>10, <2>1
<1>12. x \in OFile /\ x.ref = 1 /\ x.type = "entry" /\ x.to = e
  BY <1>7, <1>9 DEF OFile
<1>13. /\ \A c : c # Nothing => Refs(s, c) = One(<<"entry", e>>, c)
       /\ \A g : Refs(s, <<"file", g>>) = 0
  <2>1. \A c : c # Nothing => Refs(s, c) = One(<<"entry", e>>, c)
    BY <1>3, <1>4, CallRefs
  <2>2. ASSUME NEW g PROVE Refs(s, <<"file", g>>) = 0
    <3>1. PICK c : c = <<"file", g>>
      OBVIOUS
    <3>2. c # Nothing /\ One(<<"entry", e>>, c) = 0
      BY <3>1 DEF One, Nothing
    <3> QED BY <2>1, <3>1, <3>2
  <2> QED BY <2>1, <2>2
<1>14. Fits(x, Now(p))
  <2>1. Target(x) = <<"entry", e>>
    BY <1>12 DEF Target
  <2> QED BY <1>2, <1>12, <1>13, <2>1 DEF Fits
<1>15. PICK a : a = eput(e)
  OBVIOUS
<1>16. a \in CallStep /\ a \in AnyStep /\ a.op = "eput" /\ a.e = e
  BY <1>15, NewSteps DEF AnyStep
<1>17. PICK w : Joins(w, b, u)
  BY DEF Joins
<1>18. w \in Seq(AnyStep) /\ w # <<>> /\ w[1] = a /\ Adds(w, a, u) /\ b \in Seq(AnyStep)
  <2>1. Joins(w, <<a>>, u) /\ b = <<a>>
    BY <1>10, <1>15, <1>17
  <2>2. b \in Seq(AnyStep)
    BY <1>16, <2>1
  <2> QED BY <1>3, <1>16, <2>1, <2>2, SilentSteps, OneMore
<1>19. AtMostUndo(w)
  <2> SUFFICES ASSUME NEW k \in DOMAIN w, w[k].op \in CallOps, k # 1 PROVE FALSE
    BY <1>16, <1>18 DEF AtMostUndo
  <2>1. w = <<a>> \o u
    BY <1>10, <1>15, <1>17 DEF Joins
  <2>2. k - 1 \in DOMAIN u /\ w[k] = u[k - 1]
    BY <1>3, <2>1
  <2> QED BY <1>3, <2>2 DEF Plain
<1>20. Alike(pr[p].todo, w)
  <2> SUFFICES ASSUME NEW c, c # Nothing PROVE InTodo(w, c) = InTodo(pr[p].todo, c)
    BY DEF Alike
  <2>1. InTodo(w, c) = Refs(a, c) + InTodo(u, c) /\ InTodo(pr[p].todo, c) = Refs(s, c) + InTodo(u, c)
    BY <1>3, <1>18 DEF Adds
  <2>2. Refs(a, c) = One(<<"entry", e>>, c) /\ Refs(s, c) = One(<<"entry", e>>, c)
    BY <1>13, <1>16, CallRefs
  <2> QED BY <2>1, <2>2
<1>21. KeepsEntry /\ entry'[e].bytes # None
  <2>1. CASE entry' = entry
    BY <1>5, <2>1 DEF KeepsEntry, TypesOK
  <2>2. CASE entry' = [entry EXCEPT ![e].bytes = <<>>]
    <3>1. PICK n : n = <<>>
      OBVIOUS
    <3>2. n \in Seq(Nat) /\ n # None
      <4>1. <<>> \in Seq(Nat)
        OBVIOUS
      <4> QED BY ONLY <3>1, <4>1, NoneAssumption, Zenon
    <3>3. /\ entry' \in [Names -> AnEntry] /\ entry'[e].bytes = n /\ entry'[e].ref = entry[e].ref
          /\ \A d \in Names : d # e => entry'[d] = entry[d]
      <4>1. entry' = [entry EXCEPT ![e].bytes = n] /\ entry \in [Names -> AnEntry]
        BY <1>5, <2>2, <3>1 DEF TypesOK
      <4> QED BY ONLY <3>2, <4>1, e \in Names DEF AnEntry
    <3> QED BY <3>2, <3>3 DEF KeepsEntry
  <2> QED BY <1>11, <2>1, <2>2
<1>22. Joins(w, b, Tail(pr[p].todo)) /\ "opened" \notin Undo
  BY <1>2, <1>17 DEF Undo
<1>23. filealloc = {} \/ fdalloc(pr[p].ofile) = {} => entry' = entry
  BY <1>11
<1>24. x.type = "entry" => x.to \in Names /\ entry'[x.to].bytes # None
  BY <1>12, <1>21
<1> QED BY <1>1, <1>11, <1>14, <1>18, <1>19, <1>20, <1>21, <1>22, <1>23, <1>24, TakeFileStep

LEMMA OpenStep ==
  ASSUME ShIndInv, NEW p \in Procs, Open(p), input' = input
  PROVE  ShIndInv'
<1>1. At(p, "open") /\ UNCHANGED <<load, file, pipe, out, faults>>
  BY DEF Open
<1>2. PICK s, u : s = Now(p) /\ u = Tail(pr[p].todo)
  OBVIOUS
<1>3. /\ s \in ProgramStep /\ s.op = "open" /\ pr[p] \in Process /\ pr[p].st = "live"
      /\ u \in Seq(AnyStep) /\ Plain(u) /\ Plain(pr[p].todo) /\ pr[p].todo \in Seq(AnyStep)
  <2>1. "open" \notin CallOps /\ "open" \notin Undo
    BY DEF Undo, CallOps
  <2> QED BY <1>1, <1>2, <2>1, Doing DEF Process
<1>4. /\ TypesOK /\ pr \in [Procs -> Process] /\ RefsExact /\ PipeEndsOpen
      /\ ProcessOK(pr[p], file, entry) /\ FilesOK(file, pipe, entry)
  BY Parts
<1>5. PICK e \in Names, m \in {"r", "w", "a"} :
        e = s.e /\ m = s.mode /\ [s EXCEPT !.op = "opened"] = [op |-> "opened", e |-> e, mode |-> m]
  BY <1>3, ProgramSteps
<1>6. CASE m = "r" /\ entry[e].bytes = None
  <2>1. Becomes(p, Ret(p, -1, <<>>)) /\ UNCHANGED entry
    BY <1>2, <1>5, <1>6 DEF Open
  <2>2. <<>> \in Seq(ProgramStep) /\ -1 \in Int /\ input' \in Seq(Commands)
    BY <1>4 DEF TypesOK
  <2> QED BY <1>1, <2>1, <2>2, NoCallOps, ProgramGoesOn
<1>7. CASE ~(m = "r" /\ entry[e].bytes = None)
  <2>1. PICK a : a = [op |-> "opened", e |-> e, mode |-> m]
    OBVIOUS
  <2>2. /\ entry' = [entry EXCEPT ![e].ref = @ + 1, ![e].bytes = IF @ = None THEN <<>> ELSE @]
        /\ Becomes(p, Go(p, <<a>>))
    BY <1>2, <1>5, <1>7, <2>1 DEF Open
  <2>3. a \in CallStep /\ a \in AnyStep /\ a.op = "opened" /\ a.e = e
    BY <2>1, NewSteps DEF AnyStep
  <2>4. PICK v : Joins(v, <<a>>, u)
    BY DEF Joins
  <2>5. v \in Seq(AnyStep) /\ v # <<>> /\ v[1] = a /\ Shape(v) /\ Adds(v, a, u)
    BY <1>3, <2>3, <2>4, SilentSteps, OneMore
  <2>6. PICK steps : steps = <<a>>
    OBVIOUS
  <2>7. PICK y : y = Go(p, steps) /\ Becomes(p, y)
    BY <2>2, <2>6
  <2>8. y \in Process /\ y.st = "live" /\ y.todo = v /\ y.ofile = pr[p].ofile
    <3>1. Joins(v, steps, Tail(pr[p].todo)) /\ 0 \in Int /\ p \in Procs
      BY <1>2, <2>4, <2>6
    <3>2. pr[p] \in Process /\ pr[p].st = "live" /\ v \in Seq(AnyStep) /\ y = Go(p, steps)
      BY ONLY <1>3, <2>5, <2>7
    <3> QED BY ONLY <3>1, <3>2, Proceeds
  <2>9. pr' = [pr EXCEPT ![p] = y] /\ pr'[p] = y /\ load' = load
    BY <1>1, <1>4, <2>7 DEF Becomes
  <2>10. PICK n : n = <<>> /\ n \in Seq(Nat) /\ n # None
    <3>1. <<>> \in Seq(Nat)
      OBVIOUS
    <3> QED BY ONLY <3>1, NoneAssumption, Zenon
  <2>11. PICK z : z = [entry[e] EXCEPT !.ref = @ + 1, !.bytes = IF @ = None THEN n ELSE @]
    OBVIOUS
  <2>12. z \in AnEntry /\ z.ref = entry[e].ref + 1 /\ z.bytes # None
    <3>1. entry[e] \in AnEntry
      BY <1>4 DEF TypesOK
    <3>2. PICK r, b : /\ r = entry[e].ref /\ b = entry[e].bytes /\ r \in Nat /\ b \in {None} \cup Seq(Nat)
                      /\ DOMAIN entry[e] = {"ref", "bytes"}
      BY ONLY <3>1 DEF AnEntry
    <3>3. PICK q : q = (IF b = None THEN n ELSE b) /\ q \in Seq(Nat) /\ q # None
      BY ONLY <2>10, <3>2, NoneAssumption, Zenon
    <3>4. z = [ref |-> r + 1, bytes |-> q]
      BY ONLY <2>11, <3>1, <3>2, <3>3 DEF AnEntry
    <3>5. r + 1 \in Nat
      BY ONLY <3>2
    <3> QED BY ONLY <3>2, <3>3, <3>4, <3>5 DEF AnEntry
  <2>13. /\ entry' \in [Names -> AnEntry] /\ entry'[e] = z
         /\ \A d \in Names : d # e => entry'[d] = entry[d]
         /\ \A d \in Names : entry[d].bytes # None => entry'[d].bytes # None
    <3>1. entry' = [entry EXCEPT ![e] = z] /\ entry \in [Names -> AnEntry] /\ e \in Names
      BY <1>4, <2>2, <2>10, <2>11 DEF TypesOK
    <3> QED BY ONLY <2>12, <3>1
  <2>14. TypesOK'
    BY <1>1, <1>4, <2>13 DEF TypesOK, OFile, APipe, AnEntry
  <2>15. /\ \A c : c # Nothing => InTodo(pr[p].todo, c) = 0
         /\ \A c : c # Nothing => InTodo(v, c) = One(<<"entry", e>>, c)
    <3>1. ASSUME NEW c, c # Nothing PROVE InTodo(pr[p].todo, c) = 0 /\ InTodo(v, c) = One(<<"entry", e>>, c)
      <4>1. InTodo(pr[p].todo, c) = 0 /\ InTodo(u, c) = 0
        BY <1>3, <3>1, SilentSteps, NothingPending
      <4>2. InTodo(v, c) = Refs(a, c) + InTodo(u, c)
        BY <2>5, <3>1 DEF Adds
      <4>3. Refs(a, c) = One(<<"entry", e>>, c)
        BY <2>3, <3>1, CallRefs
      <4> QED BY <4>1, <4>2, <4>3, AddOfOne
    <3> QED BY <3>1
  <2>16. FilesBalance(p)
    <3>1. ASSUME NEW g \in DOMAIN file PROVE InTodo(pr'[p].todo, <<"file", g>>) = InTodo(pr[p].todo, <<"file", g>>)
      <4>1. PICK c : c = <<"file", g>>
        OBVIOUS
      <4>2. c # Nothing /\ One(<<"entry", e>>, c) = 0
        BY <4>1 DEF Nothing, One
      <4> QED BY <2>8, <2>9, <2>15, <4>1, <4>2
    <3>2. \A g \in DOMAIN file : file'[g].ref = file[g].ref
      BY <1>1
    <3> QED BY <1>4, <2>8, <2>9, <3>1, <3>2, KeepsFiles
  <2>17. \A c : c # Nothing => Change(c, p) = One(<<"entry", e>>, c)
    <3>1. ASSUME NEW c, c # Nothing PROVE Change(c, p) = One(<<"entry", e>>, c)
      <4>1. Change(c, p) = InTodo(v, c) - InTodo(pr[p].todo, c)
        BY <1>1, <1>4, <2>8, <2>9, SameFiles
      <4>2. InTodo(v, c) = One(<<"entry", e>>, c) /\ InTodo(pr[p].todo, c) = 0
        BY <2>15, <3>1
      <4> QED BY <4>1, <4>2, AddOfOne
    <3> QED BY <3>1
  <2>18. EntriesBalance(p)
    <3>1. ASSUME NEW d \in Names PROVE entry'[d].ref = entry[d].ref + Change(<<"entry", d>>, p)
      <4>1. PICK c : c = <<"entry", d>>
        OBVIOUS
      <4>2. c # Nothing /\ One(<<"entry", e>>, c) = One(e, d)
        BY <4>1 DEF Nothing, One
      <4>3. Change(c, p) = One(e, d)
        BY <2>17, <4>2
      <4>4. entry'[d].ref = entry[d].ref + One(e, d)
        BY <1>4, <2>12, <2>13 DEF One, TypesOK, AnEntry
      <4> QED BY <4>1, <4>3, <4>4
    <3> QED BY ONLY <3>1, Zenon DEF EntriesBalance
  <2>19. PipesBalance(p)
    <3>1. ASSUME NEW i \in DOMAIN pipe, NEW w \in BOOLEAN PROVE Change(<<"end", i, w>>, p) = 0
      <4>1. PICK c : c = <<"end", i, w>>
        OBVIOUS
      <4>2. c # Nothing /\ One(<<"entry", e>>, c) = 0
        BY <4>1 DEF Nothing, One
      <4> QED BY <2>17, <4>1, <4>2
    <3> QED BY <1>1, <1>4, <3>1, KeepsPipes
  <2>20. Harmless(p)
    BY <1>1, <2>13 DEF Harmless
  <2>21. FilesOK(file', pipe', entry')
    BY <1>1, <1>4, <2>13 DEF FilesOK
  <2>22. ProcessOK(y, file', entry')
    <3>1. HeadOK(v[1], file', entry')
      BY <2>3, <2>5, <2>12, <2>13 DEF HeadOK
    <3>2. file' = file
      BY <1>1
    <3> QED BY <1>4, <2>5, <2>8, <3>1, <3>2 DEF ProcessOK
  <2> QED BY <2>8, <2>9, <2>14, <2>16, <2>18, <2>19, <2>20, <2>21, <2>22, Move
<1> QED BY <1>6, <1>7

-----------------------------------------------------------------------------
(* pipe(): files, a page, descriptors.                                     *)
LEMMA Pipe1Step ==
  ASSUME ShIndInv, NEW p \in Procs, Pipe1(p), input' = input
  PROVE  ShIndInv'
<1>1. At(p, "pipe") /\ UNCHANGED <<load, pipe, entry, out, faults>>
  BY DEF Pipe1
<1>2. PICK u : u = Tail(pr[p].todo)
  OBVIOUS
<1>3. /\ pr[p] \in Process /\ pr[p].st = "live"
      /\ u \in Seq(AnyStep) /\ Plain(u) /\ Plain(pr[p].todo) /\ pr[p].todo \in Seq(AnyStep)
  <2>1. "pipe" \notin CallOps /\ "pipe" \notin Undo
    BY DEF Undo, CallOps
  <2> QED BY <1>1, <1>2, <2>1, Doing DEF Process
<1>4. CASE filealloc = {}
  <2>1. Becomes(p, Ret(p, -1, <<>>)) /\ UNCHANGED file
    BY <1>4 DEF Pipe1
  <2>2. <<>> \in Seq(ProgramStep) /\ -1 \in Int /\ input' \in Seq(Commands)
    BY Parts DEF TypesOK
  <2> QED BY <1>1, <2>1, <2>2, NoCallOps, ProgramGoesOn
<1>5. ASSUME NEW h \in filealloc, file' = [file EXCEPT ![h].ref = 1],
             Becomes(p, Go(p, <<[op |-> "pipe2", own |-> <<h>>]>>))
      PROVE  ShIndInv'
  <2>1. h \in DOMAIN file /\ file[h].ref = 0 /\ file[h].type = "none"
    BY <1>5, FreeFile
  <2>2. PICK a : a = [op |-> "pipe2", own |-> <<h>>]
    OBVIOUS
  <2>3. a \in CallStep /\ a \in AnyStep /\ a.op = "pipe2" /\ a.own[1] = h /\ DOMAIN a.own = {1}
    BY <2>1, <2>2, NewSteps DEF AnyStep
  <2>4. PICK v : Joins(v, <<a>>, u)
    BY DEF Joins
  <2>5. v \in Seq(AnyStep) /\ v # <<>> /\ v[1] = a /\ Shape(v) /\ Adds(v, a, u)
    BY <1>3, <2>3, <2>4, SilentSteps, OneMore
  <2>6. PICK steps : steps = <<a>>
    OBVIOUS
  <2>7. PICK y : y = Go(p, steps) /\ Becomes(p, y)
    BY <1>5, <2>2, <2>6
  <2>8. y \in Process /\ y.st = "live" /\ y.todo = v /\ y.ofile = pr[p].ofile
    <3>1. Joins(v, steps, Tail(pr[p].todo)) /\ 0 \in Int /\ p \in Procs
      BY <1>2, <2>4, <2>6
    <3>2. pr[p] \in Process /\ pr[p].st = "live" /\ v \in Seq(AnyStep)
      BY <1>3, <2>5
    <3> QED BY ONLY <2>7, <3>1, <3>2, Proceeds
  <2>9. HeadOK(v[1], file, entry)
    BY <2>1, <2>3, <2>5 DEF HeadOK
  <2>10. Takes(pr[p].todo, v, h)
    <3> SUFFICES ASSUME NEW c, c # Nothing
                 PROVE  InTodo(v, c) = (IF c = <<"file", h>> THEN 1 ELSE 0) + InTodo(pr[p].todo, c)
      BY DEF Takes
    <3>1. InTodo(pr[p].todo, c) = 0 /\ InTodo(u, c) = 0
      BY <1>3, SilentSteps, NothingPending
    <3>2. InTodo(v, c) = Refs(a, c) + InTodo(u, c)
      BY <2>5 DEF Adds
    <3>3. Refs(a, c) = One(<<"file", h>>, c)
      BY <2>3, CallRefs
    <3> QED BY <3>1, <3>2, <3>3 DEF One
  <2>11. HasRef(file, file', h)
    BY <1>5 DEF HasRef
  <2> QED BY <1>1, <2>1, <2>5, <2>7, <2>8, <2>9, <2>10, <2>11, NewFile
<1> QED BY <1>4, <1>5 DEF Pipe1

LEMMA Pipe2Step ==
  ASSUME ShIndInv, NEW p \in Procs, Pipe2(p), input' = input
  PROVE  ShIndInv'
<1>1. At(p, "pipe2") /\ UNCHANGED <<load, pipe, entry, out, faults>>
  BY DEF Pipe2
<1>2. PICK s, u : s = Now(p) /\ u = Tail(pr[p].todo)
  OBVIOUS
<1>3. /\ pr[p] \in Process /\ pr[p].st = "live" /\ s = pr[p].todo[1] /\ pr[p].todo # <<>>
      /\ s \in CallStep /\ s \in AnyStep /\ s.op = "pipe2" /\ HeadOK(s, file, entry)
      /\ u \in Seq(AnyStep) /\ Plain(u) /\ Adds(pr[p].todo, s, u)
  <2>1. "pipe2" \in CallOps /\ "pipe2" \notin Undo
    BY DEF Undo, CallOps
  <2> QED BY <1>1, <1>2, <2>1, Doing
<1>4. PICK rf : rf = s.own[1]
  OBVIOUS
<1>5. rf \in DOMAIN file /\ file[rf].type = "none" /\ file[rf].ref > 0
  <2>1. s.own \in [1..1 -> DOMAIN file]
    BY <1>3, CallSteps
  <2>2. rf \in DOMAIN file /\ Owns(pr[p], rf)
    BY <1>3, <1>4, <2>1 DEF Owns
  <2>3. file[rf].type = "none"
    BY <1>3, <1>4, <2>1 DEF HeadOK
  <2> QED BY <2>2, <2>3, Parts, Holders
<1>6. \A c : c # Nothing => InTodo(pr[p].todo, c) = One(<<"file", rf>>, c) + InTodo(u, c)
  <2>1. ASSUME NEW c, c # Nothing PROVE InTodo(pr[p].todo, c) = One(<<"file", rf>>, c) + InTodo(u, c)
    <3>1. InTodo(pr[p].todo, c) = Refs(s, c) + InTodo(u, c)
      BY <1>3, <2>1 DEF Adds
    <3>2. Refs(s, c) = One(<<"file", rf>>, c)
      BY <1>3, <1>4, <2>1, CallRefs
    <3> QED BY <3>1, <3>2
  <2> QED BY <2>1
<1>7. CASE filealloc = {}
  <2>1. Becomes(p, Ret(p, -1, <<fileclose(rf)>>)) /\ UNCHANGED file
    BY <1>2, <1>4, <1>7 DEF Pipe2
  <2>2. PICK a : a = fileclose(rf)
    OBVIOUS
  <2>3. a \in CallStep /\ a \in AnyStep /\ a.op = "fileclose" /\ a.own[1] = rf
    BY <1>5, <2>2, NewSteps DEF AnyStep
  <2>4. PICK v : Joins(v, <<a>>, u)
    BY DEF Joins
  <2>5. v \in Seq(AnyStep) /\ v # <<>> /\ v[1] = a /\ Shape(v) /\ Adds(v, a, u)
    BY <1>3, <2>3, <2>4, SilentSteps, OneMore
  <2>6. PICK steps : steps = <<a>>
    OBVIOUS
  <2>7. PICK y : y = Ret(p, -1, steps) /\ Becomes(p, y)
    BY <2>1, <2>2, <2>6
  <2>8. y \in Process /\ y.st = "live" /\ y.todo = v /\ y.ofile = pr[p].ofile
    <3>1. Joins(v, steps, Tail(pr[p].todo)) /\ -1 \in Int /\ p \in Procs
      BY <1>2, <2>4, <2>6
    <3>2. pr[p] \in Process /\ pr[p].st = "live" /\ v \in Seq(AnyStep)
      BY <1>3, <2>5
    <3> QED BY ONLY <2>7, <3>1, <3>2, Proceeds
  <2>9. HeadOK(v[1], file, entry)
    BY <2>3, <2>5 DEF HeadOK
  <2>10. Alike(pr[p].todo, v)
    <3> SUFFICES ASSUME NEW c, c # Nothing PROVE InTodo(v, c) = InTodo(pr[p].todo, c)
      BY DEF Alike
    <3>1. InTodo(v, c) = Refs(a, c) + InTodo(u, c)
      BY <2>5 DEF Adds
    <3>2. Refs(a, c) = One(<<"file", rf>>, c)
      BY <2>3, CallRefs
    <3> QED BY <1>6, <3>1, <3>2
  <2>11. faults' \in Nat /\ UNCHANGED <<load, file, pipe, entry, out>>
    BY <1>1, <2>1, Parts DEF TypesOK
  <2> QED BY <2>5, <2>7, <2>8, <2>9, <2>10, <2>11, SameRefs
<1>8. ASSUME NEW h \in filealloc, file' = [file EXCEPT ![h].ref = 1],
             Becomes(p, Go(p, <<[op |-> "pipe3", own |-> <<rf, h>>]>>))
      PROVE  ShIndInv'
  <2>1. h \in DOMAIN file /\ file[h].ref = 0 /\ file[h].type = "none"
    BY <1>8, FreeFile
  <2>2. PICK a : a = [op |-> "pipe3", own |-> <<rf, h>>]
    OBVIOUS
  <2>3. /\ a \in CallStep /\ a \in AnyStep /\ a.op = "pipe3" /\ a.own[1] = rf /\ a.own[2] = h
        /\ DOMAIN a.own = {1, 2}
    BY <1>5, <2>1, <2>2, NewSteps DEF AnyStep
  <2>4. PICK v : Joins(v, <<a>>, u)
    BY DEF Joins
  <2>5. v \in Seq(AnyStep) /\ v # <<>> /\ v[1] = a /\ Shape(v) /\ Adds(v, a, u)
    BY <1>3, <2>3, <2>4, SilentSteps, OneMore
  <2>6. PICK steps : steps = <<a>>
    OBVIOUS
  <2>7. PICK y : y = Go(p, steps) /\ Becomes(p, y)
    BY <1>8, <2>2, <2>6
  <2>8. y \in Process /\ y.st = "live" /\ y.todo = v /\ y.ofile = pr[p].ofile
    <3>1. Joins(v, steps, Tail(pr[p].todo)) /\ 0 \in Int /\ p \in Procs
      BY <1>2, <2>4, <2>6
    <3>2. pr[p] \in Process /\ pr[p].st = "live" /\ v \in Seq(AnyStep)
      BY <1>3, <2>5
    <3> QED BY ONLY <2>7, <3>1, <3>2, Proceeds
  <2>9. HeadOK(v[1], file, entry)
    BY <1>5, <2>1, <2>3, <2>5 DEF HeadOK
  <2>10. Takes(pr[p].todo, v, h)
    <3> SUFFICES ASSUME NEW c, c # Nothing
                 PROVE  InTodo(v, c) = (IF c = <<"file", h>> THEN 1 ELSE 0) + InTodo(pr[p].todo, c)
      BY DEF Takes
    <3>1. InTodo(pr[p].todo, c) = One(<<"file", rf>>, c) + InTodo(u, c)
      BY <1>6
    <3>2. InTodo(v, c) = Refs(a, c) + InTodo(u, c)
      BY <2>5 DEF Adds
    <3>3. Refs(a, c) = One(<<"file", rf>>, c) + One(<<"file", h>>, c)
      BY <2>3, CallRefs
    <3>4. One(<<"file", h>>, c) = IF c = <<"file", h>> THEN 1 ELSE 0
      BY DEF One
    <3>5. One(<<"file", rf>>, c) \in Nat /\ One(<<"file", h>>, c) \in Nat /\ InTodo(u, c) \in Nat
      BY AddOfOne, TodoNumbers
    <3> QED BY <3>1, <3>2, <3>3, <3>4, <3>5
  <2>11. HasRef(file, file', h)
    BY <1>8 DEF HasRef
  <2> QED BY <1>1, <2>1, <2>5, <2>7, <2>8, <2>9, <2>10, <2>11, NewFile
<1> QED BY <1>2, <1>4, <1>7, <1>8 DEF Pipe2

\* a file that has not been opened, and an end of a new pipe
APipeEnd(A, i, w) == A \in OFile /\ A.ref = 1 /\ A.type = "pipe" /\ A.to = i /\ A.readable = ~w /\ A.writable = w
BothEnds(A, B, i) == APipeEnd(A, i, FALSE) /\ APipeEnd(B, i, TRUE)
Two(fs, gs, rf, wf, A, B) ==
  /\ DOMAIN gs = DOMAIN fs /\ gs[rf] = A /\ gs[wf] = B
  /\ \A g \in DOMAIN fs : g # rf /\ g # wf => gs[g] = fs[g]

Opened2(x, p, i) == Change(x, p) = One(<<"end", i, FALSE>>, x) + One(<<"end", i, TRUE>>, x)
                                   + InTodo(pr'[p].todo, x) - InTodo(pr[p].todo, x)
LEMMA NewEnds ==
  ASSUME TypesOK, NEW rf \in DOMAIN file, NEW wf \in DOMAIN file, rf # wf,
         file[rf].type = "none", file[wf].type = "none", NEW i, NEW A, NEW B,
         BothEnds(A, B, i), Two(file, file', rf, wf, A, B),
         NEW p \in Procs, NEW x, x # Nothing
  PROVE  Opened2(x, p, i)
<1>1. PICK gs : gs = [file EXCEPT ![rf] = A]
  OBVIOUS
<1>2. /\ DOMAIN gs = DOMAIN file /\ gs[rf] = A /\ \A g \in DOMAIN file : g # rf => gs[g] = file[g]
  BY <1>1
<1>3. IsFiniteSet(DOMAIN file)
  BY Domains
<1>4. /\ Cardinality(OpenIn(file, x)) \in Nat /\ Cardinality(OpenIn(gs, x)) \in Nat
      /\ Cardinality(OpenIn(gs, x)) = Cardinality(OpenIn(file, x)) - Opens(file[rf], x) + Opens(gs[rf], x)
  BY ONLY <1>2, <1>3, FileChanges, rf \in DOMAIN file
<1>5. /\ Cardinality(OpenIn(gs, x)) \in Nat /\ Cardinality(OpenIn(file', x)) \in Nat
      /\ Cardinality(OpenIn(file', x)) = Cardinality(OpenIn(gs, x)) - Opens(gs[wf], x) + Opens(file'[wf], x)
  <2>1. \A g \in DOMAIN gs : g # wf => file'[g] = gs[g]
    BY <1>2 DEF Two
  <2>2. wf \in DOMAIN gs /\ DOMAIN file' = DOMAIN gs /\ IsFiniteSet(DOMAIN gs)
    BY <1>2, <1>3 DEF Two
  <2> QED BY ONLY <2>1, <2>2, FileChanges
<1>6. /\ Opens(file[rf], x) = 0 /\ Opens(gs[wf], x) = 0
      /\ Opens(gs[rf], x) = One(<<"end", i, FALSE>>, x) /\ Opens(file'[wf], x) = One(<<"end", i, TRUE>>, x)
  <2>1. Target(file[rf]) = Nothing /\ gs[wf] = file[wf] /\ Target(file[wf]) = Nothing
    BY <1>2 DEF Target, Nothing
  <2>2. Target(A) = <<"end", i, FALSE>>
    <3>1. Target(A) = <<"end", A.to, A.writable>>
      BY DEF Target, BothEnds, APipeEnd
    <3> QED BY <3>1 DEF BothEnds, APipeEnd
  <2>3. Target(B) = <<"end", i, TRUE>>
    <3>1. Target(B) = <<"end", B.to, B.writable>>
      BY DEF Target, BothEnds, APipeEnd
    <3> QED BY <3>1 DEF BothEnds, APipeEnd
  <2>4. Opens(file[rf], x) = 0 /\ Opens(file[wf], x) = 0
    BY <2>1 DEF Opens
  <2>5. Opens(A, x) = One(<<"end", i, FALSE>>, x)
    BY <2>2 DEF Opens, One, BothEnds, APipeEnd
  <2>6. Opens(B, x) = One(<<"end", i, TRUE>>, x)
    BY <2>3 DEF Opens, One, BothEnds, APipeEnd
  <2> QED BY <1>2, <2>1, <2>4, <2>5, <2>6 DEF Two
<1>7. /\ One(<<"end", i, FALSE>>, x) \in Nat /\ One(<<"end", i, TRUE>>, x) \in Nat
      /\ InTodo(pr'[p].todo, x) \in Nat /\ InTodo(pr[p].todo, x) \in Nat
  BY AddOfOne, TodoNumbers
<1> QED BY ONLY <1>4, <1>5, <1>6, <1>7 DEF Change, Opened2

\* p's files rf and wf become the ends of the pipe i, whatever p does with them then
Swaps(x, y) == \A g \in DOMAIN file :
  Held(y.ofile, Fds, g) + InTodo(y.todo, <<"file", g>>) = Held(x.ofile, Fds, g) + InTodo(x.todo, <<"file", g>>)
NoEnds(t) == \A x : x # Nothing /\ (\A g \in DOMAIN file : x # <<"file", g>>) => InTodo(t, x) = 0

EndsReady(p, rf, wf, i, A, B) ==
  /\ At(p, "pipe3") /\ rf # wf /\ Owns(pr[p], rf) /\ Owns(pr[p], wf)
  /\ file[rf].type = "none" /\ file[wf].type = "none" /\ ~pipe[i].alloc /\ BothEnds(A, B, i)
EndsMade(rf, wf, i, A, B) ==
  /\ pipe' = [pipe EXCEPT ![i] = [alloc |-> TRUE, readopen |-> TRUE, writeopen |-> TRUE, data |-> <<>>]]
  /\ file' = [file EXCEPT ![rf] = A, ![wf] = B]
EndsGiven(p, y, rf, wf) ==
  /\ y.st = "live" /\ Becomes(p, y) /\ Shape(y.todo) /\ (y.todo # <<>> => HeadOK(y.todo[1], file', entry'))
  /\ \A fd \in Fds : y.ofile[fd] = pr[p].ofile[fd] \/ y.ofile[fd] \in {rf, wf}
  /\ Swaps(pr[p], y) /\ NoEnds(pr[p].todo) /\ NoEnds(y.todo)

LEMMA NewPipe ==
  ASSUME ShIndInv, NEW p \in Procs, NEW rf \in DOMAIN file, NEW wf \in DOMAIN file, NEW i \in DOMAIN pipe,
         NEW A, NEW B, EndsReady(p, rf, wf, i, A, B), EndsMade(rf, wf, i, A, B),
         NEW y \in Process, EndsGiven(p, y, rf, wf),
         input' = input, UNCHANGED <<load, entry, out>>, faults' \in Nat
  PROVE  ShIndInv'
<1>0. /\ At(p, "pipe3") /\ rf # wf /\ Owns(pr[p], rf) /\ Owns(pr[p], wf)
      /\ file[rf].type = "none" /\ file[wf].type = "none" /\ ~pipe[i].alloc
      /\ APipeEnd(A, i, FALSE) /\ APipeEnd(B, i, TRUE)
      /\ pipe' = [pipe EXCEPT ![i] = [alloc |-> TRUE, readopen |-> TRUE, writeopen |-> TRUE, data |-> <<>>]]
      /\ file' = [file EXCEPT ![rf] = A, ![wf] = B]
      /\ y.st = "live" /\ Becomes(p, y) /\ Shape(y.todo) /\ (y.todo # <<>> => HeadOK(y.todo[1], file', entry'))
      /\ \A fd \in Fds : y.ofile[fd] = pr[p].ofile[fd] \/ y.ofile[fd] \in {rf, wf}
      /\ Swaps(pr[p], y) /\ NoEnds(pr[p].todo) /\ NoEnds(y.todo)
  BY DEF EndsReady, EndsMade, EndsGiven, BothEnds
<1> USE <1>0
<1>1. /\ TypesOK /\ pr \in [Procs -> Process] /\ RefsExact /\ PipeEndsOpen
      /\ ProcessOK(pr[p], file, entry) /\ FilesOK(file, pipe, entry)
  BY Parts
<1>2. pr' = [pr EXCEPT ![p] = y] /\ pr'[p] = y /\ load' = load
  BY <1>1 DEF Becomes
<1>3. /\ file' \in [1..load.nfile -> OFile] /\ DOMAIN file' = DOMAIN file /\ file'[rf] = A /\ file'[wf] = B
      /\ \A g \in DOMAIN file : g # rf /\ g # wf => file'[g] = file[g]
  <2>1. file \in [1..load.nfile -> OFile] /\ A \in OFile /\ B \in OFile
    BY <1>1 DEF TypesOK, APipeEnd
  <2> QED BY ONLY <2>1, file' = [file EXCEPT ![rf] = A, ![wf] = B], rf \in DOMAIN file, wf \in DOMAIN file, rf # wf
<1>4. PICK N : /\ N = [alloc |-> TRUE, readopen |-> TRUE, writeopen |-> TRUE, data |-> <<>>]
               /\ pipe' = [pipe EXCEPT ![i] = N]
  OBVIOUS
<1>5. N \in APipe /\ N.alloc = TRUE /\ N.readopen = TRUE /\ N.writeopen = TRUE
  <2>1. <<>> \in Seq(Nat)
    OBVIOUS
  <2> QED BY ONLY <1>4, <2>1 DEF APipe
<1>6. /\ pipe' \in [1..load.npipe -> APipe] /\ DOMAIN pipe' = DOMAIN pipe /\ pipe'[i] = N
      /\ \A j \in DOMAIN pipe : j # i => pipe'[j] = pipe[j]
  <2>1. pipe \in [1..load.npipe -> APipe]
    BY <1>1 DEF TypesOK
  <2> QED BY ONLY <1>4, <1>5, <2>1, i \in DOMAIN pipe
<1>7. TypesOK'
  BY <1>1, <1>2, <1>3, <1>6 DEF TypesOK, OFile, APipe, AnEntry
<1>8. /\ A.ref = 1 /\ A.type = "pipe" /\ A.to = i /\ A.writable = FALSE /\ A.readable = TRUE
      /\ B.ref = 1 /\ B.type = "pipe" /\ B.to = i /\ B.writable = TRUE /\ B.readable = FALSE
  BY DEF APipeEnd
<1>9. file[rf].ref = 1 /\ file[wf].ref = 1
  <2>1. file[rf].ref > 0 /\ file[wf].ref > 0
    BY <1>1, Holders
  <2>2. file[rf].ref <= 1 /\ file[wf].ref <= 1 /\ file[rf].ref \in Nat /\ file[wf].ref \in Nat
    BY <1>1 DEF FilesOK, TypesOK, OFile
  <2> QED BY ONLY <2>1, <2>2
<1>10. FilesBalance(p)
  <2>1. ASSUME NEW g \in DOMAIN file
        PROVE  file'[g].ref = file[g].ref - Held(pr[p].ofile, Fds, g) - InTodo(pr[p].todo, <<"file", g>>)
                 + Held(pr'[p].ofile, Fds, g) + InTodo(pr'[p].todo, <<"file", g>>)
    <3>1. file'[g].ref = file[g].ref
      BY <1>3, <1>8, <1>9
    <3>2. file[g].ref \in Nat
      BY <1>1 DEF TypesOK, OFile
    <3>3. Held(y.ofile, Fds, g) + InTodo(y.todo, <<"file", g>>)
            = Held(pr[p].ofile, Fds, g) + InTodo(pr[p].todo, <<"file", g>>)
      BY DEF Swaps
    <3>4. /\ Held(y.ofile, Fds, g) \in Nat /\ InTodo(y.todo, <<"file", g>>) \in Nat
          /\ Held(pr[p].ofile, Fds, g) \in Nat /\ InTodo(pr[p].todo, <<"file", g>>) \in Nat
      BY <1>1, HeldNumbers, TodoNumbers
    <3> QED BY ONLY <1>2, <3>1, <3>2, <3>3, <3>4
  <2> QED BY ONLY <2>1, Zenon DEF FilesBalance
<1>11. ASSUME NEW x, x # Nothing, \A g \in DOMAIN file : x # <<"file", g>>
       PROVE  Change(x, p) = One(<<"end", i, FALSE>>, x) + One(<<"end", i, TRUE>>, x)
  <2>1. Change(x, p) = One(<<"end", i, FALSE>>, x) + One(<<"end", i, TRUE>>, x)
                        + InTodo(y.todo, x) - InTodo(pr[p].todo, x)
    <3>1. /\ TypesOK /\ file[rf].type = "none" /\ file[wf].type = "none" /\ rf # wf
          /\ BothEnds(A, B, i) /\ x # Nothing
      BY <1>1, <1>11 DEF BothEnds
    <3>2. Two(file, file', rf, wf, A, B)
      BY <1>3 DEF Two
    <3>3. Opened2(x, p, i)
      BY ONLY <3>1, <3>2, NewEnds, p \in Procs, rf \in DOMAIN file, wf \in DOMAIN file
    <3> QED BY ONLY <1>2, <3>3 DEF Opened2
  <2>2. InTodo(y.todo, x) = 0 /\ InTodo(pr[p].todo, x) = 0
    BY <1>11 DEF NoEnds
  <2>3. One(<<"end", i, FALSE>>, x) \in Nat /\ One(<<"end", i, TRUE>>, x) \in Nat
    BY AddOfOne
  <2> QED BY ONLY <2>1, <2>2, <2>3
<1>12. EntriesBalance(p)
  <2>1. ASSUME NEW e \in Names PROVE Change(<<"entry", e>>, p) = 0
    <3>1. PICK x : x = <<"entry", e>>
      OBVIOUS
    <3>2. /\ x # Nothing /\ \A g \in DOMAIN file : x # <<"file", g>>
          /\ One(<<"end", i, FALSE>>, x) = 0 /\ One(<<"end", i, TRUE>>, x) = 0
      BY <3>1 DEF Nothing, One
    <3> QED BY <1>11, <3>1, <3>2
  <2>2. \A e \in Names : entry'[e].ref = entry[e].ref
    OBVIOUS
  <2> QED BY <1>1, <2>1, <2>2, KeepsEntries
<1>13. PipesBalance(p)
  <2>1. ASSUME NEW j \in DOMAIN pipe
        PROVE  /\ Flag(pipe'[j].writeopen) = Flag(pipe[j].writeopen) + Change(<<"end", j, TRUE>>, p)
               /\ Flag(pipe'[j].readopen) = Flag(pipe[j].readopen) + Change(<<"end", j, FALSE>>, p)
               /\ pipe'[j].alloc = (pipe'[j].readopen \/ pipe'[j].writeopen)
    <3>1. PICK xw, xr : xw = <<"end", j, TRUE>> /\ xr = <<"end", j, FALSE>>
      OBVIOUS
    <3>2. /\ xw # Nothing /\ \A g \in DOMAIN file : xw # <<"file", g>>
          /\ xr # Nothing /\ \A g \in DOMAIN file : xr # <<"file", g>>
      BY <3>1 DEF Nothing
    <3>3. /\ Change(xw, p) = One(<<"end", i, FALSE>>, xw) + One(<<"end", i, TRUE>>, xw)
          /\ Change(xr, p) = One(<<"end", i, FALSE>>, xr) + One(<<"end", i, TRUE>>, xr)
      BY <1>11, <3>2
    <3>4. /\ One(<<"end", i, FALSE>>, xw) = 0 /\ One(<<"end", i, TRUE>>, xw) = One(i, j)
          /\ One(<<"end", i, TRUE>>, xr) = 0 /\ One(<<"end", i, FALSE>>, xr) = One(i, j)
      BY <3>1 DEF One
    <3>5. Change(xw, p) = One(i, j) /\ Change(xr, p) = One(i, j)
      BY <3>3, <3>4, AddOfOne
    <3>6. pipe[j] \in APipe /\ pipe[j].alloc = (pipe[j].readopen \/ pipe[j].writeopen)
      BY <1>1 DEF TypesOK, PipeEndsOpen
    <3>7. CASE j = i
      <4>1. ~pipe[j].readopen /\ ~pipe[j].writeopen
        BY <3>6, <3>7 DEF APipe
      <4>2. One(i, j) = 1 /\ Flag(pipe[j].readopen) = 0 /\ Flag(pipe[j].writeopen) = 0
        BY <3>7, <4>1 DEF One, Flag
      <4>3. Flag(pipe'[j].readopen) = 1 /\ Flag(pipe'[j].writeopen) = 1 /\ pipe'[j] = N
        BY <1>5, <1>6, <3>7 DEF Flag
      <4>4. /\ Flag(pipe'[j].writeopen) = Flag(pipe[j].writeopen) + Change(xw, p)
            /\ Flag(pipe'[j].readopen) = Flag(pipe[j].readopen) + Change(xr, p)
        BY ONLY <3>5, <4>2, <4>3
      <4> QED BY ONLY <1>5, <3>1, <4>3, <4>4
    <3>8. CASE j # i
      <4>1. One(i, j) = 0 /\ pipe'[j] = pipe[j]
        BY <1>6, <3>8 DEF One
      <4>2. \A b : Flag(b) + 0 = Flag(b)
        BY DEF Flag
      <4> QED BY <3>1, <3>5, <3>6, <4>1, <4>2
    <3> QED BY <3>7, <3>8
  <2> QED BY ONLY <2>1, Zenon DEF PipesBalance
<1>14. Harmless(p)
  <2>1. ASSUME NEW q \in Procs, NEW g \in DOMAIN file, q # p
        PROVE  /\ file[g].type # "none" /\ HasFd(pr[q], g) => file'[g].type # "none"
               /\ file[g].type = "none" /\ Owns(pr[q], g) => file'[g].type = "none"
    <3>1. CASE g = rf \/ g = wf
      <4>1. ~Owns(pr[q], g) /\ file[g].type = "none"
        BY <1>1, <1>9, <2>1, <3>1, Holders
      <4> QED BY <4>1
    <3>2. CASE g # rf /\ g # wf
      BY <1>3, <3>2
    <3> QED BY <3>1, <3>2
  <2>2. \A e \in Names : entry[e].bytes # None => entry'[e].bytes # None
    OBVIOUS
  <2> QED BY <2>1, <2>2 DEF Harmless
<1>15. FilesOK(file', pipe', entry')
  <2>1. ASSUME NEW g \in DOMAIN file'
        PROVE  /\ file'[g].type = "none" => file'[g].ref <= 1
               /\ file'[g].type = "pipe" => file'[g].to \in DOMAIN pipe' /\ file'[g].readable = ~file'[g].writable
               /\ file'[g].type = "entry" => file'[g].to \in Names /\ entry'[file'[g].to].bytes # None
               /\ file'[g].ref = 0 => file'[g].type = "none"
    <3>1. CASE g = rf \/ g = wf
      <4>1. /\ file'[g].type = "pipe" /\ file'[g].ref = 1 /\ file'[g].to \in DOMAIN pipe'
            /\ file'[g].readable = ~file'[g].writable
        <5>1. file'[g] = A \/ file'[g] = B
          BY <1>3, <3>1
        <5> QED BY ONLY <1>6, <1>8, <5>1, i \in DOMAIN pipe
      <4> QED BY ONLY <4>1
    <3>2. CASE g # rf /\ g # wf
      <4>1. file'[g] = file[g] /\ g \in DOMAIN file
        BY <1>3, <3>2
      <4>2. entry' = entry
        OBVIOUS
      <4>3. /\ file[g].type = "none" => file[g].ref <= 1
            /\ file[g].type = "pipe" => file[g].to \in DOMAIN pipe /\ file[g].readable = ~file[g].writable
            /\ file[g].type = "entry" => file[g].to \in Names /\ entry[file[g].to].bytes # None
            /\ file[g].ref = 0 => file[g].type = "none"
        BY <1>1, <4>1 DEF FilesOK
      <4>4. DOMAIN pipe' = DOMAIN pipe
        BY <1>6
      <4> QED BY ONLY <4>1, <4>2, <4>3, <4>4
    <3> QED BY <3>1, <3>2
  <2> QED BY ONLY <2>1, Zenon DEF FilesOK
<1>16. ProcessOK(y, file', entry')
  <2>1. DOMAIN y.ofile = Fds /\ pr[p].ofile \in [Fds -> {None} \cup DOMAIN file]
    BY <1>1 DEF Process
  <2>2. ASSUME NEW fd \in Fds, y.ofile[fd] # None PROVE file'[y.ofile[fd]].type # "none"
    <3>1. CASE y.ofile[fd] \in {rf, wf}
      BY <1>3, <1>8, <3>1
    <3>2. CASE y.ofile[fd] \notin {rf, wf}
      <4>1. y.ofile[fd] = pr[p].ofile[fd] /\ y.ofile[fd] \in DOMAIN file
        BY <2>1, <2>2, <3>2
      <4>2. file[y.ofile[fd]].type # "none"
        BY <1>1, <2>1, <2>2, <4>1 DEF ProcessOK
      <4> QED BY <1>3, <3>2, <4>1, <4>2
    <3> QED BY <3>1, <3>2
  <2> QED BY <2>1, <2>2 DEF ProcessOK
<1> QED BY <1>2, <1>7, <1>10, <1>12, <1>13, <1>14, <1>15, <1>16, Move

\* at most one number is the lowest
LEMMA OneLowest ==
  ASSUME NEW S, S \subseteq Nat, NEW a \in Lowest(S), NEW b \in Lowest(S)
  PROVE  a = b /\ a \in S
<1>1. a \in Nat /\ b \in Nat /\ a <= b /\ b <= a /\ a \in S
  BY DEF Lowest
<1> QED BY ONLY <1>1

\* the descriptors pipe() takes: one, then another
FirstFd(o, F, T) == T = Lowest({fd \in F : o[fd] = None})
SecondFd(o, F, T, rf, U) ==
  U = IF T = {} THEN {} ELSE Lowest({fd \in F : [d \in F |-> IF d \in T THEN rf ELSE o[d]][fd] = None})
TakesTwo(F, o, T, U) ==
  /\ T \subseteq F /\ U \subseteq F
  /\ \A fd \in T \cup U : o[fd] = None
  /\ \A a \in T, b \in U : T = {a} /\ U = {b} /\ a # b
AllNumbers(F) == F \subseteq Nat
LEMMA TwoDescriptors ==
  ASSUME NEW F, AllNumbers(F), NEW o, NEW T, NEW U, NEW rf, rf # None, FirstFd(o, F, T), SecondFd(o, F, T, rf, U)
  PROVE  TakesTwo(F, o, T, U)
<1>0. F \subseteq Nat
  BY DEF AllNumbers
<1>1. T \subseteq F /\ \A fd \in T : o[fd] = None
  BY DEF FirstFd, Lowest
<1>2. U \subseteq F /\ \A fd \in U : o[fd] = None /\ fd \notin T
  BY <1>1 DEF SecondFd, Lowest
<1>3. ASSUME NEW a \in T, NEW b \in U PROVE T = {a} /\ U = {b} /\ a # b
  <2>1. T = {a}
    <3>1. ASSUME NEW c \in T PROVE c = a
      <4>1. PICK S : S = {fd \in F : o[fd] = None}
        OBVIOUS
      <4>2. S \subseteq Nat /\ a \in Lowest(S) /\ c \in Lowest(S)
        BY <4>1, <1>0, <1>3, <3>1 DEF FirstFd
      <4> QED BY ONLY <4>2, OneLowest
    <3> QED BY <1>3, <3>1
  <2>2. U = {b}
    <3>1. ASSUME NEW c \in U PROVE c = b
      <4>1. PICK S : S = {fd \in F : [d \in F |-> IF d \in T THEN rf ELSE o[d]][fd] = None}
        OBVIOUS
      <4>2. S \subseteq Nat /\ b \in Lowest(S) /\ c \in Lowest(S)
        <5>1. T # {}
          BY <1>3
        <5>2. U = Lowest(S)
          BY <4>1, <5>1 DEF SecondFd
        <5> QED BY <4>1, <5>2, <1>0, <1>3, <3>1
      <4> QED BY ONLY <4>2, OneLowest
    <3> QED BY <1>3, <3>1
  <2> QED BY <2>1, <2>2, <1>2, <1>3
<1> QED BY <1>1, <1>2, <1>3 DEF TakesTwo

\* what is left of pipe() when it gives up both files
HoldsBoth(t, rf, wf) == \A c : c # Nothing => InTodo(t, c) = One(<<"file", rf>>, c) + One(<<"file", wf>>, c)
Settles(t, rf, wf, v) ==
  v \in Seq(AnyStep) /\ v # <<>> /\ Shape(v) /\ Alike(t, v) /\ v[1] = fileclose(rf)
LEMMA GivesUpBoth ==
  ASSUME ShIndInv, NEW p \in Procs, At(p, "pipe3"), NEW rf, NEW wf,
         rf = Now(p).own[1], wf = Now(p).own[2]
  PROVE  /\ rf \in DOMAIN file /\ wf \in DOMAIN file /\ rf # wf /\ Owns(pr[p], rf) /\ Owns(pr[p], wf)
         /\ file[rf].type = "none" /\ file[wf].type = "none" /\ rf # None
         /\ pr[p] \in Process /\ pr[p].st = "live" /\ Tail(pr[p].todo) \in Seq(AnyStep) /\ Plain(Tail(pr[p].todo))
         /\ HoldsBoth(pr[p].todo, rf, wf)
         /\ \A v : Joins(v, <<fileclose(rf), fileclose(wf)>>, Tail(pr[p].todo)) => Settles(pr[p].todo, rf, wf, v)
<1>1. PICK s, u : s = Now(p) /\ u = Tail(pr[p].todo)
  OBVIOUS
<1>2. /\ pr[p] \in Process /\ pr[p].st = "live" /\ s = pr[p].todo[1] /\ pr[p].todo # <<>>
      /\ s \in CallStep /\ s \in AnyStep /\ s.op = "pipe3" /\ HeadOK(s, file, entry)
      /\ u \in Seq(AnyStep) /\ Plain(u) /\ Adds(pr[p].todo, s, u)
  <2>1. "pipe3" \in CallOps /\ "pipe3" \notin Undo
    BY DEF Undo, CallOps
  <2> QED BY <1>1, <2>1, Doing
<1>3. s.own \in [1..2 -> DOMAIN file] /\ DOMAIN s.own = {1, 2} /\ rf = s.own[1] /\ wf = s.own[2]
  <2>1. s.own \in [1..2 -> DOMAIN file]
    BY <1>2, CallSteps
  <2> QED BY <1>1, <2>1
<1>4. /\ rf \in DOMAIN file /\ wf \in DOMAIN file /\ rf # wf /\ Owns(pr[p], rf) /\ Owns(pr[p], wf)
      /\ file[rf].type = "none" /\ file[wf].type = "none"
  BY <1>2, <1>3 DEF Owns, HeadOK
<1>5. rf # None
  <2>1. load \in Loads /\ DOMAIN file = 1..load.nfile
    BY Parts DEF TypesOK
  <2> QED BY <1>4, <2>1, LoadsAssumption
<1>6. ASSUME NEW c, c # Nothing
      PROVE  /\ InTodo(pr[p].todo, c) = One(<<"file", rf>>, c) + One(<<"file", wf>>, c) + InTodo(u, c)
             /\ InTodo(u, c) = 0
  <2>1. InTodo(pr[p].todo, c) = Refs(s, c) + InTodo(u, c)
    BY <1>2, <1>6 DEF Adds
  <2>2. Refs(s, c) = One(<<"file", rf>>, c) + One(<<"file", wf>>, c)
    BY <1>2, <1>3, <1>6, CallRefs
  <2>3. InTodo(u, c) = 0
    BY <1>2, <1>6, SilentSteps, NothingPending
  <2> QED BY <2>1, <2>2, <2>3
<1>7. ASSUME NEW c, c # Nothing
      PROVE  InTodo(pr[p].todo, c) = One(<<"file", rf>>, c) + One(<<"file", wf>>, c)
  BY <1>6, <1>7, AddOfOne
<1>8. ASSUME NEW v, Joins(v, <<fileclose(rf), fileclose(wf)>>, u)
      PROVE  v \in Seq(AnyStep) /\ v # <<>> /\ Shape(v) /\ Alike(pr[p].todo, v) /\ v[1] = fileclose(rf)
  <2>1. PICK a, b : a = fileclose(rf) /\ b = fileclose(wf)
    OBVIOUS
  <2>2. /\ a \in CallStep /\ a \in AnyStep /\ a.op = "fileclose" /\ a.own[1] = rf
        /\ b \in CallStep /\ b \in AnyStep /\ b.op = "fileclose" /\ b.own[1] = wf
        /\ a.op \in Undo /\ b.op \in {"fileclose", "eput"}
    BY <1>4, <2>1, NewSteps DEF AnyStep, Undo
  <2>3. Joins(v, <<a, b>>, u)
    BY <1>8, <2>1
  <2>4. /\ v \in Seq(AnyStep) /\ v # <<>> /\ v[1] = a /\ Shape(v)
        /\ \A x : x # Nothing => InTodo(v, x) = Refs(a, x) + Refs(b, x) + InTodo(u, x)
    BY ONLY <1>2, <2>2, <2>3, SilentSteps, TwoMore
  <2>5. Alike(pr[p].todo, v)
    <3> SUFFICES ASSUME NEW c, c # Nothing PROVE InTodo(v, c) = InTodo(pr[p].todo, c)
      BY DEF Alike
    <3>1. InTodo(v, c) = Refs(a, c) + Refs(b, c) + InTodo(u, c)
      BY <2>4
    <3>2. Refs(a, c) = One(<<"file", rf>>, c) /\ Refs(b, c) = One(<<"file", wf>>, c)
      BY <2>2, CallRefs
    <3>3. InTodo(pr[p].todo, c) = One(<<"file", rf>>, c) + One(<<"file", wf>>, c) + InTodo(u, c)
      BY <1>6
    <3> QED BY <3>1, <3>2, <3>3
  <2> QED BY <2>1, <2>4, <2>5
<1>9. HoldsBoth(pr[p].todo, rf, wf)
  BY ONLY <1>7 DEF HoldsBoth
<1>10. \A v : Joins(v, <<fileclose(rf), fileclose(wf)>>, Tail(pr[p].todo)) => Settles(pr[p].todo, rf, wf, v)
  BY ONLY <1>1, <1>8, Zenon DEF Settles
<1>11. Tail(pr[p].todo) \in Seq(AnyStep) /\ Plain(Tail(pr[p].todo))
  BY ONLY <1>1, <1>2
<1> QED BY ONLY <1>2, <1>4, <1>5, <1>9, <1>10, <1>11

EndOf(i, w) == [Closed EXCEPT !.type = "pipe", !.ref = 1, !.readable = ~w, !.writable = w, !.to = i]
LEMMA NewEndsAreEnds ==
  ASSUME NEW i \in 1..load.npipe
  PROVE  BothEnds(EndOf(i, FALSE), EndOf(i, TRUE), i)
<1>1. APipeEnd(EndOf(i, FALSE), i, FALSE)
  BY DEF EndOf, APipeEnd, Closed, OFile
<1>2. APipeEnd(EndOf(i, TRUE), i, TRUE)
  BY DEF EndOf, APipeEnd, Closed, OFile
<1> QED BY <1>1, <1>2 DEF BothEnds

LEMMA Pipe3Step ==
  ASSUME ShIndInv, NEW p \in Procs, Pipe3(p), input' = input
  PROVE  ShIndInv'
<1>1. At(p, "pipe3") /\ UNCHANGED <<load, entry, out>>
  BY ZenonT(60) DEF Pipe3
<1>2. PICK rf, wf, u : rf = Now(p).own[1] /\ wf = Now(p).own[2] /\ u = Tail(pr[p].todo)
  OBVIOUS
<1>3. /\ rf \in DOMAIN file /\ wf \in DOMAIN file /\ rf # wf /\ Owns(pr[p], rf) /\ Owns(pr[p], wf)
      /\ file[rf].type = "none" /\ file[wf].type = "none" /\ rf # None
      /\ pr[p] \in Process /\ pr[p].st = "live" /\ u \in Seq(AnyStep) /\ Plain(u)
  BY <1>1, <1>2, GivesUpBoth
<1>4. HoldsBoth(pr[p].todo, rf, wf)
  BY <1>1, <1>2, GivesUpBoth
<1>5. PICK steps : steps = <<fileclose(rf), fileclose(wf)>>
  OBVIOUS
<1>6. PICK v : Joins(v, steps, u)
  BY DEF Joins
<1>7. v \in Seq(AnyStep) /\ v # <<>> /\ Shape(v) /\ Alike(pr[p].todo, v) /\ v[1] = fileclose(rf)
  <2>1. Settles(pr[p].todo, rf, wf, v)
    BY <1>1, <1>2, <1>5, <1>6, GivesUpBoth
  <2> QED BY <2>1 DEF Settles
<1>8. \A fs, es : HeadOK(v[1], fs, es)
  <2>1. v[1].op = "fileclose"
    BY ONLY <1>7 DEF fileclose
  <2> QED BY <2>1 DEF HeadOK
<1>9. PICK fd0, fd1 :
        FirstFd(pr[p].ofile, Fds, fd0) /\ SecondFd(pr[p].ofile, Fds, fd0, rf, fd1)
  BY DEF FirstFd, SecondFd
<1>10. /\ fd0 \subseteq Fds /\ fd1 \subseteq Fds /\ \A fd \in fd0 \cup fd1 : pr[p].ofile[fd] = None
       /\ \A a \in fd0, b \in fd1 : fd0 = {a} /\ fd1 = {b} /\ a # b
  <2>1. AllNumbers(Fds)
    BY DEF Fds, AllNumbers
  <2>2. TakesTwo(Fds, pr[p].ofile, fd0, fd1)
    BY ONLY <1>3, <1>9, <2>1, TwoDescriptors
  <2> QED BY <2>2 DEF TakesTwo
<1>11. PICK x : x = [pr[p] EXCEPT !.ofile = [fd \in Fds |-> IF fd \in fd0 THEN rf ELSE IF fd \in fd1 THEN wf ELSE @[fd]]]
  OBVIOUS
<1>12. ASSUME Becomes(p, Ret(p, -1, steps)), UNCHANGED <<file, pipe, faults>>
       PROVE  ShIndInv'
  <2>1. PICK y : y = Ret(p, -1, steps) /\ Becomes(p, y)
    BY <1>12
  <2>2. y \in Process /\ y.st = "live" /\ y.todo = v /\ y.ofile = pr[p].ofile
    <3>1. Joins(v, steps, Tail(pr[p].todo)) /\ -1 \in Int /\ p \in Procs
      BY <1>2, <1>6
    <3>2. pr[p] \in Process /\ pr[p].st = "live" /\ v \in Seq(AnyStep)
      BY <1>3, <1>7
    <3> QED BY ONLY <2>1, <3>1, <3>2, Proceeds
  <2>3. faults' \in Nat /\ UNCHANGED <<load, file, pipe, entry, out>>
    BY <1>1, <1>12, Parts DEF TypesOK
  <2> QED BY <1>7, <1>8, <2>1, <2>2, <2>3, SameRefs
<1>13. ASSUME NEW i \in DOMAIN pipe, ~pipe[i].alloc
       PROVE  EndsReady(p, rf, wf, i, EndOf(i, FALSE), EndOf(i, TRUE))
  <2>1. i \in 1..load.npipe
    BY <1>13, Parts DEF TypesOK
  <2> QED BY <1>1, <1>3, <1>13, <2>1, NewEndsAreEnds DEF EndsReady
<1>14. NoEnds(pr[p].todo)
  <2> SUFFICES ASSUME NEW c, c # Nothing, \A g \in DOMAIN file : c # <<"file", g>>
               PROVE  InTodo(pr[p].todo, c) = 0
    BY DEF NoEnds
  <2>1. InTodo(pr[p].todo, c) = One(<<"file", rf>>, c) + One(<<"file", wf>>, c)
    BY <1>4 DEF HoldsBoth
  <2>2. One(<<"file", rf>>, c) = 0 /\ One(<<"file", wf>>, c) = 0
    BY <1>3 DEF One
  <2> QED BY <2>1, <2>2
<1>15. pr[p].ofile \in [Fds -> {None} \cup DOMAIN file] /\ TypesOK
  BY <1>3, Parts DEF Process
<1>16. ASSUME NEW i \in DOMAIN pipe, ~pipe[i].alloc, EndsMade(rf, wf, i, EndOf(i, FALSE), EndOf(i, TRUE)),
              NEW fds, fds = fd0 \cup fd1, Becomes(p, PipeFails(x, rf, wf, fds)), faults' \in Nat
       PROVE  ShIndInv'
  <2>1. PICK y : y = [pr[p] EXCEPT !.ret = -1, !.todo = v]
    OBVIOUS
  <2>2. y \in Process /\ y.st = "live" /\ y.todo = v /\ y.ofile = pr[p].ofile
    <3>1. -1 \in Int
      OBVIOUS
    <3> QED BY ONLY <1>3, <1>7, <2>1, <3>1 DEF Process
  <2>3. PipeFails(x, rf, wf, fds) = y
    <3>1. x.ofile = [fd \in Fds |-> IF fd \in fd0 THEN rf ELSE IF fd \in fd1 THEN wf ELSE pr[p].ofile[fd]]
      BY <1>3, <1>11 DEF Process
    <3>2. [fd \in Fds |-> IF fd \in fds THEN None ELSE x.ofile[fd]] = pr[p].ofile
      <4>1. \A fd \in Fds : (IF fd \in fds THEN None ELSE x.ofile[fd]) = pr[p].ofile[fd]
        BY ONLY <1>10, <1>16, <3>1
      <4>2. pr[p].ofile = [fd \in Fds |-> pr[p].ofile[fd]]
        BY <1>15
      <4> QED BY ONLY <4>1, <4>2
    <3>3. x = [pr[p] EXCEPT !.ofile = x.ofile] /\ x.todo = pr[p].todo
      BY ONLY <1>3, <1>11 DEF Process
    <3>4. v = <<fileclose(rf), fileclose(wf)>> \o Tail(x.todo)
      BY <1>2, <1>5, <1>6, <3>3 DEF Joins
    <3>5. PipeFails(x, rf, wf, fds) = [x EXCEPT !.ret = -1, !.todo = v, !.ofile = pr[p].ofile]
      BY ONLY <3>2, <3>4 DEF PipeFails
    <3> QED BY ONLY <1>3, <2>1, <3>3, <3>5 DEF Process
  <2>4. \A c : c # Nothing => InTodo(y.todo, c) = InTodo(pr[p].todo, c)
    BY <1>7, <2>2 DEF Alike
  <2>5. Swaps(pr[p], y) /\ NoEnds(y.todo)
    <3>1. Swaps(pr[p], y)
      BY <2>2, <2>4 DEF Swaps, Nothing
    <3>2. NoEnds(y.todo)
      BY <1>14, <2>4 DEF NoEnds
    <3> QED BY <3>1, <3>2
  <2>6. EndsGiven(p, y, rf, wf)
    BY <1>7, <1>8, <1>14, <1>16, <2>2, <2>3, <2>5 DEF EndsGiven
  <2>7. EndsReady(p, rf, wf, i, EndOf(i, FALSE), EndOf(i, TRUE)) /\ UNCHANGED <<load, entry, out>>
    BY <1>1, <1>13, <1>16
  <2> QED BY <1>3, <1>16, <2>2, <2>6, <2>7, NewPipe
<1>17. ASSUME NEW i \in DOMAIN pipe, ~pipe[i].alloc, EndsMade(rf, wf, i, EndOf(i, FALSE), EndOf(i, TRUE)),
              NEW a \in fd0, NEW b \in fd1, faults' = faults,
              Becomes(p, [x EXCEPT !.p = <<a, b>>, !.ret = 0, !.todo = Tail(@)])
       PROVE  ShIndInv'
  <2>1. a \in Fds /\ b \in Fds /\ fd0 = {a} /\ fd1 = {b} /\ a # b /\ a \in Nat /\ b \in Nat
    BY <1>10, <1>17 DEF Fds
  <2>2. PICK o1 : o1 = [pr[p].ofile EXCEPT ![a] = rf]
    OBVIOUS
  <2>3. PICK o2 : o2 = [o1 EXCEPT ![b] = wf]
    OBVIOUS
  <2>4. /\ o1 \in [Fds -> {None} \cup DOMAIN file] /\ o2 \in [Fds -> {None} \cup DOMAIN file]
        /\ o1[a] = rf /\ o1[b] = None /\ o2[b] = wf /\ pr[p].ofile[a] = None
        /\ OneFd(pr[p].ofile, o1, Fds, a) /\ OneFd(o1, o2, Fds, b)
        /\ \A fd \in Fds : o2[fd] = pr[p].ofile[fd] \/ o2[fd] \in {rf, wf}
    <3>1. pr[p].ofile[a] = None /\ pr[p].ofile[b] = None
      BY <1>10, <1>17
    <3> QED BY ONLY <1>3, <1>15, <2>1, <2>2, <2>3, <3>1 DEF OneFd
  <2>5. PICK z : z = <<a, b>>
    OBVIOUS
  <2>6. PICK y : y = [pr[p] EXCEPT !.ofile = o2, !.p = z, !.ret = 0, !.todo = u]
    OBVIOUS
  <2>7. y \in Process /\ y.st = "live" /\ y.todo = u /\ y.ofile = o2
    <3>1. z \in Nat \X Nat /\ 0 \in Int
      BY ONLY <2>1, <2>5
    <3>2. /\ pr[p] \in Process /\ pr[p].st = "live" /\ u \in Seq(AnyStep)
          /\ o2 \in [Fds -> {None} \cup DOMAIN file]
      BY ONLY <1>3, <2>4
    <3> QED BY ONLY <2>6, <3>1, <3>2 DEF Process
  <2>8. [x EXCEPT !.p = <<a, b>>, !.ret = 0, !.todo = Tail(@)] = y
    <3>1. [fd \in Fds |-> IF fd \in fd0 THEN rf ELSE IF fd \in fd1 THEN wf ELSE pr[p].ofile[fd]] = o2
      <4>1. \A fd \in Fds : (IF fd \in fd0 THEN rf ELSE IF fd \in fd1 THEN wf ELSE pr[p].ofile[fd]) = o2[fd]
        BY ONLY <1>15, <2>1, <2>2, <2>3
      <4>2. o2 = [fd \in Fds |-> o2[fd]]
        BY <2>4
      <4> QED BY ONLY <4>1, <4>2
    <3>2. x = [pr[p] EXCEPT !.ofile = o2]
      BY <1>11, <3>1
    <3>3. x.todo = pr[p].todo
      BY ONLY <1>3, <3>2 DEF Process
    <3>4. [x EXCEPT !.p = <<a, b>>, !.ret = 0, !.todo = Tail(@)] = [x EXCEPT !.p = z, !.ret = 0, !.todo = u]
      BY <1>2, <2>5, <3>3
    <3> QED BY ONLY <1>3, <2>6, <3>2, <3>4 DEF Process
  <2>9. ASSUME NEW c, c # Nothing PROVE InTodo(u, c) = 0
    BY <1>3, <2>9, SilentSteps, NothingPending
  <2>10. Swaps(pr[p], y)
    <3>1. ASSUME NEW g \in DOMAIN file
          PROVE  Held(y.ofile, Fds, g) + InTodo(y.todo, <<"file", g>>)
                   = Held(pr[p].ofile, Fds, g) + InTodo(pr[p].todo, <<"file", g>>)
      <4>1. InTodo(u, <<"file", g>>) = 0
        BY <2>9 DEF Nothing
      <4>2. InTodo(pr[p].todo, <<"file", g>>) = One(rf, g) + One(wf, g)
        BY <1>4 DEF HoldsBoth, Nothing, One
      <4>3. IsFiniteSet(Fds)
        BY <1>15, Domains
      <4>4. /\ Held(pr[p].ofile, Fds, g) \in Nat
            /\ Held(o1, Fds, g) = Held(pr[p].ofile, Fds, g) - One(pr[p].ofile[a], g) + One(o1[a], g)
        BY ONLY <2>1, <2>4, <4>3, DescriptorChanges
      <4>5. Held(o2, Fds, g) = Held(o1, Fds, g) - One(o1[b], g) + One(o2[b], g)
        BY ONLY <2>1, <2>4, <4>3, DescriptorChanges
      <4>6. One(None, g) = 0
        <5>1. load \in Loads /\ DOMAIN file = 1..load.nfile
          BY <1>15 DEF TypesOK
        <5> QED BY <5>1, LoadsAssumption DEF One
      <4> QED BY <2>4, <2>7, <4>1, <4>2, <4>4, <4>5, <4>6, AddOfOne
    <3> QED BY ONLY <3>1, Zenon DEF Swaps
  <2>11. NoEnds(y.todo)
    BY <2>7, <2>9 DEF NoEnds
  <2>12. Shape(y.todo) /\ (y.todo # <<>> => HeadOK(y.todo[1], file', entry'))
    <3>1. \A k \in DOMAIN u : u[k].op \notin CallOps
      BY <1>3 DEF Plain
    <3>2. u # <<>> => 1 \in DOMAIN u
      BY <1>3
    <3>3. u # <<>> => u[1].op \notin {"pipe2", "pipe3", "opened"}
      BY <3>1, <3>2 DEF CallOps
    <3> QED BY <2>7, <3>1, <3>3 DEF Shape, HeadOK
  <2>13. EndsGiven(p, y, rf, wf)
    BY <1>14, <1>17, <2>4, <2>7, <2>8, <2>10, <2>11, <2>12 DEF EndsGiven
  <2>14. EndsReady(p, rf, wf, i, EndOf(i, FALSE), EndOf(i, TRUE)) /\ UNCHANGED <<load, entry, out>> /\ faults' \in Nat
    BY <1>1, <1>13, <1>15, <1>17 DEF TypesOK
  <2> QED BY <1>3, <1>17, <2>7, <2>13, <2>14, NewPipe
<1>18. \/ Becomes(p, Ret(p, -1, steps)) /\ UNCHANGED <<file, pipe, faults>>
       \/ \E i \in DOMAIN pipe :
            /\ ~pipe[i].alloc /\ EndsMade(rf, wf, i, EndOf(i, FALSE), EndOf(i, TRUE))
            /\ \/ fd1 = {} /\ Becomes(p, PipeFails(x, rf, wf, fd0)) /\ UNCHANGED faults
               \/ UNCHANGED faults /\ \E a \in fd0, b \in fd1 :
                    Becomes(p, [x EXCEPT !.p = <<a, b>>, !.ret = 0, !.todo = Tail(@)])
               \/ faults > 0 /\ faults' = faults - 1 /\ Becomes(p, PipeFails(x, rf, wf, fd0 \cup fd1))
  <2>1. fd0 = fdalloc(pr[p].ofile)
    BY ONLY <1>9, Zenon DEF FirstFd, fdalloc
  <2>2. fd1 = IF fd0 = {} THEN {} ELSE fdalloc([fd \in Fds |-> IF fd \in fd0 THEN rf ELSE pr[p].ofile[fd]])
    BY ONLY <1>9, Zenon DEF SecondFd, fdalloc
  <2>3. PICK Q0 : Q0 = Lowest({i \in DOMAIN pipe : ~pipe[i].alloc})
    OBVIOUS
  <2>4. Q0 \subseteq DOMAIN pipe /\ \A i \in Q0 : ~pipe[i].alloc
    BY <2>3 DEF Lowest
  <2>5. IF Q0 = {} THEN Becomes(p, Ret(p, -1, steps)) /\ UNCHANGED <<file, pipe, faults>>
        ELSE /\ \E i \in Q0 : EndsMade(rf, wf, i, EndOf(i, FALSE), EndOf(i, TRUE))
             /\ \/ fd1 = {} /\ Becomes(p, PipeFails(x, rf, wf, fd0)) /\ UNCHANGED faults
                \/ /\ fd1 # {} /\ UNCHANGED faults
                   /\ \E a \in fd0, b \in fd1 : Becomes(p, [x EXCEPT !.p = <<a, b>>, !.ret = 0, !.todo = Tail(@)])
                \/ fd1 # {} /\ faults > 0 /\ faults' = faults - 1 /\ Becomes(p, PipeFails(x, rf, wf, fd0 \cup fd1))
    BY ONLY Pipe3(p), <1>2, <1>5, <1>11, <2>1, <2>2, <2>3, ZenonT(120) DEF Pipe3, EndsMade, EndOf
  <2> QED BY ONLY <2>4, <2>5, Zenon
<1>19. CASE Becomes(p, Ret(p, -1, steps)) /\ UNCHANGED <<file, pipe, faults>>
  BY ONLY <1>12, <1>19
<1>20. ASSUME NEW i \in DOMAIN pipe, ~pipe[i].alloc, EndsMade(rf, wf, i, EndOf(i, FALSE), EndOf(i, TRUE)),
              \/ fd1 = {} /\ Becomes(p, PipeFails(x, rf, wf, fd0)) /\ UNCHANGED faults
              \/ UNCHANGED faults /\ \E a \in fd0, b \in fd1 :
                   Becomes(p, [x EXCEPT !.p = <<a, b>>, !.ret = 0, !.todo = Tail(@)])
              \/ faults > 0 /\ faults' = faults - 1 /\ Becomes(p, PipeFails(x, rf, wf, fd0 \cup fd1))
       PROVE  ShIndInv'
  <2>1. faults \in Nat
    BY <1>15 DEF TypesOK
  <2>2. CASE fd1 = {} /\ Becomes(p, PipeFails(x, rf, wf, fd0)) /\ UNCHANGED faults
    <3>1. fd0 = fd0 \cup fd1 /\ faults' \in Nat
      BY <2>1, <2>2
    <3> QED BY ONLY <1>16, <1>20, <2>2, <3>1
  <2>3. ASSUME UNCHANGED faults, NEW a \in fd0, NEW b \in fd1,
               Becomes(p, [x EXCEPT !.p = <<a, b>>, !.ret = 0, !.todo = Tail(@)])
        PROVE  ShIndInv'
    BY ONLY <1>17, <1>20, <2>3, Zenon
  <2>4. CASE faults > 0 /\ faults' = faults - 1 /\ Becomes(p, PipeFails(x, rf, wf, fd0 \cup fd1))
    <3>1. PICK fds : fds = fd0 \cup fd1
      OBVIOUS
    <3>2. faults' \in Nat /\ Becomes(p, PipeFails(x, rf, wf, fds))
      BY ONLY <2>1, <2>4, <3>1
    <3> QED BY ONLY <1>16, <1>20, <3>1, <3>2, Zenon
  <2> QED BY ONLY <1>20, <2>2, <2>3, <2>4, Zenon
<1> QED BY ONLY <1>18, <1>19, <1>20, Zenon

-----------------------------------------------------------------------------
(* read() and write(): data nobody counts.                                 *)
LEMMA DataMoves ==
  ASSUME ShIndInv, NEW p \in Procs, NEW o, At(p, o), o \notin CallOps, NEW y, Becomes(p, y),
         y \in Process, y.st = "live", y.ofile = pr[p].ofile, Plain(y.todo), QuietData,
         file' \in [1..load.nfile -> OFile], pipe' \in [1..load.npipe -> APipe],
         entry' \in [Names -> AnEntry], out' \in Seq(Nat), input' = input, UNCHANGED <<load, faults>>
  PROVE  ShIndInv'
<1>1. TypesOK /\ pr \in [Procs -> Process]
  BY Parts
<1>2. TypesOK'
  BY <1>1 DEF TypesOK, OFile, APipe, AnEntry
<1>3. Plain(pr[p].todo)
  BY Doing
<1>4. pr' = [pr EXCEPT ![p] = y] /\ load' = load
  BY DEF Becomes
<1> QED BY <1>2, <1>3, <1>4, Quiet

\* the call returns r
LEMMA Returns ==
  ASSUME ShIndInv, NEW p \in Procs, NEW o, At(p, o), o \notin CallOps, NEW r \in Int, NEW b \in Seq(Nat)
  PROVE  \A y : y \in {Ret(p, r, <<>>), [Ret(p, r, <<>>) EXCEPT !.buf = b]} =>
           y \in Process /\ y.st = "live" /\ y.ofile = pr[p].ofile /\ Plain(y.todo)
<1>1. /\ pr[p] \in Process /\ pr[p].st = "live" /\ Tail(pr[p].todo) \in Seq(AnyStep)
      /\ Plain(Tail(pr[p].todo))
  BY Doing DEF Undo, CallOps
<1>2. PICK T : T = <<>>
  OBVIOUS
<1>3. T \in Seq(ProgramStep)
  <2>1. <<>> \in Seq(ProgramStep)
    OBVIOUS
  <2> QED BY ONLY <1>2, <2>1, Zenon
<1>4. PICK v : Joins(v, T, Tail(pr[p].todo)) /\ v \in Seq(AnyStep) /\ Plain(v)
  BY <1>1, <1>3, ProgramMore DEF Joins
<1>5. PICK z : z = Ret(p, r, T)
  OBVIOUS
<1>6. z \in Process /\ z.st = "live" /\ z.todo = v /\ z.ofile = pr[p].ofile
  BY ONLY <1>1, <1>4, <1>5, Proceeds, p \in Procs, r \in Int
<1>7. PICK w : w = [z EXCEPT !.buf = b]
  OBVIOUS
<1>8. w \in Process /\ w.st = "live" /\ w.todo = v /\ w.ofile = pr[p].ofile
  BY ONLY <1>6, <1>7, b \in Seq(Nat) DEF Process
<1>9. z = Ret(p, r, <<>>) /\ w = [Ret(p, r, <<>>) EXCEPT !.buf = b]
  BY ONLY <1>2, <1>5, <1>7, Zenon
<1> QED BY ONLY <1>4, <1>6, <1>8, <1>9

LEMMA ReadStep ==
  ASSUME ShIndInv, NEW p \in Procs, Read(p), input' = input
  PROVE  ShIndInv'
<1>1. At(p, "read") /\ UNCHANGED <<load, entry, out, faults>> /\ "read" \notin CallOps
  <2>1. At(p, "read") /\ UNCHANGED <<load, entry, out, faults>>
    BY ZenonT(60) DEF Read
  <2> QED BY <2>1, NoCallOps
<1>2. PICK f : f = ArgFd(p, Now(p).fd)
  OBVIOUS
<1>3. /\ TypesOK /\ pr \in [Procs -> Process] /\ FilesOK(file, pipe, entry)
      /\ file \in [1..load.nfile -> OFile] /\ pipe \in [1..load.npipe -> APipe]
      /\ entry \in [Names -> AnEntry] /\ out \in Seq(Nat)
  BY Parts DEF TypesOK
<1>4. CASE f = None \/ (f # None /\ ~file[f].readable)
  <2>1. Becomes(p, [Ret(p, -1, <<>>) EXCEPT !.buf = <<>>]) /\ UNCHANGED <<file, pipe>>
    BY ONLY Read(p), <1>2, <1>4, ZenonT(60) DEF Read
  <2>2. PICK y : y = [Ret(p, -1, <<>>) EXCEPT !.buf = <<>>] /\ Becomes(p, y)
    BY <2>1
  <2>3. y \in Process /\ y.st = "live" /\ y.ofile = pr[p].ofile /\ Plain(y.todo)
    <3>1. -1 \in Int /\ <<>> \in Seq(Nat)
      OBVIOUS
    <3> QED BY ONLY ShIndInv, p \in Procs, <1>1, <2>2, <3>1, Returns
  <2>4. QuietData
    BY <1>1, <2>1 DEF QuietData
  <2>5. /\ file' \in [1..load.nfile -> OFile] /\ pipe' \in [1..load.npipe -> APipe]
        /\ entry' \in [Names -> AnEntry] /\ out' \in Seq(Nat)
    BY <1>1, <1>3, <2>1
  <2> QED BY ONLY ShIndInv, p \in Procs, input' = input, <1>1, <2>2, <2>3, <2>4, <2>5, DataMoves
<1>5. ASSUME f # None, file[f].type = "pipe",
             NEW i, i = file[f].to,
             Becomes(p, [Ret(p, Len(pipe[i].data), <<>>) EXCEPT !.buf = pipe[i].data]),
             pipe' = [pipe EXCEPT ![i].data = <<>>], UNCHANGED file
      PROVE  ShIndInv'
  <2>1. i \in 1..load.npipe
    BY <1>2, <1>3, <1>5, Argument DEF FilesOK
  <2>2. PICK b, r : b = pipe[i].data /\ r = Len(b)
    OBVIOUS
  <2>3. b \in Seq(Nat) /\ r \in Int
    BY <1>3, <2>1, <2>2 DEF APipe
  <2>4. PICK y : y = [Ret(p, r, <<>>) EXCEPT !.buf = b] /\ Becomes(p, y)
    BY <1>5, <2>2
  <2>5. y \in Process /\ y.st = "live" /\ y.ofile = pr[p].ofile /\ Plain(y.todo)
    BY ONLY ShIndInv, p \in Procs, <1>1, <2>3, <2>4, Returns
  <2>6. PICK n : n = <<>> /\ n \in Seq(Nat)
    <3>1. <<>> \in Seq(Nat)
      OBVIOUS
    <3> QED BY ONLY <3>1, Zenon
  <2>7. pipe' = [pipe EXCEPT ![i].data = n]
    BY <1>5, <2>6
  <2>8. /\ pipe' \in [1..load.npipe -> APipe]
        /\ \A j \in DOMAIN pipe : /\ pipe'[j].alloc = pipe[j].alloc /\ pipe'[j].readopen = pipe[j].readopen
                                  /\ pipe'[j].writeopen = pipe[j].writeopen
    BY ONLY <1>3, <2>1, <2>6, <2>7 DEF APipe
  <2>9. QuietData
    BY <1>1, <1>5, <2>8 DEF QuietData
  <2> QED BY <1>1, <1>3, <1>5, <2>4, <2>5, <2>8, <2>9, DataMoves
<1>6. ASSUME f # None, file[f].type = "entry", NEW b, b = entry[file[f].to].bytes,
             NEW got, got = SubSeq(b, file[f].off + 1, Len(b)),
             Becomes(p, [Ret(p, Len(got), <<>>) EXCEPT !.buf = got]),
             file' = [file EXCEPT ![f].off = @ + Len(got)], UNCHANGED pipe
      PROVE  ShIndInv'
  <2>1. f \in 1..load.nfile /\ file[f] \in OFile
    <3>1. f \in DOMAIN file
      BY <1>2, <1>6, Argument
    <3> QED BY ONLY <1>3, <3>1
  <2>2. b \in Seq(Nat)
    <3>1. file[f].to \in Names /\ b # None
      BY <1>3, <1>6, <2>1 DEF FilesOK
    <3> QED BY <1>3, <1>6, <3>1 DEF AnEntry
  <2>3. got \in Seq(Nat)
    <3>1. file[f].off \in Nat
      BY <2>1 DEF OFile
    <3>2. file[f].off + 1 \in Int /\ Len(b) \in Int /\ \A k \in (file[f].off + 1)..Len(b) : b[k] \in Nat
      BY ONLY <2>2, <3>1
    <3> QED BY ONLY <1>6, <3>2, SubSeqProperties
  <2>4. PICK r : r = Len(got) /\ r \in Nat /\ r \in Int
    BY <2>3
  <2>5. PICK y : y = [Ret(p, r, <<>>) EXCEPT !.buf = got] /\ Becomes(p, y)
    BY <1>6, <2>4
  <2>6. y \in Process /\ y.st = "live" /\ y.ofile = pr[p].ofile /\ Plain(y.todo)
    BY ONLY ShIndInv, p \in Procs, <1>1, <2>3, <2>4, <2>5, Returns
  <2>7. file' = [file EXCEPT ![f].off = @ + r]
    BY <1>6, <2>4
  <2>8. /\ file' \in [1..load.nfile -> OFile]
        /\ \A g \in DOMAIN file :
             /\ file'[g].type = file[g].type /\ file'[g].ref = file[g].ref /\ file'[g].to = file[g].to
             /\ file'[g].readable = file[g].readable /\ file'[g].writable = file[g].writable
    <3>1. PICK e : e = file[f].off + r
      OBVIOUS
    <3>2. PICK X : X = [file[f] EXCEPT !.off = e]
      OBVIOUS
    <3>3. e \in Nat
      BY ONLY <2>1, <2>4, <3>1 DEF OFile
    <3>4. /\ X \in OFile /\ X.type = file[f].type /\ X.ref = file[f].ref /\ X.to = file[f].to
          /\ X.readable = file[f].readable /\ X.writable = file[f].writable
      BY ONLY <2>1, <3>2, <3>3 DEF OFile
    <3>5. file' = [file EXCEPT ![f] = X]
      BY ONLY <1>3, <2>1, <2>7, <3>1, <3>2
    <3> QED BY ONLY <1>3, <2>1, <3>4, <3>5
  <2>9. QuietData
    BY <1>1, <1>6, <2>8 DEF QuietData
  <2>10. pipe' \in [1..load.npipe -> APipe] /\ entry' \in [Names -> AnEntry] /\ out' \in Seq(Nat)
    BY <1>1, <1>3, <1>6
  <2> QED BY ONLY ShIndInv, p \in Procs, input' = input, <1>1, <2>5, <2>6, <2>8, <2>9, <2>10, DataMoves
<1>7. \/ f = None \/ (f # None /\ ~file[f].readable)
      \/ /\ f # None /\ file[f].type = "pipe" /\ UNCHANGED file
         /\ Becomes(p, [Ret(p, Len(pipe[file[f].to].data), <<>>) EXCEPT !.buf = pipe[file[f].to].data])
         /\ pipe' = [pipe EXCEPT ![file[f].to].data = <<>>]
      \/ /\ f # None /\ file[f].type = "entry" /\ UNCHANGED pipe
         /\ \E b, got : /\ b = entry[file[f].to].bytes /\ got = SubSeq(b, file[f].off + 1, Len(b))
                        /\ Becomes(p, [Ret(p, Len(got), <<>>) EXCEPT !.buf = got])
                        /\ file' = [file EXCEPT ![f].off = @ + Len(got)]
  BY <1>2, ZenonT(60) DEF Read
<1> QED BY ONLY <1>4, <1>5, <1>6, <1>7, Zenon

\* a file on disk of which the bytes from o to n are b's
Overwrites(d, b, c, o, n) ==
  /\ o <= Len(c) /\ n = o + Len(b)
  /\ d = [k \in 1..(IF n > Len(c) THEN n ELSE Len(c)) |-> IF k > o /\ k <= n THEN b[k - o] ELSE c[k]]
LEMMA Overwritten ==
  ASSUME NEW b \in Seq(Nat), NEW c \in Seq(Nat), NEW o \in Nat, NEW n, NEW d, Overwrites(d, b, c, o, n)
  PROVE  d \in Seq(Nat)
<1>1. PICK m : m = IF n > Len(c) THEN n ELSE Len(c)
  OBVIOUS
<1>2. Len(b) \in Nat /\ Len(c) \in Nat /\ n \in Nat /\ m \in Nat
  BY <1>1 DEF Overwrites
<1>3. ASSUME NEW k \in 1..m PROVE (IF k > o /\ k <= n THEN b[k - o] ELSE c[k]) \in Nat
  <2>1. CASE k > o /\ k <= n
    <3>1. k - o \in 1..Len(b)
      BY <1>2, <2>1 DEF Overwrites
    <3>2. b[k - o] \in Nat
      BY ONLY <3>1, b \in Seq(Nat)
    <3> QED BY ONLY <2>1, <3>2
  <2>2. CASE ~(k > o /\ k <= n)
    <3>1. k \in 1..Len(c)
      BY <1>1, <1>2, <2>2 DEF Overwrites
    <3>2. c[k] \in Nat
      BY ONLY <3>1, c \in Seq(Nat)
    <3> QED BY ONLY <2>2, <3>2
  <2> QED BY ONLY <2>1, <2>2
<1>4. d = [k \in 1..m |-> IF k > o /\ k <= n THEN b[k - o] ELSE c[k]]
  BY <1>1 DEF Overwrites
<1>5. d \in [1..m -> Nat]
  BY ONLY <1>3, <1>4
<1>6. d \in Seq(Nat)
  BY ONLY <1>2, <1>5, SeqDef
<1> QED BY <1>6

LEMMA WriteStep ==
  ASSUME ShIndInv, NEW p \in Procs, Write(p), input' = input
  PROVE  ShIndInv'
<1>1. At(p, "write") /\ UNCHANGED <<load, faults>> /\ "write" \notin CallOps
  <2>1. At(p, "write") /\ UNCHANGED <<load, faults>>
    BY ZenonT(60) DEF Write
  <2> QED BY <2>1, NoCallOps
<1>2. PICK i, f, b : i = Now(p) /\ f = ArgFd(p, i.fd) /\ b = i.bytes
  OBVIOUS
<1>3. /\ TypesOK /\ pr \in [Procs -> Process] /\ FilesOK(file, pipe, entry)
      /\ file \in [1..load.nfile -> OFile] /\ pipe \in [1..load.npipe -> APipe]
      /\ entry \in [Names -> AnEntry] /\ out \in Seq(Nat)
  BY Parts DEF TypesOK
<1>4. /\ pr[p] \in Process /\ pr[p].st = "live" /\ i \in ProgramStep /\ i.op = "write"
      /\ Tail(pr[p].todo) \in Seq(AnyStep) /\ Plain(Tail(pr[p].todo))
  BY <1>1, <1>2, Doing DEF Undo
<1>5. b \in Seq(Nat) /\ \A d \in Seq(Nat) : [i EXCEPT !.bytes = d] \in ProgramStep
  BY <1>2, <1>4, ProgramSteps
<1>6. ASSUME Becomes(p, Ret(p, -1, <<>>)), UNCHANGED <<file, pipe, entry, out>>
      PROVE  ShIndInv'
  <2>1. <<>> \in Seq(ProgramStep) /\ -1 \in Int /\ input' \in Seq(Commands)
    BY <1>3 DEF TypesOK
  <2> QED BY <1>1, <1>6, <2>1, ProgramGoesOn
<1>7. \A y : y = Ret(p, 0, <<>>) => y \in Process /\ y.st = "live" /\ y.ofile = pr[p].ofile /\ Plain(y.todo)
  <2>1. 0 \in Int /\ <<>> \in Seq(Nat)
    OBVIOUS
  <2> QED BY ONLY ShIndInv, p \in Procs, <1>1, <2>1, Returns
<1>8. ASSUME NEW n \in Nat, n < Len(b), NEW y, y = Go(p, <<[i EXCEPT !.bytes = SubSeq(b, n + 1, Len(b))]>>)
      PROVE  y \in Process /\ y.st = "live" /\ y.ofile = pr[p].ofile /\ Plain(y.todo)
  <2>1. PICK d, a : d = SubSeq(b, n + 1, Len(b)) /\ a = [i EXCEPT !.bytes = d]
    OBVIOUS
  <2>2. d \in Seq(Nat)
    <3>1. n + 1 \in Int /\ Len(b) \in Int /\ \A k \in (n + 1)..Len(b) : b[k] \in Nat
      BY ONLY <1>5, n \in Nat
    <3> QED BY ONLY <2>1, <3>1, SubSeqProperties
  <2>3. PICK T : T = <<a>>
    OBVIOUS
  <2>4. T \in Seq(ProgramStep)
    <3>1. a \in ProgramStep
      BY ONLY <1>5, <2>1, <2>2
    <3> QED BY ONLY <2>3, <3>1
  <2>5. PICK v : Joins(v, T, Tail(pr[p].todo)) /\ v \in Seq(AnyStep) /\ Plain(v)
    BY <1>4, <2>4, ProgramMore DEF Joins
  <2>6. y = Go(p, T)
    BY ONLY <1>8, <2>1, <2>3
  <2>7. y \in Process /\ y.st = "live" /\ y.todo = v /\ y.ofile = pr[p].ofile
    <3>1. 0 \in Int
      OBVIOUS
    <3> QED BY ONLY <1>4, <2>5, <2>6, <3>1, Proceeds, p \in Procs
  <2> QED BY <2>5, <2>7
<1>9. ASSUME f # None, file[f].type = "pipe", NEW j, j = file[f].to, NEW n \in Nat, n <= Len(b),
             pipe' = [pipe EXCEPT ![j].data = @ \o SubSeq(b, 1, n)], UNCHANGED <<file, entry, out>>,
             NEW y, Becomes(p, y), y \in Process, y.st = "live", y.ofile = pr[p].ofile, Plain(y.todo)
      PROVE  ShIndInv'
  <2>1. j \in 1..load.npipe /\ pipe[j] \in APipe
    BY <1>2, <1>3, <1>9, Argument DEF FilesOK
  <2>2. PICK d : d = SubSeq(b, 1, n)
    OBVIOUS
  <2>3. d \in Seq(Nat)
    <3>1. 1 \in Int /\ n \in Int /\ \A k \in 1..n : b[k] \in Nat
      BY ONLY <1>5, n \in Nat, n <= Len(b)
    <3> QED BY ONLY <2>2, <3>1, SubSeqProperties
  <2>4. PICK e : e = pipe[j].data \o d
    OBVIOUS
  <2>5. e \in Seq(Nat)
    BY ONLY <2>1, <2>3, <2>4 DEF APipe
  <2>6. PICK X : X = [pipe[j] EXCEPT !.data = e]
    OBVIOUS
  <2>7. X \in APipe /\ X.alloc = pipe[j].alloc /\ X.readopen = pipe[j].readopen /\ X.writeopen = pipe[j].writeopen
    BY ONLY <2>1, <2>5, <2>6 DEF APipe
  <2>8. pipe' = [pipe EXCEPT ![j] = X]
    BY ONLY <1>3, <1>9, <2>1, <2>2, <2>4, <2>6
  <2>9. /\ pipe' \in [1..load.npipe -> APipe]
        /\ \A h \in DOMAIN pipe : /\ pipe'[h].alloc = pipe[h].alloc /\ pipe'[h].readopen = pipe[h].readopen
                                  /\ pipe'[h].writeopen = pipe[h].writeopen
    BY ONLY <1>3, <2>1, <2>7, <2>8
  <2>10. QuietData
    BY <1>9, <2>9 DEF QuietData
  <2>11. file' \in [1..load.nfile -> OFile] /\ entry' \in [Names -> AnEntry] /\ out' \in Seq(Nat)
    BY <1>3, <1>9
  <2> QED BY ONLY ShIndInv, p \in Procs, input' = input, <1>1, <1>9, <2>9, <2>10, <2>11, DataMoves
<1>10. PICK j, r, n, c, o, m, d :
         /\ j = file[f].to /\ r = PIPESIZE - Len(pipe[j].data) /\ n = IF Len(b) < r THEN Len(b) ELSE r
         /\ c = entry[j].bytes /\ o = file[f].off /\ m = o + Len(b)
         /\ d = [k \in 1..(IF m > Len(c) THEN m ELSE Len(c)) |-> IF k > o /\ k <= m THEN b[k - o] ELSE c[k]]
  OBVIOUS
<1>11. ASSUME f # None, file[f].type = "entry", o <= Len(c), entry' = [entry EXCEPT ![j].bytes = d],
              file' = [file EXCEPT ![f].off = m], UNCHANGED <<pipe, out>>, Becomes(p, Ret(p, 0, <<>>))
       PROVE  ShIndInv'
  <2>1. f \in 1..load.nfile /\ file[f] \in OFile /\ o \in Nat
    <3>1. f \in DOMAIN file
      BY <1>2, <1>11, Argument
    <3>2. f \in 1..load.nfile /\ file[f] \in OFile
      BY ONLY <1>3, <3>1
    <3> QED BY ONLY <1>10, <3>2 DEF OFile
  <2>2. j \in Names /\ c \in Seq(Nat)
    <3>1. j \in Names /\ c # None
      BY <1>3, <1>10, <1>11, <2>1 DEF FilesOK
    <3> QED BY <1>3, <1>10, <1>11, <3>1 DEF AnEntry
  <2>3. d \in Seq(Nat)
    <3>1. Overwrites(d, b, c, o, m)
      BY ONLY <1>10, <1>11, Zenon DEF Overwrites
    <3> QED BY ONLY <1>5, <2>1, <2>2, <3>1, Overwritten
  <2>4. m \in Nat
    BY ONLY <1>5, <1>10, <2>1
  <2>5. PICK X : X = [file[f] EXCEPT !.off = m]
    OBVIOUS
  <2>6. /\ X \in OFile /\ X.type = file[f].type /\ X.ref = file[f].ref /\ X.to = file[f].to
        /\ X.readable = file[f].readable /\ X.writable = file[f].writable
    BY ONLY <2>1, <2>4, <2>5 DEF OFile
  <2>7. file' = [file EXCEPT ![f] = X]
    BY ONLY <1>3, <1>11, <2>1, <2>5
  <2>8. /\ file' \in [1..load.nfile -> OFile]
        /\ \A g \in DOMAIN file :
             /\ file'[g].type = file[g].type /\ file'[g].ref = file[g].ref /\ file'[g].to = file[g].to
             /\ file'[g].readable = file[g].readable /\ file'[g].writable = file[g].writable
    BY ONLY <1>3, <2>1, <2>6, <2>7
  <2>9. PICK Y : Y = [entry[j] EXCEPT !.bytes = d]
    OBVIOUS
  <2>10. Y \in AnEntry /\ Y.ref = entry[j].ref /\ Y.bytes = d
    BY ONLY <1>3, <2>2, <2>3, <2>9 DEF AnEntry
  <2>11. entry' = [entry EXCEPT ![j] = Y]
    BY ONLY <1>3, <1>11, <2>2, <2>9
  <2>12. /\ entry' \in [Names -> AnEntry]
         /\ \A h \in Names : entry'[h].ref = entry[h].ref /\ (entry[h].bytes # None => entry'[h].bytes # None)
    <3>1. d # None
      BY <2>3, NoneAssumption
    <3> QED BY ONLY <1>3, <2>2, <2>10, <2>11, <3>1
  <2>13. QuietData
    BY <1>11, <2>8, <2>12 DEF QuietData
  <2>14. PICK y : y = Ret(p, 0, <<>>) /\ Becomes(p, y)
    BY <1>11
  <2>15. pipe' \in [1..load.npipe -> APipe] /\ out' \in Seq(Nat)
    BY <1>3, <1>11
  <2>16. y \in Process /\ y.st = "live" /\ y.ofile = pr[p].ofile /\ Plain(y.todo)
    BY ONLY <1>7, <2>14
  <2> QED BY ONLY ShIndInv, p \in Procs, input' = input, <1>1, <2>8, <2>12, <2>13, <2>14, <2>15, <2>16, DataMoves
<1>12. ASSUME f # None, out' = out \o b, UNCHANGED <<file, pipe, entry>>, Becomes(p, Ret(p, 0, <<>>))
       PROVE  ShIndInv'
  <2>1. PICK y : y = Ret(p, 0, <<>>) /\ Becomes(p, y)
    BY <1>12
  <2>2. y \in Process /\ y.st = "live" /\ y.ofile = pr[p].ofile /\ Plain(y.todo)
    BY ONLY <1>7, <2>1
  <2>3. QuietData
    BY <1>12 DEF QuietData
  <2>4. /\ file' \in [1..load.nfile -> OFile] /\ pipe' \in [1..load.npipe -> APipe]
        /\ entry' \in [Names -> AnEntry] /\ out' \in Seq(Nat)
    <3>1. out' \in Seq(Nat)
      BY ONLY <1>3, <1>5, <1>12
    <3> QED BY <1>3, <1>12, <3>1
  <2> QED BY ONLY ShIndInv, p \in Procs, input' = input, <1>1, <2>1, <2>2, <2>3, <2>4, DataMoves
<1>13. ASSUME f # None, file[f].type = "pipe", NEW to, to = file[f].to, NEW z,
              z = (IF Len(b) < PIPESIZE - Len(pipe[to].data) THEN Len(b) ELSE PIPESIZE - Len(pipe[to].data)),
              z > 0, UNCHANGED <<file, entry, out>>, pipe' = [pipe EXCEPT ![to].data = @ \o SubSeq(b, 1, z)],
              Becomes(p, IF z = Len(b) THEN Ret(p, 0, <<>>)
                         ELSE Go(p, <<[i EXCEPT !.bytes = SubSeq(b, z + 1, Len(b))]>>))
       PROVE  ShIndInv'
  <2>1. z \in Nat /\ z <= Len(b) /\ Len(b) \in Nat
    <3>1. to \in 1..load.npipe
      BY <1>2, <1>3, <1>13, Argument DEF FilesOK
    <3>2. pipe[to].data \in Seq(Nat)
      BY ONLY <1>3, <3>1 DEF APipe
    <3>3. Len(b) \in Nat /\ Len(pipe[to].data) \in Nat /\ PIPESIZE \in Nat
      BY ONLY <1>5, <3>2, PipeSizeAssumption
    <3>4. PICK k, l : k = Len(b) /\ l = Len(pipe[to].data)
      OBVIOUS
    <3>5. z = (IF k < PIPESIZE - l THEN k ELSE PIPESIZE - l) /\ z > 0
      BY ONLY <1>13, <3>4
    <3> QED BY ONLY <3>3, <3>4, <3>5
  <2>2. CASE z = Len(b)
    <3>1. PICK y : y = Ret(p, 0, <<>>) /\ Becomes(p, y)
      BY ONLY <1>13, <2>2
    <3>2. y \in Process /\ y.st = "live" /\ y.ofile = pr[p].ofile /\ Plain(y.todo)
      BY ONLY <1>7, <3>1
    <3> QED BY ONLY <1>9, <1>13, <2>1, <3>1, <3>2, Zenon
  <2>3. CASE z # Len(b)
    <3>1. PICK y : y = Go(p, <<[i EXCEPT !.bytes = SubSeq(b, z + 1, Len(b))]>>) /\ Becomes(p, y)
      BY ONLY <1>13, <2>3
    <3>2. z < Len(b)
      BY ONLY <2>1, <2>3
    <3>3. y \in Process /\ y.st = "live" /\ y.ofile = pr[p].ofile /\ Plain(y.todo)
      BY ONLY <1>8, <2>1, <3>1, <3>2, Zenon
    <3> QED BY ONLY <1>9, <1>13, <2>1, <3>1, <3>3, Zenon
  <2> QED BY <2>2, <2>3
<1>14. \/ Becomes(p, Ret(p, -1, <<>>)) /\ UNCHANGED <<file, pipe, entry, out>>
       \/ /\ f # None /\ file[f].type = "pipe" /\ n > 0 /\ UNCHANGED <<file, entry, out>>
          /\ pipe' = [pipe EXCEPT ![j].data = @ \o SubSeq(b, 1, n)]
          /\ Becomes(p, IF n = Len(b) THEN Ret(p, 0, <<>>)
                        ELSE Go(p, <<[i EXCEPT !.bytes = SubSeq(b, n + 1, Len(b))]>>))
       \/ /\ f # None /\ file[f].type = "entry" /\ UNCHANGED <<pipe, out>> /\ Becomes(p, Ret(p, 0, <<>>))
          /\ o <= Len(c) /\ entry' = [entry EXCEPT ![j].bytes = d] /\ file' = [file EXCEPT ![f].off = m]
       \/ f # None /\ out' = out \o b /\ UNCHANGED <<file, pipe, entry>> /\ Becomes(p, Ret(p, 0, <<>>))
  BY ONLY Write(p), <1>2, <1>10, ZenonT(120) DEF Write
<1>15. CASE /\ f # None /\ file[f].type = "pipe" /\ n > 0 /\ UNCHANGED <<file, entry, out>>
            /\ pipe' = [pipe EXCEPT ![j].data = @ \o SubSeq(b, 1, n)]
            /\ Becomes(p, IF n = Len(b) THEN Ret(p, 0, <<>>)
                          ELSE Go(p, <<[i EXCEPT !.bytes = SubSeq(b, n + 1, Len(b))]>>))
  BY ONLY <1>13, <1>10, <1>15, Zenon
<1>16. CASE /\ f # None /\ file[f].type = "entry" /\ UNCHANGED <<pipe, out>> /\ Becomes(p, Ret(p, 0, <<>>))
            /\ o <= Len(c) /\ entry' = [entry EXCEPT ![j].bytes = d] /\ file' = [file EXCEPT ![f].off = m]
  BY ONLY <1>11, <1>16, Zenon
<1> QED BY ONLY <1>6, <1>12, <1>14, <1>15, <1>16, Zenon

-----------------------------------------------------------------------------
(* fork(): two processes change, and the files of one are counted again    *)
(* for the other.                                                          *)
NothingLeft(t) == \A x : x # Nothing => InTodo(t, x) = 0
Recounted(fs, gs, o) ==
  /\ DOMAIN gs = DOMAIN fs
  /\ \A f \in DOMAIN fs : /\ gs[f].ref = fs[f].ref + Held(o, Fds, f) /\ Target(gs[f]) = Target(fs[f])
                          /\ fs[f].ref = 0 => Held(o, Fds, f) = 0
Doubled(r, s, p, q) ==
  /\ q # p /\ DOMAIN r = Procs
  /\ \A z \in Procs : z # p /\ z # q => s[z].todo = r[z].todo /\ s[z].ofile = r[z].ofile
  /\ s[p].ofile = r[p].ofile /\ s[q].ofile = r[p].ofile /\ \A f \in DOMAIN file : Held(r[q].ofile, Fds, f) = 0
  /\ NothingLeft(r[p].todo) /\ NothingLeft(s[p].todo) /\ NothingLeft(r[q].todo) /\ NothingLeft(s[q].todo)

LEMMA ForkAccounts ==
  ASSUME TypesOK, RefsExact, PipeEndsOpen, NEW p \in Procs, NEW q \in Procs,
         Recounted(file, file', pr[p].ofile), Doubled(pr, pr', p, q), UNCHANGED <<load, pipe, entry>>
  PROVE  RefsExact' /\ PipeEndsOpen'
<1>1. PICK r : r = [pr EXCEPT ![q] = pr'[q]]
  OBVIOUS
<1>2. /\ r[q] = pr'[q] /\ r[p] = pr[p] /\ Same(pr, r, q) /\ Same(r, pr', p)
  BY <1>1 DEF Doubled, Same
<1>3. ASSUME NEW x, x # Nothing
      PROVE  /\ Cardinality(PendingIn(pr', x)) = Cardinality(PendingIn(pr, x))
             /\ Cardinality(PendingIn(pr, x)) \in Nat
  <2>1. /\ Cardinality(PendingIn(pr, x)) \in Nat
        /\ Cardinality(PendingIn(r, x)) =
              Cardinality(PendingIn(pr, x)) - InTodo(pr[q].todo, x) + InTodo(r[q].todo, x)
    BY ONLY <1>2, PendingChanges, q \in Procs
  <2>2. Cardinality(PendingIn(pr', x)) =
              Cardinality(PendingIn(r, x)) - InTodo(r[p].todo, x) + InTodo(pr'[p].todo, x)
    BY ONLY <1>2, PendingChanges, p \in Procs
  <2>3. /\ InTodo(pr[q].todo, x) = 0 /\ InTodo(r[q].todo, x) = 0
        /\ InTodo(r[p].todo, x) = 0 /\ InTodo(pr'[p].todo, x) = 0
    BY <1>2, <1>3 DEF Doubled, NothingLeft
  <2> QED BY ONLY <2>1, <2>2, <2>3
<1>4. ASSUME NEW f \in DOMAIN file
      PROVE  /\ Cardinality(HeldIn(pr', Fds, f)) = Cardinality(HeldIn(pr, Fds, f)) + Held(pr[p].ofile, Fds, f)
             /\ Cardinality(HeldIn(pr, Fds, f)) \in Nat /\ Held(pr[p].ofile, Fds, f) \in Nat
  <2>1. IsFiniteSet(Fds)
    BY Domains
  <2>2. /\ Cardinality(HeldIn(pr, Fds, f)) \in Nat
        /\ Cardinality(HeldIn(r, Fds, f)) =
              Cardinality(HeldIn(pr, Fds, f)) - Held(pr[q].ofile, Fds, f) + Held(r[q].ofile, Fds, f)
    BY ONLY <1>2, <2>1, HeldChanges, q \in Procs
  <2>3. /\ Held(r[p].ofile, Fds, f) \in Nat
        /\ Cardinality(HeldIn(pr', Fds, f)) =
              Cardinality(HeldIn(r, Fds, f)) - Held(r[p].ofile, Fds, f) + Held(pr'[p].ofile, Fds, f)
    BY ONLY <1>2, <2>1, HeldChanges, p \in Procs
  <2>4. /\ Held(pr[q].ofile, Fds, f) = 0 /\ r[q].ofile = pr[p].ofile
        /\ r[p].ofile = pr[p].ofile /\ pr'[p].ofile = pr[p].ofile
    BY <1>2 DEF Doubled
  <2> QED BY ONLY <2>2, <2>3, <2>4
<1>5. ASSUME NEW x PROVE OpenIn(file', x) = OpenIn(file, x)
  <2>1. ASSUME NEW f \in DOMAIN file
        PROVE  (file'[f].ref > 0 <=> file[f].ref > 0) /\ Target(file'[f]) = Target(file[f])
    <3>1. /\ file'[f].ref = file[f].ref + Held(pr[p].ofile, Fds, f) /\ Target(file'[f]) = Target(file[f])
          /\ file[f].ref = 0 => Held(pr[p].ofile, Fds, f) = 0
      BY DEF Recounted
    <3>2. file[f].ref \in Nat /\ Held(pr[p].ofile, Fds, f) \in Nat
      BY <1>4 DEF TypesOK, OFile
    <3> QED BY ONLY <3>1, <3>2
  <2>2. DOMAIN file' = DOMAIN file
    BY DEF Recounted
  <2> QED BY ONLY <2>1, <2>2 DEF OpenIn
<1>6. \A x : x # Nothing => Users(x)' = Users(x)
  <2>1. ASSUME NEW x, x # Nothing PROVE Users(x)' = Users(x)
    <3>1. /\ Users(x) = Cardinality(OpenIn(file, x)) + Cardinality(PendingIn(pr, x))
          /\ Users(x)' = Cardinality(OpenIn(file', x)) + Cardinality(PendingIn(pr', x))
      BY InState, InNextState DEF Users
    <3> QED BY <1>3, <1>5, <2>1, <3>1
  <2> QED BY ONLY <2>1
<1>7. ASSUME NEW f \in DOMAIN file'
      PROVE  file'[f].ref = Cardinality(Descriptors(f))' + Cardinality(Pending(<<"file", f>>))'
  <2>1. f \in DOMAIN file /\ file'[f].ref = file[f].ref + Held(pr[p].ofile, Fds, f) /\ file[f].ref \in Nat
    BY <1>7 DEF Recounted, TypesOK, OFile
  <2>2. file[f].ref = Cardinality(HeldIn(pr, Fds, f)) + Cardinality(PendingIn(pr, <<"file", f>>))
    BY <2>1, InState DEF RefsExact
  <2>3. /\ Cardinality(Descriptors(f))' = Cardinality(HeldIn(pr', Fds, f))
        /\ Cardinality(Pending(<<"file", f>>))' = Cardinality(PendingIn(pr', <<"file", f>>))
    <3>1. Fds' = Fds
      BY DEF Fds
    <3> QED BY <3>1, InNextState
  <2>4. /\ Cardinality(PendingIn(pr', <<"file", f>>)) = Cardinality(PendingIn(pr, <<"file", f>>))
        /\ Cardinality(PendingIn(pr, <<"file", f>>)) \in Nat
    BY <1>3 DEF Nothing
  <2>5. /\ Cardinality(HeldIn(pr', Fds, f)) = Cardinality(HeldIn(pr, Fds, f)) + Held(pr[p].ofile, Fds, f)
        /\ Cardinality(HeldIn(pr, Fds, f)) \in Nat /\ Held(pr[p].ofile, Fds, f) \in Nat
    BY <1>4, <2>1
  <2> QED BY ONLY <2>1, <2>2, <2>3, <2>4, <2>5
<1>8. RefsExact'
  <2>1. \A e \in DOMAIN entry' : entry'[e].ref = Users(<<"entry", e>>)'
    BY <1>6 DEF RefsExact, Nothing
  <2> QED BY <1>7, <2>1 DEF RefsExact
<1>9. PipeEndsOpen'
  <2>1. \A i \in DOMAIN pipe : /\ Users(<<"end", i, TRUE>>)' = Users(<<"end", i, TRUE>>)
                               /\ Users(<<"end", i, FALSE>>)' = Users(<<"end", i, FALSE>>)
    BY <1>6 DEF Nothing
  <2>2. pipe' = pipe
    OBVIOUS
  <2> QED BY <2>1, <2>2 DEF PipeEndsOpen
<1> QED BY <1>8, <1>9

LEMMA ForkStep ==
  ASSUME ShIndInv, NEW p \in Procs, Fork(p), input' = input
  PROVE  ShIndInv'
<1>1. At(p, "fork") /\ UNCHANGED <<load, pipe, entry, out>> /\ "fork" \notin CallOps
  <2>1. At(p, "fork") /\ UNCHANGED <<load, pipe, entry, out>>
    BY ZenonT(60) DEF Fork
  <2> QED BY <2>1, NoCallOps
<1>2. /\ TypesOK /\ pr \in [Procs -> Process] /\ FilesOK(file, pipe, entry) /\ RefsExact /\ PipeEndsOpen
      /\ \A r \in Procs : ProcessOK(pr[r], file, entry)
  BY Parts
<1>3. /\ faults \in Nat /\ file \in [1..load.nfile -> OFile] /\ pipe \in [1..load.npipe -> APipe]
      /\ entry \in [Names -> AnEntry] /\ out \in Seq(Nat)
  BY <1>2 DEF TypesOK
<1>4. PICK i, u : i = Now(p) /\ u = Tail(pr[p].todo)
  OBVIOUS
<1>5. /\ pr[p] \in Process /\ pr[p].st = "live" /\ i \in ProgramStep /\ i.op = "fork"
      /\ Plain(pr[p].todo) /\ u \in Seq(AnyStep) /\ Plain(u)
  BY <1>1, <1>4, Doing DEF Undo
<1>6. i.child \in Seq(AnyStep) /\ Plain(i.child)
  <2>1. i.child \in Children
    BY ONLY <1>5, ProgramSteps
  <2> QED BY <2>1, ChildrenSteps, AllPlain
<1>7. ASSUME NEW t \in Seq(AnyStep), Plain(t)
      PROVE  /\ NothingLeft(t) /\ Shape(t)
             /\ \A fs, es : t # <<>> => HeadOK(t[1], fs, es)
  <2>1. \A x : x # Nothing => InTodo(t, x) = 0
    BY <1>7, SilentSteps, NothingPending
  <2>2. t # <<>> => 1 \in DOMAIN t
    BY <1>7, HeadOfTodo
  <2>3. t # <<>> => t[1].op \notin {"pipe2", "pipe3", "opened"}
    BY <1>7, <2>2 DEF Plain, CallOps
  <2> QED BY <1>7, <2>1, <2>3 DEF NothingLeft, Shape, Plain, HeadOK
<1>8. ASSUME NEW r \in Int, NEW y, y = Ret(p, r, <<>>)
      PROVE  y \in Process /\ y.st = "live" /\ y.todo = u /\ y.ofile = pr[p].ofile
  <2>1. PICK T : T = <<>>
    OBVIOUS
  <2>2. Joins(u, T, Tail(pr[p].todo))
    BY <1>4, <1>5, <2>1 DEF Joins
  <2>3. y = Ret(p, r, T)
    BY ONLY <1>8, <2>1, Zenon
  <2> QED BY ONLY <1>5, <2>2, <2>3, Proceeds, p \in Procs, r \in Int
<1>9. ASSUME Becomes(p, Ret(p, -1, <<>>)), file' = file, faults' \in Nat
      PROVE  ShIndInv'
  <2>1. PICK y : y = Ret(p, -1, <<>>) /\ Becomes(p, y)
    BY <1>9
  <2>2. y \in Process /\ y.st = "live" /\ y.todo = u /\ y.ofile = pr[p].ofile
    <3>1. -1 \in Int
      OBVIOUS
    <3> QED BY ONLY <1>8, <2>1, <3>1
  <2>3. NothingLeft(pr[p].todo) /\ NothingLeft(u) /\ Shape(u) /\ (u # <<>> => HeadOK(u[1], file, entry))
    BY <1>5, <1>7 DEF Process
  <2>4. Alike(pr[p].todo, y.todo)
    BY <2>2, <2>3 DEF Alike, NothingLeft
  <2>5. Shape(y.todo) /\ (y.todo # <<>> => HeadOK(y.todo[1], file, entry))
    BY ONLY <2>2, <2>3
  <2> QED BY <1>1, <1>9, <2>1, <2>2, <2>4, <2>5, SameRefs
<1>10. ASSUME NEW q \in Slots, NEW c,
              c = [Unused EXCEPT !.st = "live", !.parent = p, !.ofile = pr[p].ofile, !.todo = i.child, !.p = pr[p].p],
              pr' = [pr EXCEPT ![p] = Ret(p, q, <<>>), ![q] = c],
              file' = [f \in DOMAIN file |-> [file[f] EXCEPT !.ref = @ + Count(f, pr[p].ofile)]],
              faults' = faults
       PROVE  ShIndInv'
  <2>1. q \in Procs /\ pr[q].st = "unused" /\ q # p /\ q \in Int
    <3>1. q \in 1..load.nproc /\ pr[q].st = "unused"
      BY <1>10 DEF Slots, Lowest
    <3>2. q \in Procs
      BY <1>2, <3>1, Domains
    <3> QED BY <1>5, <3>1, <3>2
  <2>2. PICK y : y = Ret(p, q, <<>>)
    OBVIOUS
  <2>3. y \in Process /\ y.st = "live" /\ y.todo = u /\ y.ofile = pr[p].ofile
    BY ONLY <1>8, <2>1, <2>2
  <2>4. c \in Process /\ c.st = "live" /\ c.todo = i.child /\ c.ofile = pr[p].ofile
    <3>1. <<>> \in Seq(Nat) /\ 0 \in Int
      OBVIOUS
    <3> QED BY ONLY <1>5, <1>6, <1>10, <3>1, p \in Procs DEF Unused, Process
  <2>5. /\ pr'[p] = y /\ pr'[q] = c /\ \A r \in Procs : r # p /\ r # q => pr'[r] = pr[r]
        /\ DOMAIN pr' = Procs /\ pr' \in [Procs -> Process]
    BY ONLY <1>2, <1>10, <2>1, <2>2, <2>3, <2>4, p \in Procs
  <2>6. /\ pr[q].todo = <<>> /\ \A fd \in Fds : pr[q].ofile[fd] = None
    BY <1>2, <2>1 DEF ProcessOK, Process
  <2>7. ASSUME NEW f \in DOMAIN file PROVE Held(pr[q].ofile, Fds, f) = 0
    <3>1. {fd \in Fds : pr[q].ofile[fd] = f} = {}
      BY <1>2, <2>6, Domains
    <3> QED BY <3>1, FS_EmptySet DEF Held
  <2>8. Doubled(pr, pr', p, q)
    <3>1. /\ NothingLeft(pr[p].todo) /\ NothingLeft(u) /\ NothingLeft(i.child)
      BY <1>5, <1>6, <1>7 DEF Process
    <3>2. NothingLeft(pr[q].todo)
      BY <2>6 DEF NothingLeft, InTodo
    <3>3. DOMAIN pr = Procs
      BY <1>2
    <3> QED BY <2>1, <2>3, <2>4, <2>5, <2>7, <3>1, <3>2, <3>3 DEF Doubled
  <2>9. ASSUME NEW f \in DOMAIN file
        PROVE  /\ Count(f, pr[p].ofile) = Held(pr[p].ofile, Fds, f) /\ Held(pr[p].ofile, Fds, f) \in Nat
               /\ file[f].ref = 0 => Held(pr[p].ofile, Fds, f) = 0
               /\ file[f].type = "none" => Held(pr[p].ofile, Fds, f) = 0
    <3>1. DOMAIN pr[p].ofile = Fds
      BY <1>5 DEF Process
    <3>2. Count(f, pr[p].ofile) = Held(pr[p].ofile, Fds, f)
      BY <3>1 DEF Count, Held
    <3>3. ~HasFd(pr[p], f) => Held(pr[p].ofile, Fds, f) = 0
      <4>1. ~HasFd(pr[p], f) => {fd \in Fds : pr[p].ofile[fd] = f} = {}
        BY DEF HasFd
      <4> QED BY <4>1, FS_EmptySet DEF Held
    <3>4. file[f].ref = 0 => ~HasFd(pr[p], f)
      BY <1>2, Holders
    <3>5. file[f].type = "none" => ~HasFd(pr[p], f)
      <4>1. f # None
        BY <1>2, Domains
      <4> QED BY <1>2, <3>1, <4>1 DEF ProcessOK, HasFd
    <3> QED BY <1>2, <3>2, <3>3, <3>4, <3>5, HeldNumbers
  <2>10. ASSUME NEW f \in DOMAIN file
         PROVE  /\ file'[f] \in OFile /\ file'[f].ref = file[f].ref + Held(pr[p].ofile, Fds, f)
                /\ file'[f].type = file[f].type /\ file'[f].to = file[f].to
                /\ file'[f].readable = file[f].readable /\ file'[f].writable = file[f].writable
    <3>1. PICK n : n = file[f].ref + Held(pr[p].ofile, Fds, f)
      OBVIOUS
    <3>2. file[f] \in OFile
      BY <1>3
    <3>3. n \in Nat
      BY ONLY <2>9, <3>1, <3>2 DEF OFile
    <3>4. file'[f] = [file[f] EXCEPT !.ref = n]
      BY ONLY <1>10, <2>9, <3>1
    <3> QED BY ONLY <3>1, <3>2, <3>3, <3>4 DEF OFile
  <2>11. DOMAIN file' = DOMAIN file /\ file' \in [1..load.nfile -> OFile]
    <3>1. file' = [f \in DOMAIN file |-> file'[f]] /\ DOMAIN file = 1..load.nfile
      BY ONLY <1>3, <1>10
    <3> QED BY ONLY <2>10, <3>1
  <2>12. Recounted(file, file', pr[p].ofile)
    BY <2>9, <2>10, <2>11 DEF Recounted, Target
  <2>13. RefsExact' /\ PipeEndsOpen'
    BY ONLY <1>1, <1>2, <2>1, <2>8, <2>12, ForkAccounts, p \in Procs
  <2>14. TypesOK'
    BY <1>1, <1>2, <1>10, <2>11 DEF TypesOK, OFile, APipe, AnEntry
  <2>15. FilesOK(file', pipe', entry')
    <3>1. ASSUME NEW f \in DOMAIN file'
          PROVE  /\ file'[f].type = "none" => file'[f].ref <= 1
                 /\ file'[f].type = "pipe" => file'[f].to \in DOMAIN pipe' /\ file'[f].readable = ~file'[f].writable
                 /\ file'[f].type = "entry" => file'[f].to \in Names /\ entry'[file'[f].to].bytes # None
                 /\ file'[f].ref = 0 => file'[f].type = "none"
      <4>1. f \in DOMAIN file /\ pipe' = pipe /\ entry' = entry
        BY <1>1, <2>11, <3>1
      <4>2. /\ file[f].type = "none" => file[f].ref <= 1
            /\ file[f].type = "pipe" => file[f].to \in DOMAIN pipe /\ file[f].readable = ~file[f].writable
            /\ file[f].type = "entry" => file[f].to \in Names /\ entry[file[f].to].bytes # None
            /\ file[f].ref = 0 => file[f].type = "none"
        BY <1>2, <4>1 DEF FilesOK
      <4>3. file[f].ref \in Nat
        BY <1>3, <4>1 DEF OFile
      <4> QED BY ONLY <2>9, <2>10, <4>1, <4>2, <4>3
    <3> QED BY ONLY <3>1, Zenon DEF FilesOK
  <2>16. ASSUME NEW x \in Process, Plain(x.todo), x.st = "live", x.ofile = pr[p].ofile
         PROVE  ProcessOK(x, file', entry')
    <3>1. Shape(x.todo) /\ (x.todo # <<>> => HeadOK(x.todo[1], file', entry'))
      BY <1>7, <2>16 DEF Process
    <3>2. DOMAIN x.ofile = Fds /\ \A fd \in Fds : x.ofile[fd] # None => x.ofile[fd] \in DOMAIN file
      BY <2>16 DEF Process
    <3>3. \A fd \in Fds : x.ofile[fd] # None => file[x.ofile[fd]].type # "none"
      BY <1>2, <2>16, <3>2 DEF ProcessOK
    <3> QED BY <2>10, <2>16, <3>1, <3>2, <3>3 DEF ProcessOK
  <2>17. ASSUME NEW r \in Procs PROVE ProcessOK(pr'[r], file', entry')
    <3>1. CASE r = p
      BY <1>5, <2>3, <2>5, <2>16, <3>1
    <3>2. CASE r = q
      BY <1>6, <2>4, <2>5, <2>16, <3>2
    <3>3. CASE r # p /\ r # q
      <4>1. pr'[r] = pr[r] /\ pr[r] \in Process /\ ProcessOK(pr[r], file, entry)
        BY <1>2, <2>5, <3>3
      <4>2. PICK x : x = pr[r]
        OBVIOUS
      <4>3. x \in Process /\ ProcessOK(x, file, entry)
        BY ONLY <4>1, <4>2
      <4>4. \A g \in DOMAIN file : file[g].type # "none" /\ HasFd(x, g) => file'[g].type # "none"
        BY ONLY <2>10
      <4>5. \A g \in DOMAIN file : file[g].type = "none" /\ Owns(x, g) => file'[g].type = "none"
        BY ONLY <2>10
      <4>6. \A e \in Names : entry[e].bytes # None => entry'[e].bytes # None
        BY ONLY <1>1
      <4>7. ProcessOK(x, file', entry')
        BY ONLY <4>3, <4>4, <4>5, <4>6, StaysOK
      <4> QED BY ONLY <4>1, <4>2, <4>7
    <3> QED BY ONLY <3>1, <3>2, <3>3
  <2>18. Process' = Process
    BY ONLY <1>1, <1>2, <2>14, SameTypes
  <2>19. pr' \in [Procs -> Process'] /\ \A r \in Procs : ProcessOK(pr'[r], file', entry')
    BY ONLY <2>5, <2>17, <2>18
  <2> QED BY ONLY <2>13, <2>14, <2>15, <2>19, PartsNext
<1>11. \/ Becomes(p, Ret(p, -1, <<>>)) /\ UNCHANGED <<file, faults>>
       \/ /\ faults > 0 /\ faults' = faults - 1
          /\ Becomes(p, Ret(p, -1, <<>>)) /\ UNCHANGED file
       \/ \E q \in Slots :
            /\ pr' = [pr EXCEPT ![p] = Ret(p, q, <<>>),
                 ![q] = [Unused EXCEPT !.st = "live", !.parent = p, !.ofile = pr[p].ofile,
                                       !.todo = i.child, !.p = pr[p].p]]
            /\ file' = [f \in DOMAIN file |-> [file[f] EXCEPT !.ref = @ + Count(f, pr[p].ofile)]]
            /\ UNCHANGED faults
  BY ONLY Fork(p), <1>4, ZenonT(120) DEF Fork
<1>12. CASE Becomes(p, Ret(p, -1, <<>>)) /\ UNCHANGED <<file, faults>>
  BY ONLY <1>3, <1>9, <1>12
<1>13. CASE /\ faults > 0 /\ faults' = faults - 1
            /\ Becomes(p, Ret(p, -1, <<>>)) /\ UNCHANGED file
  <2>1. faults' \in Nat
    BY ONLY <1>3, <1>13
  <2> QED BY ONLY <1>9, <1>13, <2>1
<1>14. ASSUME NEW q \in Slots,
              pr' = [pr EXCEPT ![p] = Ret(p, q, <<>>),
                 ![q] = [Unused EXCEPT !.st = "live", !.parent = p, !.ofile = pr[p].ofile,
                                       !.todo = i.child, !.p = pr[p].p]],
              file' = [f \in DOMAIN file |-> [file[f] EXCEPT !.ref = @ + Count(f, pr[p].ofile)]],
              UNCHANGED faults
       PROVE  ShIndInv'
  <2>1. PICK c : c = [Unused EXCEPT !.st = "live", !.parent = p, !.ofile = pr[p].ofile,
                                    !.todo = i.child, !.p = pr[p].p]
    OBVIOUS
  <2>2. pr' = [pr EXCEPT ![p] = Ret(p, q, <<>>), ![q] = c]
    BY ONLY <1>14, <2>1, Zenon
  <2> QED BY ONLY <1>10, <1>14, <2>1, <2>2, Zenon
<1> QED BY ONLY <1>11, <1>12, <1>13, <1>14, Zenon

-----------------------------------------------------------------------------
(* The invariant holds when /init starts: it is the only process, and      *)
(* nothing is open.                                                        *)
Start == <<dev, dup(0), dup(0)>> \o StartSh

LEMMA StartPlain == Start \in Seq(AnyStep) /\ Plain(Start)
<1>1. /\ dev \in ProgramStep /\ dup(0) \in ProgramStep /\ orExit \in ProgramStep
      /\ [op |-> "started"] \in ProgramStep /\ fork(Sh) \in ProgramStep
  <2>1. 0 \in Int
    OBVIOUS
  <2> QED BY <2>1, Steps1, ChildrenSteps
<1>2. PICK a, b, c : a = <<dev, dup(0), dup(0)>> /\ b = <<fork(Sh), orExit, [op |-> "started"]>> /\ c = a \o b
  OBVIOUS
<1>3. a \in Seq(ProgramStep) /\ b \in Seq(ProgramStep)
  BY ONLY <1>1, <1>2
<1>4. c \in Seq(ProgramStep)
  BY ONLY <1>2, <1>3
<1>5. Start = c
  BY ONLY <1>2, Zenon DEF Start, StartSh
<1> QED BY ONLY <1>4, <1>5, AllPlain

LEMMA InitHolds ==
  ASSUME Init
  PROVE  ShIndInv
<1>1. /\ load \in Loads /\ load.nfile \in Nat /\ load.nofile \in Nat /\ load.npipe \in Nat
      /\ load.faults \in Nat /\ load.input \in Seq(Commands) /\ load.disk \in [Names -> {None} \cup Seq(Nat)]
      /\ INIT \in Procs /\ None \notin 1..load.nfile
  BY LoadsAssumption DEF Init
<1>2. /\ input = load.input /\ out = <<>> /\ faults = load.faults
      /\ file = [f \in 1..load.nfile |-> Closed] /\ pipe = [i \in 1..load.npipe |-> NoPipe]
      /\ entry = [e \in DOMAIN load.disk |-> [ref |-> 0, bytes |-> load.disk[e]]]
  BY DEF Init
<1>3. /\ \A q \in Procs : q # INIT => pr[q] = Unused
      /\ pr[INIT] = [Unused EXCEPT !.st = "live", !.todo = Start] /\ DOMAIN pr = Procs
      /\ pr = [q \in Procs |-> pr[q]]
  BY <1>1 DEF Init, Start
<1>4. /\ file \in [1..load.nfile -> OFile] /\ \A f \in DOMAIN file : file[f] = Closed
  <2>1. Closed \in OFile
    BY DEF Closed, OFile
  <2> QED BY <1>2, <2>1
<1>5. pipe \in [1..load.npipe -> APipe] /\ \A i \in DOMAIN pipe : pipe[i] = NoPipe
  <2>1. <<>> \in Seq(Nat)
    OBVIOUS
  <2>2. NoPipe \in APipe
    BY <2>1 DEF NoPipe, APipe
  <2> QED BY <1>2, <2>2
<1>6. entry \in [Names -> AnEntry] /\ \A e \in Names : entry[e].ref = 0
  BY <1>1, <1>2 DEF AnEntry
<1>7. TypesOK
  <2>1. <<>> \in Seq(Nat)
    OBVIOUS
  <2> QED BY <1>1, <1>2, <1>4, <1>5, <1>6, <2>1 DEF TypesOK
<1>8. Unused \in Process /\ \A t \in Seq(AnyStep) : [Unused EXCEPT !.st = "live", !.todo = t] \in Process
  <2>1. <<>> \in Seq(Nat) /\ <<>> \in Seq(AnyStep) /\ 0 \in Int /\ <<0, 0>> \in Nat \X Nat
    OBVIOUS
  <2> QED BY ONLY <2>1 DEF Unused, Process
<1>9. ASSUME NEW q \in Procs
      PROVE  /\ pr[q] \in Process /\ \A fd \in Fds : pr[q].ofile[fd] = None
             /\ pr[q].todo \in Seq(AnyStep) /\ Plain(pr[q].todo)
             /\ pr[q].st # "live" => pr[q].todo = <<>>
  <2>1. <<>> \in Seq(AnyStep) /\ Plain(<<>>)
    BY DEF Plain
  <2>2. CASE q = INIT
    <3>1. pr[q].todo = Start /\ pr[q].st = "live" /\ pr[q].ofile = [fd \in Fds |-> None]
      BY ONLY <1>3, <2>2 DEF Unused
    <3>2. pr[q] \in Process
      BY ONLY <1>3, <1>8, <2>2, StartPlain
    <3> QED BY <3>1, <3>2, StartPlain
  <2>3. CASE q # INIT
    <3>1. pr[q] = Unused /\ Unused.todo = <<>> /\ Unused.ofile = [fd \in Fds |-> None]
      BY ONLY <1>3, <2>3 DEF Unused
    <3> QED BY <1>8, <2>1, <3>1
  <2> QED BY ONLY <2>2, <2>3
<1>10. ShTypeOK
  <2>1. pr \in [Procs -> Process]
    BY ONLY <1>3, <1>9
  <2> QED BY <1>7, <2>1 DEF ShTypeOK, TypesOK, Process, OFile, APipe, AnEntry, AnyStep
<1>11. OnlyLive
  BY <1>9 DEF OnlyLive
<1>12. CallFirst
  BY <1>9 DEF CallFirst, Plain
<1>13. Opening
  <2>1. ASSUME NEW q \in Procs PROVE ~At(q, "pipe2") /\ ~At(q, "pipe3") /\ ~At(q, "opened")
    <3>1. pr[q].todo # <<>> => Head(pr[q].todo).op \notin CallOps
      BY <1>9, HeadOfTodo DEF Plain
    <3> QED BY <3>1 DEF At, CallOps
  <2>2. \A f \in DOMAIN file : file[f].type = "none" /\ file[f].ref = 0
    BY <1>4 DEF Closed
  <2> QED BY <1>9, <2>1, <2>2 DEF Opening
<1>14. ASSUME NEW x, x # Nothing PROVE Pending(x) = {} /\ OpenFiles(x) = {}
  <2>1. ASSUME NEW q \in Procs, NEW k \in DOMAIN pr[q].todo, NEW j \in 1..2
        PROVE  Refers(pr[q].todo[k], j) # x
    <3>1. Refs(pr[q].todo[k], x) = 0
      BY <1>9, <1>14, SilentSteps DEF Silent, Plain
    <3> QED BY <3>1 DEF Refs
  <2>2. Pending(x) = {}
    BY <2>1 DEF Pending
  <2>3. OpenFiles(x) = {}
    BY <1>4 DEF OpenFiles, Closed
  <2> QED BY <2>2, <2>3
<1>15. \A x : x # Nothing => Cardinality(Pending(x)) = 0 /\ Users(x) = 0
  BY <1>14, FS_EmptySet DEF Users
<1>16. RefsExact
  <2>1. ASSUME NEW f \in DOMAIN file
        PROVE  file[f].ref = Cardinality(Descriptors(f)) + Cardinality(Pending(<<"file", f>>))
    <3>1. Descriptors(f) = {}
      BY <1>1, <1>4, <1>9 DEF Descriptors
    <3>2. Cardinality(Pending(<<"file", f>>)) = 0
      BY <1>15 DEF Nothing
    <3>3. file[f].ref = 0
      BY <1>4 DEF Closed
    <3> QED BY <3>1, <3>2, <3>3, FS_EmptySet
  <2>2. ASSUME NEW e \in DOMAIN entry PROVE entry[e].ref = Users(<<"entry", e>>)
    BY <1>6, <1>15 DEF Nothing
  <2> QED BY <2>1, <2>2 DEF RefsExact
<1>17. PipeEndsOpen
  <2>1. \A i : Users(<<"end", i, TRUE>>) = 0 /\ Users(<<"end", i, FALSE>>) = 0
    BY <1>15 DEF Nothing
  <2>2. \A i \in DOMAIN pipe : ~pipe[i].writeopen /\ ~pipe[i].readopen /\ pipe[i].alloc = FALSE
    BY <1>5 DEF NoPipe
  <2> QED BY ONLY <2>1, <2>2 DEF PipeEndsOpen
<1> QED BY <1>10, <1>11, <1>12, <1>13, <1>16, <1>17 DEF ShIndInv

-----------------------------------------------------------------------------
(* Every step keeps it.                                                    *)
LEMMA CallKeeps ==
  ASSUME ShIndInv, NEW p \in Procs, Call(p), input' = input
  PROVE  ShIndInv'
<1>1. CASE Close(p) \/ Fileclose(p) \/ Pipeclose(p) \/ Eput(p)
  BY <1>1, CloseStep, FilecloseStep, PipecloseStep, EputStep
<1>2. CASE Dup(p) \/ Dev(p) \/ Open(p) \/ Opened(p)
  BY <1>2, DupStep, DevStep, OpenStep, OpenedStep
<1>3. CASE Pipe1(p) \/ Pipe2(p) \/ Pipe3(p)
  BY <1>3, Pipe1Step, Pipe2Step, Pipe3Step
<1>4. CASE Read(p) \/ Write(p)
  BY <1>4, ReadStep, WriteStep
<1>5. CASE Fork(p) \/ Exit(p) \/ Wait(p)
  BY <1>5, ForkStep, ExitStep, WaitStep
<1> QED BY <1>1, <1>2, <1>3, <1>4, <1>5 DEF Call

LEMMA StepKeeps ==
  ASSUME ShIndInv, NEW p \in Procs, Step(p)
  PROVE  ShIndInv'
<1>1. CASE Call(p) /\ input' = input
  BY <1>1, CallKeeps
<1>2. CASE Runcmd(p) /\ input' = input
  BY <1>2, RuncmdStep
<1>3. CASE \/ (OrExit(p) \/ Cat(p) \/ ShellDev(p) \/ InitWait(p)) /\ input' = input
           \/ Shell(p)
  BY <1>3, ProgramStepsKeep
<1> QED BY <1>1, <1>2, <1>3 DEF Step

LEMMA StutterKeeps ==
  ASSUME ShIndInv, UNCHANGED svars
  PROVE  ShIndInv'
<1>1. UNCHANGED <<load, file, pipe, entry, pr, out, faults, input>>
  BY DEF svars, vars
<1>2. Fds' = Fds /\ CallStep' = CallStep
  BY <1>1 DEF Fds, CallStep
<1>3. ShTypeOK' /\ OnlyLive' /\ CallFirst'
  BY <1>1, <1>2 DEF ShIndInv, ShTypeOK, OnlyLive, CallFirst
<1>4. Opening'
  BY <1>1, <1>2 DEF ShIndInv, Opening, At, Now
<1>5. /\ \A x : Pending(x)' = Pending(x) /\ Users(x)' = Users(x)
      /\ \A f : Descriptors(f)' = Descriptors(f)
  BY <1>1, <1>2, InState, InNextState DEF Users
<1>6. RefsExact' /\ PipeEndsOpen'
  BY <1>1, <1>5 DEF ShIndInv, RefsExact, PipeEndsOpen
<1> QED BY <1>3, <1>4, <1>6 DEF ShIndInv

THEOREM Invariance == Spec => []ShIndInv
<1>1. Init => ShIndInv
  BY InitHolds
<1>2. ShIndInv /\ [Next]_svars => ShIndInv'
  BY StepKeeps, StutterKeeps DEF Next
<1> QED BY <1>1, <1>2, PTL DEF Spec

(* Whichever of their steps failed, fork(), exit(), dup(), open(), dev(),  *)
(* pipe() and close() (sysfile.c, file.c, pipe.c, proc.c) leave as many    *)
(* references in a file and in an entry as there are descriptors and files *)
(* that use it, and steps under way that still have to give one back.      *)
THEOREM ReferencesExact == Spec => []RefsExact
<1>1. ShIndInv => RefsExact
  BY DEF ShIndInv
<1> QED BY <1>1, Invariance, PTL

(* An end of a pipe is open as long as some process has a descriptor for   *)
(* it, or has not yet finished closing the last one (pipeclose() is called *)
(* once for each end), and the page of a pipe is free exactly when both    *)
(* are closed.                                                             *)
THEOREM EndsOpen == Spec => []PipeEndsOpen
<1>1. ShIndInv => PipeEndsOpen
  BY DEF ShIndInv
<1> QED BY <1>1, Invariance, PTL
=============================================================================
