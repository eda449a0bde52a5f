----------------------------- MODULE Sync_proof ------------------------------
(*****************************************************************************)
(* The locks and the buffer cache, for every number of harts, locks,         *)
(* processes, channels, buffers and sectors: spin locks exclude, never panic *)
(* and leave interrupts as they were; sleep() and wakeup() implement         *)
(* CondVar; the sleep lock is a mutex; a sector has at most one buffer, and  *)
(* the buffer of a process between bget() and brelse() keeps its sector.     *)
(*****************************************************************************)
EXTENDS SpinLock, SleepWakeup, SleepLock, BCache, FiniteSetTheorems, TLAPS

(* A context is the thread or the handler of its CPU. *)
LEMMA CtxShape ==
  /\ \A x \in Ctx : x[1] \in CPU /\ x[2] \in Level /\ (x = T(x[1]) \/ x = H(x[1]))
  /\ \A c \in CPU : T(c) \in Ctx /\ H(c) \in Ctx /\ T(c)[1] = c /\ H(c)[1] = c
                    /\ T(c)[2] = "thread" /\ H(c)[2] = "intr" /\ T(c) # H(c)
  /\ \A c, d \in CPU : T(c) # H(d) /\ (T(c) = T(d) => c = d) /\ (H(c) = H(d) => c = d)
BY DEF Ctx, Level, T, H

(* Sets of locks are finite: their sizes are naturals bounded by Lock's,   *)
(* and adding or removing one lock moves the size by one.                  *)
LEMMA Sizes ==
  /\ Cardinality({}) = 0
  /\ Cardinality(Lock) \in Nat
  /\ \A S \in SUBSET Lock : Cardinality(S) \in Nat /\ Cardinality(S) <= Cardinality(Lock)
  /\ \A S \in SUBSET Lock, l \in Lock :
        l \notin S => Cardinality(S \cup {l}) = Cardinality(S) + 1
  /\ \A S \in SUBSET Lock, l \in Lock :
        l \in S => Cardinality(S \ {l}) = Cardinality(S) - 1 /\ Cardinality(S) >= 1
<1>1. Cardinality({}) = 0
  BY FS_EmptySet
<1>2. \A S \in SUBSET Lock : IsFiniteSet(S) /\ Cardinality(S) \in Nat
                             /\ Cardinality(S) <= Cardinality(Lock)
  BY LockAssumption, FS_Subset, FS_CardinalityType
<1>3. Cardinality(Lock) \in Nat
  BY LockAssumption, FS_CardinalityType
<1>4. \A S \in SUBSET Lock, l \in Lock :
         l \notin S => Cardinality(S \cup {l}) = Cardinality(S) + 1
  BY <1>2, FS_AddElement
<1>5. \A S \in SUBSET Lock, l \in Lock :
         l \in S => Cardinality(S \ {l}) = Cardinality(S) - 1
  BY <1>2, FS_RemoveElement
<1>6. \A S \in SUBSET Lock, l \in Lock : l \in S => Cardinality(S) >= 1
  <2> SUFFICES ASSUME NEW S \in SUBSET Lock, NEW l \in S PROVE Cardinality(S) >= 1
    OBVIOUS
  <2>1. Cardinality(S) # 0
    BY <1>2, FS_EmptySet
  <2> QED BY <2>1, <1>2
<1> QED BY <1>1, <1>2, <1>3, <1>4, <1>5, <1>6

(* The type invariant without the bound on noff. *)
Types ==
  /\ locked \in [Lock -> BOOLEAN]
  /\ cpu \in [Lock -> CPU \cup {NoCpu}]
  /\ noff \in [CPU -> Int]
  /\ intena \in [CPU -> BOOLEAN]
  /\ sie \in [CPU -> BOOLEAN]
  /\ irq \in [CPU -> BOOLEAN]
  /\ pc \in [Ctx -> Labels]
  /\ arg \in [Ctx -> Lock \cup {NoLock}]
  /\ old \in [Ctx -> BOOLEAN]
  /\ seen \in [Ctx -> BOOLEAN]
  /\ held \in [Ctx -> SUBSET Lock]
  /\ want \in [CPU -> BOOLEAN]

(* The bound on noff follows from the levels: a CPU's two contexts are     *)
(* never both inside a masked section.                                     *)
LEMMA NoffBound == Types /\ Levels /\ Handlers => TypeOK
<1> SUFFICES ASSUME Types, Levels, Handlers, NEW c \in CPU
             PROVE  noff[c] \in 0..(Cardinality(Lock) + 1)
  BY DEF Types, TypeOK
<1>1. noff[c] = Depth(T(c)) + Depth(H(c))
  BY DEF Levels
<1>2. /\ Cardinality(held[T(c)]) \in Nat /\ Cardinality(held[T(c)]) <= Cardinality(Lock)
      /\ Cardinality(held[H(c)]) \in Nat /\ Cardinality(held[H(c)]) <= Cardinality(Lock)
      /\ Cardinality(Lock) \in Nat
  BY Sizes, CtxShape DEF Types
<1>3. CASE irq[c]
  <2>0. held[T(c)] = {} /\ pc[T(c)] \in {"run", "push1", "push2"}
    BY <1>3 DEF Handlers
  <2>1. Depth(T(c)) = 0
    BY <2>0, Sizes DEF Depth
  <2>2. Depth(H(c)) \in 0..(Cardinality(Lock) + 1)
    BY <1>2 DEF Depth
  <2> QED BY <1>1, <2>1, <2>2
<1>4. CASE ~irq[c]
  <2>0. held[H(c)] = {} /\ pc[H(c)] = "run"
    BY <1>4 DEF Handlers
  <2>1. Depth(H(c)) = 0
    BY <2>0, Sizes DEF Depth
  <2>2. Depth(T(c)) \in 0..(Cardinality(Lock) + 1)
    BY <1>2 DEF Depth
  <2> QED BY <1>1, <2>1, <2>2
<1> QED BY <1>3, <1>4

(* Depths are naturals. *)
LEMMA DepthNat ==
  ASSUME TypeOK, NEW y \in Ctx
  PROVE  Depth(y) \in Nat
<1>1. Cardinality(held[y]) \in Nat
  BY Sizes DEF TypeOK
<1> QED BY <1>1 DEF Depth

(* A context inside a masked section has counted its level. *)
LEMMA Nested ==
  ASSUME IndInv, NEW x \in Ctx,
         held[x] # {} \/ pc[x] \in {"hold1", "hold2", "swap", "pop"}
  PROVE  noff[x[1]] >= 1
<1> USE CtxShape
<1>1. \A y \in Ctx : Depth(y) \in Nat
  BY DepthNat DEF IndInv
<1>2. Depth(x) >= 1
  <2>1. CASE held[x] # {}
    <3>1. PICK l \in Lock : l \in held[x]
      BY <2>1 DEF IndInv, TypeOK
    <3>2. Cardinality(held[x]) >= 1 /\ Cardinality(held[x]) \in Nat
      BY <3>1, Sizes DEF IndInv, TypeOK
    <3> QED BY <3>2 DEF Depth
  <2>2. CASE pc[x] \in {"hold1", "hold2", "swap", "pop"}
    BY <2>2, Sizes DEF IndInv, TypeOK, Depth
  <2> QED BY <2>1, <2>2
<1>3. noff[x[1]] = Depth(T(x[1])) + Depth(H(x[1]))
  BY DEF IndInv, Levels
<1> QED BY <1>1, <1>2, <1>3

(* A step that moves the depth of one context and noff alike keeps Levels. *)
LEMMA LevelsMove ==
  ASSUME TypeOK, Levels, NEW x \in Ctx, Depth(x)' \in Int,
         \A y \in Ctx \ {x} : Depth(y)' = Depth(y),
         noff'[x[1]] = noff[x[1]] + (Depth(x)' - Depth(x)),
         \A c \in CPU \ {x[1]} : noff'[c] = noff[c]
  PROVE  Levels'
<1> USE CtxShape
<1>1. \A y \in Ctx : Depth(y) \in Int
  BY DepthNat
<1> SUFFICES ASSUME NEW c \in CPU PROVE noff'[c] = Depth(T(c))' + Depth(H(c))'
  BY DEF Levels
<1>2. noff[c] = Depth(T(c)) + Depth(H(c)) /\ noff[c] \in Int
  BY DEF Levels, TypeOK
<1>3. CASE c # x[1]
  BY <1>2, <1>3
<1>4. CASE c = x[1] /\ x = T(c)
  BY <1>1, <1>2, <1>4
<1>5. CASE c = x[1] /\ x = H(c)
  BY <1>1, <1>2, <1>5
<1> QED BY <1>3, <1>4, <1>5

(* The other context of a CPU that executes x owns nothing. *)
LEMMA Alone ==
  ASSUME IndInv, NEW x \in Ctx, Active(x), NEW y \in Ctx, y # x, y[1] = x[1]
  PROVE  held[y] = {}
BY CtxShape DEF IndInv, Handlers, Active, TypeOK

(* myproc() enters push_off with no lock in mind. *)
LEMMA CallMyprocStep ==
  ASSUME IndInv, NEW x \in Ctx, CallMyproc(x)
  PROVE  IndInv'
<1> USE CtxShape
<1>1. Types'
  BY DEF IndInv, TypeOK, Types, Arguments, Labels, CallMyproc, At, Active, Goto, lockVars, cpuVars
<1>2. NoPanic'
  BY DEF IndInv, TypeOK, NoPanic, CallMyproc, At, Active, Goto, lockVars, cpuVars
<1>3. MutualExclusion'
  BY DEF IndInv, TypeOK, MutualExclusion, CallMyproc, At, Active, Goto, lockVars, cpuVars
<1>4. LockWords'
  BY DEF IndInv, TypeOK, MutualExclusion, LockWords, Arguments, CallMyproc, At, Active, Goto, lockVars, cpuVars
<1>5. Arguments'
  BY LockAssumption DEF IndInv, TypeOK, LockWords, Arguments, NoLock, CallMyproc, At, Active, Goto, lockVars, cpuVars
<1>6. Levels'
  BY Sizes DEF IndInv, TypeOK, Levels, Depth, CallMyproc, At, Active, Goto, lockVars, cpuVars
<1>7. Handlers'
  BY DEF IndInv, TypeOK, Handlers, CallMyproc, At, Active, Goto, lockVars, cpuVars
<1>8. Masking'
  BY DEF IndInv, TypeOK, Handlers, Masking, CallMyproc, At, Active, Goto, lockVars, cpuVars
<1>9. TypeOK'
  BY <1>1, <1>6, <1>7, NoffBound, PTL
<1> QED BY <1>2, <1>3, <1>4, <1>5, <1>6, <1>7, <1>8, <1>9 DEF IndInv

(* A caller enters acquire: the lock is above all it owns. *)
LEMMA CallAcquireStep ==
  ASSUME IndInv, NEW x \in Ctx, NEW l \in Lock, CallAcquire(x, l)
  PROVE  IndInv'
<1> USE CtxShape
<1>1. Types'
  BY DEF IndInv, TypeOK, Types, Arguments, Labels, CallAcquire, At, Active, Goto, lockVars, cpuVars
<1>2. NoPanic'
  BY DEF IndInv, TypeOK, NoPanic, CallAcquire, At, Active, Goto, lockVars, cpuVars
<1>3. MutualExclusion'
  BY DEF IndInv, TypeOK, MutualExclusion, CallAcquire, At, Active, Goto, lockVars, cpuVars
<1>4. LockWords'
  BY DEF IndInv, TypeOK, MutualExclusion, LockWords, Arguments, CallAcquire, At, Active, Goto, lockVars, cpuVars
<1>5. Arguments'
  BY LockAssumption DEF IndInv, TypeOK, LockWords, Arguments, NoLock, CallAcquire, At, Active, Goto, lockVars, cpuVars
<1>6. Levels'
  BY Sizes DEF IndInv, TypeOK, Levels, Depth, CallAcquire, At, Active, Goto, lockVars, cpuVars
<1>7. Handlers'
  BY DEF IndInv, TypeOK, Handlers, CallAcquire, At, Active, Goto, lockVars, cpuVars
<1>8. Masking'
  BY DEF IndInv, TypeOK, Handlers, Masking, CallAcquire, At, Active, Goto, lockVars, cpuVars
<1>9. TypeOK'
  BY <1>1, <1>6, <1>7, NoffBound, PTL
<1> QED BY <1>2, <1>3, <1>4, <1>5, <1>6, <1>7, <1>8, <1>9 DEF IndInv

(* A caller enters release of a lock it owns. *)
LEMMA CallReleaseStep ==
  ASSUME IndInv, NEW x \in Ctx, NEW l \in Lock, CallRelease(x, l)
  PROVE  IndInv'
<1> USE CtxShape
<1>1. Types'
  BY DEF IndInv, TypeOK, Types, Arguments, Labels, CallRelease, At, Active, Goto, lockVars, cpuVars
<1>2. NoPanic'
  BY DEF IndInv, TypeOK, NoPanic, CallRelease, At, Active, Goto, lockVars, cpuVars
<1>3. MutualExclusion'
  BY DEF IndInv, TypeOK, MutualExclusion, CallRelease, At, Active, Goto, lockVars, cpuVars
<1>4. LockWords'
  BY DEF IndInv, TypeOK, MutualExclusion, LockWords, Arguments, CallRelease, At, Active, Goto, lockVars, cpuVars
<1>5. Arguments'
  BY DEF IndInv, TypeOK, LockWords, Arguments, CallRelease, At, Active, Goto, lockVars, cpuVars
<1>6. Levels'
  BY Sizes DEF IndInv, TypeOK, Levels, Depth, CallRelease, At, Active, Goto, lockVars, cpuVars
<1>7. Handlers'
  BY DEF IndInv, TypeOK, Handlers, CallRelease, At, Active, Goto, lockVars, cpuVars
<1>8. Masking'
  <2>1. noff[x[1]] >= 1
    BY Nested DEF CallRelease, At, Active, Goto, lockVars, cpuVars
  <2> QED BY <2>1 DEF IndInv, TypeOK, Handlers, Masking, CallRelease, At, Active, Goto, lockVars, cpuVars
<1>9. TypeOK'
  BY <1>1, <1>6, <1>7, NoffBound, PTL
<1> QED BY <1>2, <1>3, <1>4, <1>5, <1>6, <1>7, <1>8, <1>9 DEF IndInv

(* push_off reads SIE. *)
LEMMA PushReadStep ==
  ASSUME IndInv, NEW x \in Ctx, PushRead(x)
  PROVE  IndInv'
<1> USE CtxShape
<1>1. Types'
  BY DEF IndInv, TypeOK, Types, Arguments, Labels, PushRead, At, Active, Goto, lockVars, cpuVars
<1>2. NoPanic'
  BY DEF IndInv, TypeOK, NoPanic, PushRead, At, Active, Goto, lockVars, cpuVars
<1>3. MutualExclusion'
  BY DEF IndInv, TypeOK, MutualExclusion, PushRead, At, Active, Goto, lockVars, cpuVars
<1>4. LockWords'
  BY DEF IndInv, TypeOK, MutualExclusion, LockWords, Arguments, PushRead, At, Active, Goto, lockVars, cpuVars
<1>5. Arguments'
  BY DEF IndInv, TypeOK, LockWords, Arguments, PushRead, At, Active, Goto, lockVars, cpuVars
<1>6. Levels'
  BY Sizes DEF IndInv, TypeOK, Levels, Depth, PushRead, At, Active, Goto, lockVars, cpuVars
<1>7. Handlers'
  BY DEF IndInv, TypeOK, Handlers, PushRead, At, Active, Goto, lockVars, cpuVars
<1>8. Masking'
  BY DEF IndInv, TypeOK, Handlers, Masking, PushRead, At, Active, Goto, lockVars, cpuVars
<1>9. TypeOK'
  BY <1>1, <1>6, <1>7, NoffBound, PTL
<1> QED BY <1>2, <1>3, <1>4, <1>5, <1>6, <1>7, <1>8, <1>9 DEF IndInv

(* push_off clears SIE. *)
LEMMA PushMaskStep ==
  ASSUME IndInv, NEW x \in Ctx, PushMask(x)
  PROVE  IndInv'
<1> USE CtxShape
<1>1. Types'
  BY DEF IndInv, TypeOK, Types, Arguments, Labels, PushMask, At, Active, Goto, lockVars, cpuVars
<1>2. NoPanic'
  BY DEF IndInv, TypeOK, NoPanic, PushMask, At, Active, Goto, lockVars, cpuVars
<1>3. MutualExclusion'
  BY DEF IndInv, TypeOK, MutualExclusion, PushMask, At, Active, Goto, lockVars, cpuVars
<1>4. LockWords'
  BY DEF IndInv, TypeOK, MutualExclusion, LockWords, Arguments, PushMask, At, Active, Goto, lockVars, cpuVars
<1>5. Arguments'
  BY DEF IndInv, TypeOK, LockWords, Arguments, PushMask, At, Active, Goto, lockVars, cpuVars
<1>6. Levels'
  BY Sizes DEF IndInv, TypeOK, Levels, Depth, PushMask, At, Active, Goto, lockVars, cpuVars
<1>7. Handlers'
  BY DEF IndInv, TypeOK, Handlers, PushMask, At, Active, Goto, lockVars, cpuVars
<1>8. Masking'
  <2> SUFFICES ASSUME NEW c \in CPU, ~irq'[c]
               PROVE  Masking!(c)!2'
    BY DEF Masking
  <2>1. CASE c = x[1]
    <3>1. x = T(c) /\ ~irq[c]
      BY <2>1 DEF IndInv, TypeOK, PushMask, At, Active, Goto, lockVars, cpuVars
    <3>2. CASE noff[c] = 0
      BY <3>1, <3>2 DEF IndInv, TypeOK, Masking, PushMask, At, Active, Goto, lockVars, cpuVars
    <3>3. CASE noff[c] # 0
      BY <3>1, <3>3 DEF IndInv, TypeOK, Masking, PushMask, At, Active, Goto, lockVars, cpuVars
    <3> QED BY <3>2, <3>3
  <2>2. CASE c # x[1]
    BY <2>2 DEF IndInv, TypeOK, Masking, PushMask, At, Active, Goto, lockVars, cpuVars
  <2> QED BY <2>1, <2>2
<1>9. TypeOK'
  BY <1>1, <1>6, <1>7, NoffBound, PTL
<1> QED BY <1>2, <1>3, <1>4, <1>5, <1>6, <1>7, <1>8, <1>9 DEF IndInv

(* push_off saves SIE at level 0 and counts the level. *)
LEMMA PushCountStep ==
  ASSUME IndInv, NEW x \in Ctx, PushCount(x)
  PROVE  IndInv'
<1> USE CtxShape
<1>1. Types'
  BY DEF IndInv, TypeOK, Types, Arguments, Labels, PushCount, At, Active, Goto, lockVars, cpuVars
<1>2. NoPanic'
  BY DEF IndInv, TypeOK, NoPanic, PushCount, At, Active, Goto, lockVars, cpuVars
<1>3. MutualExclusion'
  BY DEF IndInv, TypeOK, MutualExclusion, PushCount, At, Active, Goto, lockVars, cpuVars
<1>4. LockWords'
  BY DEF IndInv, TypeOK, MutualExclusion, LockWords, Arguments, PushCount, At, Active, Goto, lockVars, cpuVars
<1>5. Arguments'
  BY DEF IndInv, TypeOK, LockWords, Arguments, PushCount, At, Active, Goto, lockVars, cpuVars
<1>6. Levels'
  <2>1. Depth(x)' = Depth(x) + 1
    <3>1. held' = held /\ pc[x] = "push3" /\ pc'[x] \in {"pop", "hold1"}
      BY DEF IndInv, TypeOK, PushCount, At, Goto, lockVars
    <3>2. Cardinality(held[x]) \in Nat
      BY Sizes DEF IndInv, TypeOK
    <3> QED BY <3>1, <3>2 DEF Depth
  <2>2. \A y \in Ctx \ {x} : Depth(y)' = Depth(y)
    BY DEF IndInv, TypeOK, Depth, PushCount, At, Active, Goto, lockVars, cpuVars
  <2>3. /\ noff'[x[1]] = noff[x[1]] + 1
        /\ noff[x[1]] \in Int
        /\ \A c \in CPU \ {x[1]} : noff'[c] = noff[c]
    BY DEF IndInv, TypeOK, PushCount, At, Active, Goto, lockVars, cpuVars
  <2>6. Depth(x) \in Nat
    BY DepthNat DEF IndInv
  <2>7. Depth(x)' \in Int /\ noff'[x[1]] = noff[x[1]] + (Depth(x)' - Depth(x))
    BY <2>1, <2>3, <2>6
  <2> QED BY <2>2, <2>3, <2>7, LevelsMove DEF IndInv
<1>7. Handlers'
  BY DEF IndInv, TypeOK, Handlers, PushCount, At, Active, Goto, lockVars, cpuVars
<1>8. Masking'
  <2> SUFFICES ASSUME NEW c \in CPU, ~irq'[c]
               PROVE  Masking!(c)!2'
    BY DEF Masking
  <2>1. CASE c = x[1]
    <3>1. x = T(c) /\ ~irq[c]
      BY <2>1 DEF IndInv, TypeOK, PushCount, At, Active, Goto, lockVars, cpuVars
    <3>2. /\ pc[T(c)] = "push3" /\ pc'[T(c)] \in {"pop", "hold1"}
          /\ noff[c] \in Nat /\ noff'[c] = noff[c] + 1
          /\ intena'[c] = IF noff[c] = 0 THEN old[T(c)] ELSE intena[c]
          /\ sie' = sie /\ want' = want
      BY <3>1, <2>1 DEF IndInv, TypeOK, PushCount, At, Active, Goto, lockVars, cpuVars
    <3>3. /\ sie[c] => pc[T(c)] \in {"run", "push1", "push2"}
          /\ noff[c] = 0 /\ pc[T(c)] \in {"push2", "push3"} => old[T(c)] = want[c]
          /\ noff[c] > 0 => intena[c] = want[c]
      BY <3>1 DEF IndInv, Masking
    <3>4. intena'[c] = want'[c] /\ ~sie'[c] /\ noff'[c] # 0
      BY <3>2, <3>3
    <3> QED BY <3>2, <3>4
  <2>2. CASE c # x[1]
    <3>1. ~irq[c] /\ T(c) \in Ctx /\ T(c) # x
      BY <2>2 DEF PushCount
    <3>2. noff'[c] = noff[c] /\ intena'[c] = intena[c]
      BY <2>2 DEF IndInv, TypeOK, PushCount
    <3>3. pc'[T(c)] = pc[T(c)] /\ old'[T(c)] = old[T(c)]
      BY <3>1 DEF IndInv, TypeOK, PushCount, Goto
    <3>4. sie' = sie /\ want' = want
      BY DEF PushCount
    <3> QED BY <3>1, <3>2, <3>3, <3>4 DEF IndInv, Masking
  <2> QED BY <2>1, <2>2
<1>9. TypeOK'
  BY <1>1, <1>6, <1>7, NoffBound, PTL
<1> QED BY <1>2, <1>3, <1>4, <1>5, <1>6, <1>7, <1>8, <1>9 DEF IndInv

(* holding() in acquire reads lk->locked. *)
LEMMA AcquireHolding1Step ==
  ASSUME IndInv, NEW x \in Ctx, AcquireHolding1(x)
  PROVE  IndInv'
<1> USE CtxShape
<1>1. Types'
  BY DEF IndInv, TypeOK, Types, Arguments, Labels, AcquireHolding1, At, Active, Goto, lockVars, cpuVars
<1>2. NoPanic'
  BY DEF IndInv, TypeOK, NoPanic, AcquireHolding1, At, Active, Goto, lockVars, cpuVars
<1>3. MutualExclusion'
  BY DEF IndInv, TypeOK, MutualExclusion, AcquireHolding1, At, Active, Goto, lockVars, cpuVars
<1>4. LockWords'
  BY DEF IndInv, TypeOK, MutualExclusion, LockWords, Arguments, AcquireHolding1, At, Active, Goto, lockVars, cpuVars
<1>5. Arguments'
  BY DEF IndInv, TypeOK, LockWords, Arguments, AcquireHolding1, At, Active, Goto, lockVars, cpuVars
<1>6. Levels'
  BY Sizes DEF IndInv, TypeOK, Levels, Depth, AcquireHolding1, At, Active, Goto, lockVars, cpuVars
<1>7. Handlers'
  BY DEF IndInv, TypeOK, Handlers, AcquireHolding1, At, Active, Goto, lockVars, cpuVars
<1>8. Masking'
  BY DEF IndInv, TypeOK, Handlers, Masking, AcquireHolding1, At, Active, Goto, lockVars, cpuVars
<1>9. TypeOK'
  BY <1>1, <1>6, <1>7, NoffBound, PTL
<1> QED BY <1>2, <1>3, <1>4, <1>5, <1>6, <1>7, <1>8, <1>9 DEF IndInv

(* holding() in acquire is false: lk->cpu is not this CPU. *)
LEMMA AcquireHolding2Step ==
  ASSUME IndInv, NEW x \in Ctx, AcquireHolding2(x)
  PROVE  IndInv'
<1> USE CtxShape
<1>1. Types'
  BY DEF IndInv, TypeOK, Types, Arguments, Labels, AcquireHolding2, At, Active, Goto, lockVars, cpuVars
<1>2. NoPanic'
  <2>1. cpu[arg[x]] # x[1]
    <3>1. arg[x] \in Lock \ held[x] /\ x[1] # NoCpu
      BY CpuAssumption DEF IndInv, Arguments, AcquireHolding2, At, Active, Goto, lockVars, cpuVars
    <3>2. CASE ~locked[arg[x]]
      BY <3>1, <3>2 DEF IndInv, LockWords
    <3>3. CASE locked[arg[x]]
      <4>1. PICK y \in Ctx : arg[x] \in held[y]
        BY <3>1, <3>3 DEF IndInv, LockWords
      <4>2. y[1] # x[1]
        BY <3>1, <4>1, Alone DEF AcquireHolding2, At, Active, Goto, lockVars, cpuVars
      <4> QED BY <3>1, <4>1, <4>2 DEF IndInv, LockWords
    <3> QED BY <3>2, <3>3
  <2> QED BY <2>1 DEF IndInv, TypeOK, NoPanic, AcquireHolding2, At, Active, Goto, lockVars, cpuVars
<1>3. MutualExclusion'
  BY DEF IndInv, TypeOK, MutualExclusion, AcquireHolding2, At, Active, Goto, lockVars, cpuVars
<1>4. LockWords'
  BY DEF IndInv, TypeOK, MutualExclusion, LockWords, Arguments, AcquireHolding2, At, Active, Goto, lockVars, cpuVars
<1>5. Arguments'
  BY DEF IndInv, TypeOK, LockWords, Arguments, AcquireHolding2, At, Active, Goto, lockVars, cpuVars
<1>6. Levels'
  <2>0. pc'[x] = "swap"
    BY <1>2 DEF IndInv, TypeOK, NoPanic, AcquireHolding2, At, Active, Goto, lockVars, cpuVars
  <2>1. Depth(x)' = Depth(x) + 0
    BY <2>0, Sizes DEF IndInv, TypeOK, Depth, AcquireHolding2, At, Active, Goto, lockVars, cpuVars
  <2>2. \A y \in Ctx \ {x} : Depth(y)' = Depth(y)
    BY DEF IndInv, TypeOK, Depth, AcquireHolding2, At, Active, Goto, lockVars, cpuVars
  <2>3. /\ noff'[x[1]] = noff[x[1]] + 0
        /\ noff[x[1]] \in Int
        /\ \A c \in CPU \ {x[1]} : noff'[c] = noff[c]
    BY DEF IndInv, TypeOK, AcquireHolding2, At, Active, Goto, lockVars, cpuVars
  <2>6. Depth(x) \in Nat
    BY DepthNat DEF IndInv
  <2>7. Depth(x)' \in Int /\ noff'[x[1]] = noff[x[1]] + (Depth(x)' - Depth(x))
    BY <2>1, <2>3, <2>6
  <2> QED BY <2>2, <2>3, <2>7, LevelsMove DEF IndInv
<1>7. Handlers'
  BY DEF IndInv, TypeOK, Handlers, AcquireHolding2, At, Active, Goto, lockVars, cpuVars
<1>8. Masking'
  BY DEF IndInv, TypeOK, Handlers, Masking, AcquireHolding2, At, Active, Goto, lockVars, cpuVars
<1>9. TypeOK'
  BY <1>1, <1>6, <1>7, NoffBound, PTL
<1> QED BY <1>2, <1>3, <1>4, <1>5, <1>6, <1>7, <1>8, <1>9 DEF IndInv

(* The winning amoswap. *)
LEMMA SwapStep ==
  ASSUME IndInv, NEW x \in Ctx, Swap(x)
  PROVE  IndInv'
<1> USE CtxShape
<1>1. Types'
  BY DEF IndInv, TypeOK, Types, Arguments, Labels, Swap, At, Active, Goto, lockVars, cpuVars
<1>2. NoPanic'
  BY DEF IndInv, TypeOK, NoPanic, Swap, At, Active, Goto, lockVars, cpuVars
<1>3. MutualExclusion'
  <2>1. \A y \in Ctx : arg[x] \notin held[y]
    BY DEF IndInv, LockWords, Arguments, Swap, At, Active, Goto, lockVars, cpuVars
  <2> QED BY <2>1 DEF IndInv, TypeOK, MutualExclusion, Swap, At, Active, Goto, lockVars, cpuVars
<1>4. LockWords'
  BY DEF IndInv, TypeOK, MutualExclusion, LockWords, Arguments, Swap, At, Active, Goto, lockVars, cpuVars
<1>5. Arguments'
  BY DEF IndInv, TypeOK, LockWords, Arguments, Swap, At, Active, Goto, lockVars, cpuVars
<1>6. Levels'
  <2>0. /\ arg[x] \in Lock /\ arg[x] \notin held[x] /\ held[x] \in SUBSET Lock
        /\ held'[x] = held[x] \cup {arg[x]}
    BY DEF IndInv, TypeOK, Arguments, Swap, At, Active, Goto, lockVars, cpuVars
  <2>4. Cardinality(held'[x]) = Cardinality(held[x]) + 1 /\ Cardinality(held[x]) \in Nat
    BY <2>0, Sizes
  <2>5. pc[x] = "swap" /\ pc'[x] = "own"
    BY DEF IndInv, TypeOK, Swap, At, Active, Goto, lockVars, cpuVars
  <2>1. Depth(x)' = Depth(x) + 0
    BY <2>4, <2>5 DEF IndInv, TypeOK, Depth, Swap, At, Active, Goto, lockVars, cpuVars
  <2>2. \A y \in Ctx \ {x} : Depth(y)' = Depth(y)
    BY DEF IndInv, TypeOK, Depth, Swap, At, Active, Goto, lockVars, cpuVars
  <2>3. /\ noff'[x[1]] = noff[x[1]] + 0
        /\ noff[x[1]] \in Int
        /\ \A c \in CPU \ {x[1]} : noff'[c] = noff[c]
    BY DEF IndInv, TypeOK, Swap, At, Active, Goto, lockVars, cpuVars
  <2>6. Depth(x) \in Nat
    BY DepthNat DEF IndInv
  <2>7. Depth(x)' \in Int /\ noff'[x[1]] = noff[x[1]] + (Depth(x)' - Depth(x))
    BY <2>1, <2>3, <2>6
  <2> QED BY <2>2, <2>3, <2>7, LevelsMove DEF IndInv
<1>7. Handlers'
  BY DEF IndInv, TypeOK, Handlers, Swap, At, Active, Goto, lockVars, cpuVars
<1>8. Masking'
  BY DEF IndInv, TypeOK, Handlers, Masking, Swap, At, Active, Goto, lockVars, cpuVars
<1>9. TypeOK'
  BY <1>1, <1>6, <1>7, NoffBound, PTL
<1> QED BY <1>2, <1>3, <1>4, <1>5, <1>6, <1>7, <1>8, <1>9 DEF IndInv

(* acquire records its CPU. *)
LEMMA SetCpuStep ==
  ASSUME IndInv, NEW x \in Ctx, SetCpu(x)
  PROVE  IndInv'
<1> USE CtxShape
<1>1. Types'
  BY DEF IndInv, TypeOK, Types, Arguments, Labels, SetCpu, At, Active, Goto, lockVars, cpuVars
<1>2. NoPanic'
  BY DEF IndInv, TypeOK, NoPanic, SetCpu, At, Active, Goto, lockVars, cpuVars
<1>3. MutualExclusion'
  BY DEF IndInv, TypeOK, MutualExclusion, SetCpu, At, Active, Goto, lockVars, cpuVars
<1>4. LockWords'
  BY DEF IndInv, TypeOK, MutualExclusion, LockWords, Arguments, SetCpu, At, Active, Goto, lockVars, cpuVars
<1>5. Arguments'
  <2>1. \A y \in Ctx \ {x} : arg[x] \notin held[y]
    BY DEF IndInv, MutualExclusion, Arguments, SetCpu, At, Active, Goto, lockVars, cpuVars
  <2>2. arg[x] \in Lock
    BY DEF IndInv, TypeOK, Arguments, SetCpu, At, Active, Goto, lockVars, cpuVars
  <2> QED BY <2>1, <2>2 DEF IndInv, TypeOK, LockWords, Arguments, SetCpu, At, Active, Goto, lockVars, cpuVars
<1>6. Levels'
  BY Sizes DEF IndInv, TypeOK, Levels, Depth, SetCpu, At, Active, Goto, lockVars, cpuVars
<1>7. Handlers'
  BY DEF IndInv, TypeOK, Handlers, SetCpu, At, Active, Goto, lockVars, cpuVars
<1>8. Masking'
  <2>1. noff[x[1]] >= 1
    BY Nested DEF IndInv, Arguments, SetCpu, At, Active, Goto, lockVars, cpuVars
  <2> QED BY <2>1 DEF IndInv, TypeOK, Handlers, Masking, SetCpu, At, Active, Goto, lockVars, cpuVars
<1>9. TypeOK'
  BY <1>1, <1>6, <1>7, NoffBound, PTL
<1> QED BY <1>2, <1>3, <1>4, <1>5, <1>6, <1>7, <1>8, <1>9 DEF IndInv

(* holding() in release reads lk->locked. *)
LEMMA ReleaseHolding1Step ==
  ASSUME IndInv, NEW x \in Ctx, ReleaseHolding1(x)
  PROVE  IndInv'
<1> USE CtxShape
<1>1. Types'
  BY DEF IndInv, TypeOK, Types, Arguments, Labels, ReleaseHolding1, At, Active, Goto, lockVars, cpuVars
<1>2. NoPanic'
  BY DEF IndInv, TypeOK, NoPanic, ReleaseHolding1, At, Active, Goto, lockVars, cpuVars
<1>3. MutualExclusion'
  BY DEF IndInv, TypeOK, MutualExclusion, ReleaseHolding1, At, Active, Goto, lockVars, cpuVars
<1>4. LockWords'
  BY DEF IndInv, TypeOK, MutualExclusion, LockWords, Arguments, ReleaseHolding1, At, Active, Goto, lockVars, cpuVars
<1>5. Arguments'
  BY DEF IndInv, TypeOK, LockWords, Arguments, ReleaseHolding1, At, Active, Goto, lockVars, cpuVars
<1>6. Levels'
  BY Sizes DEF IndInv, TypeOK, Levels, Depth, ReleaseHolding1, At, Active, Goto, lockVars, cpuVars
<1>7. Handlers'
  BY DEF IndInv, TypeOK, Handlers, ReleaseHolding1, At, Active, Goto, lockVars, cpuVars
<1>8. Masking'
  BY DEF IndInv, TypeOK, Handlers, Masking, ReleaseHolding1, At, Active, Goto, lockVars, cpuVars
<1>9. TypeOK'
  BY <1>1, <1>6, <1>7, NoffBound, PTL
<1> QED BY <1>2, <1>3, <1>4, <1>5, <1>6, <1>7, <1>8, <1>9 DEF IndInv

(* holding() in release is true. *)
LEMMA ReleaseHolding2Step ==
  ASSUME IndInv, NEW x \in Ctx, ReleaseHolding2(x)
  PROVE  IndInv'
<1> USE CtxShape
<1>1. Types'
  BY DEF IndInv, TypeOK, Types, Arguments, Labels, ReleaseHolding2, At, Active, Goto, lockVars, cpuVars
<1>2. NoPanic'
  <2>1. seen[x] /\ cpu[arg[x]] = x[1]
    BY DEF IndInv, Arguments, LockWords, ReleaseHolding2, At, Active, Goto, lockVars, cpuVars
  <2> QED BY <2>1 DEF IndInv, TypeOK, NoPanic, ReleaseHolding2, At, Active, Goto, lockVars, cpuVars
<1>3. MutualExclusion'
  BY DEF IndInv, TypeOK, MutualExclusion, ReleaseHolding2, At, Active, Goto, lockVars, cpuVars
<1>4. LockWords'
  BY DEF IndInv, TypeOK, MutualExclusion, LockWords, Arguments, ReleaseHolding2, At, Active, Goto, lockVars, cpuVars
<1>5. Arguments'
  BY DEF IndInv, TypeOK, LockWords, Arguments, ReleaseHolding2, At, Active, Goto, lockVars, cpuVars
<1>6. Levels'
  BY Sizes DEF IndInv, TypeOK, Levels, Depth, ReleaseHolding2, At, Active, Goto, lockVars, cpuVars
<1>7. Handlers'
  BY DEF IndInv, TypeOK, Handlers, ReleaseHolding2, At, Active, Goto, lockVars, cpuVars
<1>8. Masking'
  BY DEF IndInv, TypeOK, Handlers, Masking, ReleaseHolding2, At, Active, Goto, lockVars, cpuVars
<1>9. TypeOK'
  BY <1>1, <1>6, <1>7, NoffBound, PTL
<1> QED BY <1>2, <1>3, <1>4, <1>5, <1>6, <1>7, <1>8, <1>9 DEF IndInv

(* release clears lk->cpu. *)
LEMMA ClearCpuStep ==
  ASSUME IndInv, NEW x \in Ctx, ClearCpu(x)
  PROVE  IndInv'
<1> USE CtxShape
<1>1. Types'
  BY DEF IndInv, TypeOK, Types, Arguments, Labels, ClearCpu, At, Active, Goto, lockVars, cpuVars
<1>2. NoPanic'
  BY DEF IndInv, TypeOK, NoPanic, ClearCpu, At, Active, Goto, lockVars, cpuVars
<1>3. MutualExclusion'
  BY DEF IndInv, TypeOK, MutualExclusion, ClearCpu, At, Active, Goto, lockVars, cpuVars
<1>4. LockWords'
  BY DEF IndInv, TypeOK, MutualExclusion, LockWords, Arguments, ClearCpu, At, Active, Goto, lockVars, cpuVars
<1>5. Arguments'
  <2>1. \A y \in Ctx \ {x} : arg[x] \notin held[y]
    BY DEF IndInv, MutualExclusion, Arguments, ClearCpu, At, Active, Goto, lockVars, cpuVars
  <2>2. arg[x] \in Lock
    BY DEF IndInv, TypeOK, Arguments, ClearCpu, At, Active, Goto, lockVars, cpuVars
  <2> QED BY <2>1, <2>2 DEF IndInv, TypeOK, LockWords, Arguments, ClearCpu, At, Active, Goto, lockVars, cpuVars
<1>6. Levels'
  BY Sizes DEF IndInv, TypeOK, Levels, Depth, ClearCpu, At, Active, Goto, lockVars, cpuVars
<1>7. Handlers'
  BY DEF IndInv, TypeOK, Handlers, ClearCpu, At, Active, Goto, lockVars, cpuVars
<1>8. Masking'
  BY DEF IndInv, TypeOK, Handlers, Masking, ClearCpu, At, Active, Goto, lockVars, cpuVars
<1>9. TypeOK'
  BY <1>1, <1>6, <1>7, NoffBound, PTL
<1> QED BY <1>2, <1>3, <1>4, <1>5, <1>6, <1>7, <1>8, <1>9 DEF IndInv

(* release clears lk->locked. *)
LEMMA UnlockStep ==
  ASSUME IndInv, NEW x \in Ctx, Unlock(x)
  PROVE  IndInv'
<1> USE CtxShape
<1>1. Types'
  BY DEF IndInv, TypeOK, Types, Arguments, Labels, Unlock, At, Active, Goto, lockVars, cpuVars
<1>2. NoPanic'
  BY DEF IndInv, TypeOK, NoPanic, Unlock, At, Active, Goto, lockVars, cpuVars
<1>3. MutualExclusion'
  BY DEF IndInv, TypeOK, MutualExclusion, Unlock, At, Active, Goto, lockVars, cpuVars
<1>4. LockWords'
  BY DEF IndInv, TypeOK, MutualExclusion, LockWords, Arguments, Unlock, At, Active, Goto, lockVars, cpuVars
<1>5. Arguments'
  BY DEF IndInv, TypeOK, LockWords, Arguments, Unlock, At, Active, Goto, lockVars, cpuVars
<1>6. Levels'
  <2>0. /\ arg[x] \in Lock /\ arg[x] \in held[x] /\ held[x] \in SUBSET Lock
        /\ held'[x] = held[x] \ {arg[x]}
    BY DEF IndInv, TypeOK, Arguments, Unlock, At, Active, Goto, lockVars, cpuVars
  <2>4. Cardinality(held'[x]) = Cardinality(held[x]) - 1 /\ Cardinality(held[x]) \in Nat
    BY <2>0, Sizes
  <2>5. pc[x] = "unlock" /\ pc'[x] = "pop"
    BY DEF IndInv, TypeOK, Unlock, At, Active, Goto, lockVars, cpuVars
  <2>1. Depth(x)' = Depth(x) + 0
    BY <2>4, <2>5 DEF IndInv, TypeOK, Depth, Unlock, At, Active, Goto, lockVars, cpuVars
  <2>2. \A y \in Ctx \ {x} : Depth(y)' = Depth(y)
    BY DEF IndInv, TypeOK, Depth, Unlock, At, Active, Goto, lockVars, cpuVars
  <2>3. /\ noff'[x[1]] = noff[x[1]] + 0
        /\ noff[x[1]] \in Int
        /\ \A c \in CPU \ {x[1]} : noff'[c] = noff[c]
    BY DEF IndInv, TypeOK, Unlock, At, Active, Goto, lockVars, cpuVars
  <2>6. Depth(x) \in Nat
    BY DepthNat DEF IndInv
  <2>7. Depth(x)' \in Int /\ noff'[x[1]] = noff[x[1]] + (Depth(x)' - Depth(x))
    BY <2>1, <2>3, <2>6
  <2> QED BY <2>2, <2>3, <2>7, LevelsMove DEF IndInv
<1>7. Handlers'
  BY DEF IndInv, TypeOK, Handlers, Unlock, At, Active, Goto, lockVars, cpuVars
<1>8. Masking'
  BY DEF IndInv, TypeOK, Handlers, Masking, Unlock, At, Active, Goto, lockVars, cpuVars
<1>9. TypeOK'
  BY <1>1, <1>6, <1>7, NoffBound, PTL
<1> QED BY <1>2, <1>3, <1>4, <1>5, <1>6, <1>7, <1>8, <1>9 DEF IndInv

(* pop_off neither panics nor unmasks a nested level. *)
LEMMA PopOffStep ==
  ASSUME IndInv, NEW x \in Ctx, PopOff(x)
  PROVE  IndInv'
<1> USE CtxShape
<1>1. Types'
  BY DEF IndInv, TypeOK, Types, Arguments, Labels, PopOff, At, Active, Goto, lockVars, cpuVars, PopPanics
<1>2. NoPanic'
  <2>1. noff[x[1]] >= 1
    BY Nested DEF PopOff, At, Active, Goto, lockVars, cpuVars, PopPanics
  <2>2. ~sie[x[1]]
    BY <2>1 DEF IndInv, Handlers, Masking, TypeOK, PopOff, At, Active, Goto, lockVars, cpuVars, PopPanics
  <2> QED BY <2>1, <2>2 DEF IndInv, TypeOK, NoPanic, PopOff, At, Active, Goto, lockVars, cpuVars, PopPanics
<1>3. MutualExclusion'
  BY DEF IndInv, TypeOK, MutualExclusion, PopOff, At, Active, Goto, lockVars, cpuVars, PopPanics
<1>4. LockWords'
  BY DEF IndInv, TypeOK, MutualExclusion, LockWords, Arguments, PopOff, At, Active, Goto, lockVars, cpuVars, PopPanics
<1>5. Arguments'
  BY DEF IndInv, TypeOK, LockWords, Arguments, PopOff, At, Active, Goto, lockVars, cpuVars, PopPanics
<1>6. Levels'
  <2>0. pc'[x] = "run"
    BY <1>2 DEF IndInv, TypeOK, NoPanic, PopOff, At, Active, Goto, lockVars, cpuVars, PopPanics
  <2>1. Depth(x)' = Depth(x) + (-1)
    <3>1. held' = held /\ pc[x] = "pop"
      BY DEF PopOff, At, lockVars
    <3>2. Cardinality(held[x]) \in Nat
      BY Sizes DEF IndInv, TypeOK
    <3> QED BY <2>0, <3>1, <3>2 DEF Depth
  <2>2. \A y \in Ctx \ {x} : Depth(y)' = Depth(y)
    BY DEF IndInv, TypeOK, Depth, PopOff, At, Active, Goto, lockVars, cpuVars, PopPanics
  <2>3. /\ noff'[x[1]] = noff[x[1]] + (-1)
        /\ noff[x[1]] \in Int
        /\ \A c \in CPU \ {x[1]} : noff'[c] = noff[c]
    BY <2>0 DEF IndInv, TypeOK, PopOff, At, Active, Goto, lockVars, cpuVars, PopPanics
  <2>6. Depth(x) \in Nat
    BY DepthNat DEF IndInv
  <2>7. Depth(x)' \in Int /\ noff'[x[1]] = noff[x[1]] + (Depth(x)' - Depth(x))
    BY <2>1, <2>3, <2>6
  <2> QED BY <2>2, <2>3, <2>7, LevelsMove DEF IndInv
<1>7. Handlers'
  BY DEF IndInv, TypeOK, Handlers, PopOff, At, Active, Goto, lockVars, cpuVars, PopPanics
<1>8. Masking'
  BY DEF IndInv, TypeOK, Handlers, Masking, PopOff, At, Active, Goto, lockVars, cpuVars, PopPanics
<1>9. TypeOK'
  BY <1>1, <1>6, <1>7, NoffBound, PTL
<1> QED BY <1>2, <1>3, <1>4, <1>5, <1>6, <1>7, <1>8, <1>9 DEF IndInv

(* The thread sets SIE itself, at level 0. *)
LEMMA ThreadIntrStep ==
  ASSUME IndInv, NEW c \in CPU, NEW on \in BOOLEAN, ThreadIntr(c, on)
  PROVE  IndInv'
<1> USE CtxShape
<1>0. noff[c] = 0
  <2>1. ~irq[c] /\ pc[T(c)] = "run" /\ held[T(c)] = {}
    BY DEF ThreadIntr, At, Active, T, IndInv, TypeOK
  <2>2. held[H(c)] = {} /\ pc[H(c)] = "run"
    BY <2>1 DEF IndInv, Handlers
  <2>3. Depth(T(c)) = 0 /\ Depth(H(c)) = 0
    BY <2>1, <2>2, Sizes DEF Depth
  <2> QED BY <2>3 DEF IndInv, Levels
<1>1. Types'
  BY DEF IndInv, TypeOK, Types, ThreadIntr, At, Active, lockVars, T, H
<1>2. NoPanic' /\ MutualExclusion' /\ LockWords' /\ Arguments'
  BY DEF IndInv, NoPanic, MutualExclusion, LockWords, Arguments, ThreadIntr, At, Active, lockVars, T, H
<1>3. Levels'
  <2>1. UNCHANGED <<noff, held, pc>>
    BY DEF ThreadIntr, lockVars
  <2> QED BY <2>1 DEF IndInv, Levels, Depth
<1>4. Handlers'
  BY <1>0 DEF IndInv, TypeOK, Handlers, Masking, ThreadIntr, At, Active, lockVars
<1>5. Masking'
  <2> SUFFICES ASSUME NEW d \in CPU, ~irq'[d] PROVE Masking!(d)!2'
    BY DEF Masking
  <2>1. CASE d # c
    BY <2>1 DEF IndInv, TypeOK, Masking, ThreadIntr, lockVars
  <2>2. CASE d = c
    BY <1>0, <2>2 DEF IndInv, TypeOK, Handlers, Masking, ThreadIntr, At, lockVars, T
  <2> QED BY <2>1, <2>2
<1>6. TypeOK'
  BY <1>1, <1>3, <1>4, NoffBound, PTL
<1> QED BY <1>2, <1>3, <1>4, <1>5, <1>6 DEF IndInv

(* An interrupt is taken: SIE was set, so the CPU was at level 0. *)
LEMMA InterruptStep ==
  ASSUME IndInv, NEW c \in CPU, Interrupt(c)
  PROVE  IndInv'
<1> USE CtxShape
<1>0. noff[c] = 0 /\ held[T(c)] = {} /\ pc[T(c)] \in {"run", "push1", "push2"}
  <2>1. noff[c] = 0 /\ pc[T(c)] \in {"run", "push1", "push2"}
    BY DEF Interrupt, IndInv, Masking
  <2>2. held[T(c)] = {}
    BY <2>1, Nested DEF IndInv, TypeOK
  <2> QED BY <2>1, <2>2
<1>1. Types'
  BY DEF IndInv, TypeOK, Types, Interrupt, At, Active, lockVars, T, H
<1>2. NoPanic' /\ MutualExclusion' /\ LockWords' /\ Arguments'
  BY DEF IndInv, NoPanic, MutualExclusion, LockWords, Arguments, Interrupt, At, Active, lockVars, T, H
<1>3. Levels'
  <2>1. UNCHANGED <<noff, held, pc>>
    BY DEF Interrupt, lockVars
  <2> QED BY <2>1 DEF IndInv, Levels, Depth
<1>4. Handlers'
  BY <1>0 DEF IndInv, TypeOK, Handlers, Masking, Interrupt, At, Active, lockVars
<1>5. Masking'
  <2> SUFFICES ASSUME NEW d \in CPU, ~irq'[d] PROVE Masking!(d)!2'
    BY DEF Masking
  <2>1. CASE d # c
    BY <2>1 DEF IndInv, TypeOK, Masking, Interrupt, lockVars
  <2>2. CASE d = c
    BY <1>0, <2>2 DEF IndInv, TypeOK, Handlers, Masking, Interrupt, At, lockVars, T
  <2> QED BY <2>1, <2>2
<1>6. TypeOK'
  BY <1>1, <1>3, <1>4, NoffBound, PTL
<1> QED BY <1>2, <1>3, <1>4, <1>5, <1>6 DEF IndInv

(* The handler returns: it has undone every level it counted. *)
LEMMA InterruptReturnStep ==
  ASSUME IndInv, NEW c \in CPU, InterruptReturn(c)
  PROVE  IndInv'
<1> USE CtxShape
<1>0. noff[c] = 0 /\ irq[c]
  <2>1. irq[c] /\ pc[H(c)] = "run" /\ held[H(c)] = {}
    BY DEF InterruptReturn, At, Active, H, IndInv, TypeOK
  <2>2. held[T(c)] = {} /\ pc[T(c)] \in {"run", "push1", "push2"}
    BY <2>1 DEF IndInv, Handlers
  <2>3. Depth(T(c)) = 0 /\ Depth(H(c)) = 0
    BY <2>1, <2>2, Sizes DEF Depth
  <2> QED BY <2>1, <2>3 DEF IndInv, Levels
<1>1. Types'
  BY DEF IndInv, TypeOK, Types, InterruptReturn, At, Active, lockVars, T, H
<1>2. NoPanic' /\ MutualExclusion' /\ LockWords' /\ Arguments'
  BY DEF IndInv, NoPanic, MutualExclusion, LockWords, Arguments, InterruptReturn, At, Active, lockVars, T, H
<1>3. Levels'
  <2>1. UNCHANGED <<noff, held, pc>>
    BY DEF InterruptReturn, lockVars
  <2> QED BY <2>1 DEF IndInv, Levels, Depth
<1>4. Handlers'
  <2>1. pc[H(c)] = "run" /\ held[H(c)] = {}
    BY DEF InterruptReturn, At, H
  <2> QED BY <1>0, <2>1 DEF IndInv, TypeOK, Handlers, InterruptReturn, lockVars
<1>5. Masking'
  <2> SUFFICES ASSUME NEW d \in CPU, ~irq'[d] PROVE Masking!(d)!2'
    BY DEF Masking
  <2>1. CASE d # c
    BY <2>1 DEF IndInv, TypeOK, Masking, InterruptReturn, lockVars
  <2>2. CASE d = c
    <3>1. /\ pc[T(c)] \in {"run", "push1", "push2"} /\ want[c] = TRUE
          /\ pc[T(c)] = "push2" => old[T(c)] = TRUE
      BY <1>0 DEF IndInv, Handlers, TypeOK
    <3>2. sie'[c] = TRUE /\ UNCHANGED <<noff, want, pc, old>>
      BY DEF IndInv, TypeOK, InterruptReturn
    <3>3. noff'[c] = 0 /\ ~(noff'[c] > 0)
      BY <1>0, <3>2
    <3> QED BY <2>2, <3>1, <3>2, <3>3
  <2> QED BY <2>1, <2>2
<1>6. TypeOK'
  BY <1>1, <1>3, <1>4, NoffBound, PTL
<1> QED BY <1>2, <1>3, <1>4, <1>5, <1>6 DEF IndInv

-----------------------------------------------------------------------------
(* Every reachable state of acquire, release, push_off and pop_off, with   *)
(* any number of harts and locks, satisfies the inductive invariant.       *)
THEOREM SpinLockInvariance == Spec => []IndInv
<1>1. Init => IndInv
  <2> SUFFICES ASSUME Init PROVE IndInv
    OBVIOUS
  <2> USE CtxShape
  <2>1. Types
    BY DEF Init, Types, Labels
  <2>2. Levels
    BY Sizes DEF Init, Levels, Depth
  <2>3. Handlers
    BY DEF Init, Handlers
  <2>4. NoPanic /\ MutualExclusion /\ LockWords /\ Arguments /\ Masking
    BY DEF Init, NoPanic, MutualExclusion, LockWords, Arguments, Masking
  <2> QED BY <2>1, <2>2, <2>3, <2>4, NoffBound DEF IndInv
<1>2. IndInv /\ [Next]_vars => IndInv'
  <2> SUFFICES ASSUME IndInv, [Next]_vars PROVE IndInv'
    OBVIOUS
  <2>1. ASSUME NEW x \in Ctx, Calls(x) PROVE IndInv'
    BY <2>1, CallMyprocStep, CallAcquireStep, CallReleaseStep DEF Calls
  <2>2. ASSUME NEW x \in Ctx, Steps(x) PROVE IndInv'
    BY <2>2, PushReadStep, PushMaskStep, PushCountStep, AcquireHolding1Step, AcquireHolding2Step, SwapStep,
       SetCpuStep, ReleaseHolding1Step, ReleaseHolding2Step, ClearCpuStep, UnlockStep, PopOffStep DEF Steps
  <2>3. ASSUME NEW c \in CPU, NEW on \in BOOLEAN, ThreadIntr(c, on) PROVE IndInv'
    BY <2>3, ThreadIntrStep
  <2>4. ASSUME NEW c \in CPU, Interrupt(c) \/ InterruptReturn(c) PROVE IndInv'
    BY <2>4, InterruptStep, InterruptReturnStep
  <2>5. CASE UNCHANGED vars
    BY <2>5 DEF vars, IndInv, TypeOK, NoPanic, MutualExclusion, LockWords, Arguments,
                Levels, Depth, Handlers, Masking
  <2> QED BY <2>1, <2>2, <2>3, <2>4, <2>5 DEF Next
<1> QED BY <1>1, <1>2, PTL DEF Spec

(* Types, with noff bounded by the number of locks plus one.               *)
THEOREM TypeCorrect == Spec => []TypeOK
<1>1. IndInv => TypeOK
  BY DEF IndInv
<1> QED BY <1>1, SpinLockInvariance, PTL

(* acquire() excludes every other context of every hart.                   *)
THEOREM Exclusion == Spec => []MutualExclusion
<1>1. IndInv => MutualExclusion
  BY DEF IndInv
<1> QED BY <1>1, SpinLockInvariance, PTL

(* acquire(), release() and pop_off() never reach their panics.            *)
THEOREM PanicFree == Spec => []NoPanic
<1>1. IndInv => NoPanic
  BY DEF IndInv
<1> QED BY <1>1, SpinLockInvariance, PTL

(* No interrupt is taken on a hart that owns a lock.                       *)
THEOREM Masked == Spec => []MaskedWhileHeld
<1>1. IndInv => MaskedWhileHeld
  <2> SUFFICES ASSUME IndInv, NEW c \in CPU PROVE MaskedWhileHeld!(c)
    BY DEF MaskedWhileHeld
  <2> USE CtxShape
  <2>1. irq[c] => held[<<c, "thread">>] = {} /\ ~sie[c]
    BY DEF IndInv, Handlers, T
  <2>2. ~irq[c] => held[<<c, "intr">>] = {}
    BY DEF IndInv, Handlers, H
  <2>3. ASSUME ~irq[c], held[<<c, "thread">>] # {} PROVE ~sie[c]
    <3>1. noff[c] >= 1
      BY <2>3, Nested DEF T
    <3> QED BY <2>3, <3>1 DEF IndInv, Masking, TypeOK
  <2> QED BY <2>1, <2>2, <2>3
<1> QED BY <1>1, SpinLockInvariance, PTL

(* pop_off() gives the thread back the SIE it had set.                     *)
THEOREM Restored == Spec => []IntrRestored
<1>1. IndInv => IntrRestored
  BY DEF IndInv, Masking, IntrRestored, T
<1> QED BY <1>1, SpinLockInvariance, PTL

(* acquire() never spins on a lock its own hart owns.                      *)
THEOREM NoSelfDeadlock == Spec => []SpinsOnOtherCpu
<1>1. IndInv => SpinsOnOtherCpu
  <2> SUFFICES ASSUME IndInv, NEW x \in Ctx, NEW y \in Ctx,
                      pc[x] = "swap", arg[x] \in held[y], x[1] = y[1]
               PROVE  FALSE
    BY DEF SpinsOnOtherCpu
  <2> USE CtxShape
  <2>1. x # y
    BY DEF IndInv, Arguments
  <2>2. Active(x)
    <3>1. CASE x = T(x[1])
      <4>1. x[2] = "thread" /\ x[1] \in CPU
        BY <3>1
      <4>2. ~irq[x[1]]
        BY <3>1, <4>1 DEF IndInv, Handlers
      <4> QED BY <4>1, <4>2 DEF Active
    <3>2. CASE x = H(x[1])
      <4>1. x[2] = "intr" /\ x[1] \in CPU
        BY <3>2
      <4>2. irq[x[1]]
        BY <3>2, <4>1 DEF IndInv, Handlers
      <4> QED BY <4>1, <4>2 DEF Active
    <3> QED BY <3>1, <3>2
  <2> QED BY <2>1, <2>2, Alone
<1> QED BY <1>1, SpinLockInvariance, PTL

-----------------------------------------------------------------------------
(* The process table starts at slot 1, and a slot that is not the last has *)
(* a successor.                                                            *)
LEMMA Slots ==
  /\ None \notin Proc /\ 1 \in Proc
  /\ \A p \in Proc : p \in Int /\ p >= 1 /\ (p # NPROC => p + 1 \in Proc)
BY NPROCAssumption DEF Proc, None

(* Where lk and the p->locks are owned, and what a sleeping process's      *)
(* fields hold.                                                            *)
THEOREM WakeupInvariance == SwSpec => []SwIndInv
<1> USE Slots, ChanAssumption
<1>1. SwInit => SwIndInv
  BY DEF SwInit, SwIndInv, SwTypeOK, LkOwner, PlockOwner, Sleepers, SwArguments, SwLabels
<1>2. SwIndInv /\ [SwNext]_swvars => SwIndInv'
  <2> SUFFICES ASSUME SwIndInv, [SwNext]_swvars PROVE SwIndInv'
    OBVIOUS
  <2>1. ASSUME NEW p \in Proc, AcquireLk(p) PROVE SwIndInv'
    <3>1. SwTypeOK'
      BY <2>1 DEF SwIndInv, SwTypeOK, SwLabels, AcquireLk, SwGoto
    <3>2. LkOwner'
      BY <2>1 DEF SwIndInv, SwTypeOK, LkOwner, AcquireLk, SwGoto
    <3>3. PlockOwner'
      BY <2>1 DEF SwIndInv, SwTypeOK, PlockOwner, AcquireLk, SwGoto
    <3>4. Sleepers'
      BY <2>1 DEF SwIndInv, SwTypeOK, Sleepers, AcquireLk, SwGoto
    <3>5. SwArguments'
      BY <2>1 DEF SwIndInv, SwTypeOK, SwArguments, AcquireLk, SwGoto
    <3> QED BY <3>1, <3>2, <3>3, <3>4, <3>5 DEF SwIndInv
  <2>2. ASSUME NEW p \in Proc, ReleaseLk(p) PROVE SwIndInv'
    <3>1. SwTypeOK'
      BY <2>2 DEF SwIndInv, SwTypeOK, SwLabels, ReleaseLk, SwGoto
    <3>2. LkOwner'
      BY <2>2 DEF SwIndInv, SwTypeOK, LkOwner, ReleaseLk, SwGoto
    <3>3. PlockOwner'
      BY <2>2 DEF SwIndInv, SwTypeOK, PlockOwner, ReleaseLk, SwGoto
    <3>4. Sleepers'
      BY <2>2 DEF SwIndInv, SwTypeOK, Sleepers, ReleaseLk, SwGoto
    <3>5. SwArguments'
      BY <2>2 DEF SwIndInv, SwTypeOK, SwArguments, ReleaseLk, SwGoto
    <3> QED BY <3>1, <3>2, <3>3, <3>4, <3>5 DEF SwIndInv
  <2>3. ASSUME NEW p \in Proc, NEW ch \in Chan, SleepLockSelf(p, ch) PROVE SwIndInv'
    <3>1. SwTypeOK'
      BY <2>3 DEF SwIndInv, SwTypeOK, SwLabels, SleepLockSelf, SwGoto
    <3>2. LkOwner'
      BY <2>3 DEF SwIndInv, SwTypeOK, LkOwner, SleepLockSelf, SwGoto
    <3>3. PlockOwner'
      BY <2>3 DEF SwIndInv, SwTypeOK, PlockOwner, SleepLockSelf, SwGoto
    <3>4. Sleepers'
      BY <2>3 DEF SwIndInv, SwTypeOK, Sleepers, SleepLockSelf, SwGoto
    <3>5. SwArguments'
      BY <2>3 DEF SwIndInv, SwTypeOK, SwArguments, SleepLockSelf, SwGoto
    <3> QED BY <3>1, <3>2, <3>3, <3>4, <3>5 DEF SwIndInv
  <2>4. ASSUME NEW p \in Proc, SleepReleaseLk(p) PROVE SwIndInv'
    <3>1. SwTypeOK'
      BY <2>4 DEF SwIndInv, SwTypeOK, SwLabels, SleepReleaseLk, SwGoto
    <3>2. LkOwner'
      BY <2>4 DEF SwIndInv, SwTypeOK, LkOwner, SleepReleaseLk, SwGoto
    <3>3. PlockOwner'
      BY <2>4 DEF SwIndInv, SwTypeOK, PlockOwner, SleepReleaseLk, SwGoto
    <3>4. Sleepers'
      BY <2>4 DEF SwIndInv, SwTypeOK, Sleepers, SleepReleaseLk, SwGoto
    <3>5. SwArguments'
      BY <2>4 DEF SwIndInv, SwTypeOK, SwArguments, SleepReleaseLk, SwGoto
    <3> QED BY <3>1, <3>2, <3>3, <3>4, <3>5 DEF SwIndInv
  <2>5. ASSUME NEW p \in Proc, SleepSched(p) PROVE SwIndInv'
    <3>1. SwTypeOK'
      BY <2>5 DEF SwIndInv, SwTypeOK, SwLabels, SleepSched, SwGoto
    <3>2. LkOwner'
      BY <2>5 DEF SwIndInv, SwTypeOK, LkOwner, SleepSched, SwGoto
    <3>3. PlockOwner'
      BY <2>5 DEF SwIndInv, SwTypeOK, PlockOwner, SleepSched, SwGoto
    <3>4. Sleepers'
      BY <2>5 DEF SwIndInv, SwTypeOK, Sleepers, SleepSched, SwGoto
    <3>5. SwArguments'
      BY <2>5 DEF SwIndInv, SwTypeOK, SwArguments, SleepSched, SwGoto
    <3> QED BY <3>1, <3>2, <3>3, <3>4, <3>5 DEF SwIndInv
  <2>6. ASSUME NEW p \in Proc, SchedRelease(p) PROVE SwIndInv'
    <3>1. SwTypeOK'
      BY <2>6 DEF SwIndInv, SwTypeOK, SwLabels, SchedRelease, SwGoto
    <3>2. LkOwner'
      BY <2>6 DEF SwIndInv, SwTypeOK, LkOwner, SchedRelease, SwGoto
    <3>3. PlockOwner'
      BY <2>6 DEF SwIndInv, SwTypeOK, PlockOwner, SchedRelease, SwGoto
    <3>4. Sleepers'
      BY <2>6 DEF SwIndInv, SwTypeOK, Sleepers, SchedRelease, SwGoto
    <3>5. SwArguments'
      BY <2>6 DEF SwIndInv, SwTypeOK, SwArguments, SchedRelease, SwGoto
    <3> QED BY <3>1, <3>2, <3>3, <3>4, <3>5 DEF SwIndInv
  <2>7. ASSUME NEW p \in Proc, SchedRun(p) PROVE SwIndInv'
    <3>1. SwTypeOK'
      BY <2>7 DEF SwIndInv, SwTypeOK, SwLabels, SchedRun, SwGoto
    <3>2. LkOwner'
      BY <2>7 DEF SwIndInv, SwTypeOK, LkOwner, SchedRun, SwGoto
    <3>3. PlockOwner'
      BY <2>7 DEF SwIndInv, SwTypeOK, PlockOwner, SchedRun, SwGoto
    <3>4. Sleepers'
      BY <2>7 DEF SwIndInv, SwTypeOK, Sleepers, SchedRun, SwGoto
    <3>5. SwArguments'
      BY <2>7 DEF SwIndInv, SwTypeOK, SwArguments, SchedRun, SwGoto
    <3> QED BY <3>1, <3>2, <3>3, <3>4, <3>5 DEF SwIndInv
  <2>8. ASSUME NEW p \in Proc, SleepReturn(p) PROVE SwIndInv'
    <3>1. SwTypeOK'
      BY <2>8 DEF SwIndInv, SwTypeOK, SwLabels, SleepReturn, SwGoto
    <3>2. LkOwner'
      BY <2>8 DEF SwIndInv, SwTypeOK, LkOwner, SleepReturn, SwGoto
    <3>3. PlockOwner'
      BY <2>8 DEF SwIndInv, SwTypeOK, PlockOwner, SleepReturn, SwGoto
    <3>4. Sleepers'
      BY <2>8 DEF SwIndInv, SwTypeOK, Sleepers, SleepReturn, SwGoto
    <3>5. SwArguments'
      BY <2>8 DEF SwIndInv, SwTypeOK, SwArguments, SleepReturn, SwGoto
    <3> QED BY <3>1, <3>2, <3>3, <3>4, <3>5 DEF SwIndInv
  <2>9. ASSUME NEW p \in Proc, NEW ch \in Chan, WakeupBegin(p, ch) PROVE SwIndInv'
    <3>1. SwTypeOK'
      BY <2>9 DEF SwIndInv, SwTypeOK, SwLabels, WakeupBegin, SwGoto
    <3>2. LkOwner'
      BY <2>9 DEF SwIndInv, SwTypeOK, LkOwner, WakeupBegin, SwGoto
    <3>3. PlockOwner'
      BY <2>9 DEF SwIndInv, SwTypeOK, PlockOwner, WakeupBegin, SwGoto
    <3>4. Sleepers'
      BY <2>9 DEF SwIndInv, SwTypeOK, Sleepers, WakeupBegin, SwGoto
    <3>5. SwArguments'
      BY <2>9 DEF SwIndInv, SwTypeOK, SwArguments, WakeupBegin, SwGoto
    <3> QED BY <3>1, <3>2, <3>3, <3>4, <3>5 DEF SwIndInv
  <2>10. ASSUME NEW p \in Proc, WakeupSlot(p) PROVE SwIndInv'
    <3>1. SwTypeOK'
      BY <2>10 DEF SwIndInv, SwTypeOK, SwLabels, WakeupSlot, SwGoto, Roused
    <3>2. LkOwner'
      BY <2>10 DEF SwIndInv, SwTypeOK, LkOwner, WakeupSlot, SwGoto, Roused
    <3>3. PlockOwner'
      BY <2>10 DEF SwIndInv, SwTypeOK, PlockOwner, WakeupSlot, SwGoto, Roused
    <3>4. Sleepers'
      BY <2>10 DEF SwIndInv, SwTypeOK, PlockOwner, Sleepers, WakeupSlot, SwGoto, Roused
    <3>5. SwArguments'
      BY <2>10 DEF SwIndInv, SwTypeOK, SwArguments, WakeupSlot, SwGoto, Roused
    <3> QED BY <3>1, <3>2, <3>3, <3>4, <3>5 DEF SwIndInv
  <2>11. ASSUME NEW p \in Proc, KillWakesSleeper(p) PROVE SwIndInv'
    <3>1. SwTypeOK'
      BY <2>11 DEF SwIndInv, SwTypeOK, SwLabels, KillWakesSleeper, SwGoto
    <3>2. LkOwner'
      BY <2>11 DEF SwIndInv, SwTypeOK, LkOwner, KillWakesSleeper, SwGoto
    <3>3. PlockOwner'
      BY <2>11 DEF SwIndInv, SwTypeOK, PlockOwner, KillWakesSleeper, SwGoto
    <3>4. Sleepers'
      BY <2>11 DEF SwIndInv, SwTypeOK, PlockOwner, Sleepers, KillWakesSleeper, SwGoto
    <3>5. SwArguments'
      BY <2>11 DEF SwIndInv, SwTypeOK, SwArguments, KillWakesSleeper, SwGoto
    <3> QED BY <3>1, <3>2, <3>3, <3>4, <3>5 DEF SwIndInv
  <2>12. CASE UNCHANGED swvars
    BY <2>12 DEF swvars, SwIndInv, SwTypeOK, LkOwner, PlockOwner, Sleepers, SwArguments
  <2> QED BY <2>1, <2>2, <2>3, <2>4, <2>5, <2>6, <2>7, <2>8, <2>9, <2>10, <2>11,
             <2>12 DEF SwNext
<1> QED BY <1>1, <1>2, PTL DEF SwSpec

(* Every step of sleep() and wakeup() is a step of CondVar or leaves its   *)
(* state alone.                                                            *)
THEOREM WakeupRefinement == SwSpec => ImplementsCondVar
<1> USE Slots, ChanAssumption
<1>1. SwInit => CV!CInit
  BY DEF SwInit, CV!CInit, asleepBar, SleepsOn, BeingWoken
<1>2. SwIndInv /\ [SwNext]_swvars => [CV!CNext]_(CV!cvars)
  <2> SUFFICES ASSUME SwIndInv, [SwNext]_swvars PROVE [CV!CNext]_(CV!cvars)
    OBVIOUS
  <2> USE DEF SwIndInv, SwTypeOK
  <2>1. ASSUME NEW p \in Proc, AcquireLk(p) PROVE CV!CAcquire(p)
    <3>1. \A q \in Proc : SleepsOn(q)' = SleepsOn(q)
      BY <2>1 DEF LkOwner, PlockOwner, Sleepers, SwArguments, SleepsOn, AcquireLk, SwGoto
    <3>2. \A q \in Proc : ~BeingWoken(q)' /\ ~BeingWoken(q)
      BY <2>1, <3>1 DEF LkOwner, PlockOwner, Sleepers, SwArguments, BeingWoken, AcquireLk, SwGoto
    <3>4. asleepBar[p] = NoChan
      BY <2>1 DEF LkOwner, PlockOwner, Sleepers, SwArguments, asleepBar, SleepsOn, AcquireLk
    <3>3. asleepBar' = asleepBar
      BY <2>1, <3>1, <3>2 DEF LkOwner, PlockOwner, Sleepers, SwArguments, asleepBar
    <3> QED BY <2>1, <3>3, <3>4 DEF LkOwner, PlockOwner, Sleepers, SwArguments, AcquireLk, CV!CAcquire
  <2>2. ASSUME NEW p \in Proc, ReleaseLk(p) PROVE CV!CRelease(p)
    <3>1. \A q \in Proc : SleepsOn(q)' = SleepsOn(q)
      BY <2>2 DEF LkOwner, PlockOwner, Sleepers, SwArguments, SleepsOn, ReleaseLk, SwGoto
    <3>2. \A q \in Proc : ~BeingWoken(q)' /\ ~BeingWoken(q)
      BY <2>2, <3>1 DEF LkOwner, PlockOwner, Sleepers, SwArguments, BeingWoken, ReleaseLk, SwGoto
    <3>3. asleepBar' = asleepBar
      BY <2>2, <3>1, <3>2 DEF LkOwner, PlockOwner, Sleepers, SwArguments, asleepBar
    <3> QED BY <2>2, <3>3 DEF LkOwner, PlockOwner, Sleepers, SwArguments, ReleaseLk, CV!CRelease
  <2>3. ASSUME NEW p \in Proc, NEW ch \in Chan, SleepLockSelf(p, ch) PROVE UNCHANGED CV!cvars
    <3>1. \A q \in Proc : SleepsOn(q)' = SleepsOn(q)
      BY <2>3 DEF LkOwner, PlockOwner, Sleepers, SwArguments, SleepsOn, SleepLockSelf, SwGoto
    <3>2. \A q \in Proc : BeingWoken(q)' <=> BeingWoken(q)
      BY <2>3, <3>1 DEF LkOwner, PlockOwner, Sleepers, SwArguments, BeingWoken, SleepLockSelf, SwGoto
    <3>3. asleepBar' = asleepBar
      BY <2>3, <3>1, <3>2 DEF LkOwner, PlockOwner, Sleepers, SwArguments, asleepBar
    <3> QED BY <2>3, <3>3 DEF LkOwner, PlockOwner, Sleepers, SwArguments, SleepLockSelf, CV!cvars
  <2>4. ASSUME NEW p \in Proc, SleepReleaseLk(p) PROVE CV!CSleep(p, swarg[p])
    <3>1. \A q \in Proc : SleepsOn(q)' = IF q = p THEN swarg[p] ELSE SleepsOn(q)
      BY <2>4 DEF LkOwner, PlockOwner, Sleepers, SwArguments, SleepsOn, SleepReleaseLk, SwGoto
    <3>2. \A q \in Proc : ~BeingWoken(q)' /\ ~BeingWoken(q)
      BY <2>4, <3>1 DEF LkOwner, PlockOwner, Sleepers, SwArguments, BeingWoken, SleepReleaseLk, SwGoto
    <3>3. asleepBar' = [asleepBar EXCEPT ![p] = swarg[p]]
      BY <2>4, <3>1, <3>2 DEF LkOwner, PlockOwner, Sleepers, SwArguments, asleepBar
    <3> QED BY <2>4, <3>3 DEF LkOwner, PlockOwner, Sleepers, SwArguments, SleepReleaseLk, CV!CSleep
  <2>5. ASSUME NEW p \in Proc, SleepSched(p) PROVE UNCHANGED CV!cvars
    <3>1. \A q \in Proc : SleepsOn(q)' = SleepsOn(q)
      BY <2>5 DEF LkOwner, PlockOwner, Sleepers, SwArguments, SleepsOn, SleepSched, SwGoto
    <3>2. \A q \in Proc : BeingWoken(q)' <=> BeingWoken(q)
      BY <2>5, <3>1 DEF LkOwner, PlockOwner, Sleepers, SwArguments, BeingWoken, SleepSched, SwGoto
    <3>3. asleepBar' = asleepBar
      BY <2>5, <3>1, <3>2 DEF LkOwner, PlockOwner, Sleepers, SwArguments, asleepBar
    <3> QED BY <2>5, <3>3 DEF LkOwner, PlockOwner, Sleepers, SwArguments, SleepSched, CV!cvars
  <2>6. ASSUME NEW p \in Proc, SchedRelease(p) PROVE UNCHANGED CV!cvars
    <3>1. \A q \in Proc : SleepsOn(q)' = SleepsOn(q)
      BY <2>6 DEF LkOwner, PlockOwner, Sleepers, SwArguments, SleepsOn, SchedRelease, SwGoto
    <3>2. \A q \in Proc : BeingWoken(q)' <=> BeingWoken(q)
      BY <2>6, <3>1 DEF LkOwner, PlockOwner, Sleepers, SwArguments, BeingWoken, SchedRelease, SwGoto
    <3>3. asleepBar' = asleepBar
      BY <2>6, <3>1, <3>2 DEF LkOwner, PlockOwner, Sleepers, SwArguments, asleepBar
    <3> QED BY <2>6, <3>3 DEF LkOwner, PlockOwner, Sleepers, SwArguments, SchedRelease, CV!cvars
  <2>7. ASSUME NEW p \in Proc, SchedRun(p) PROVE UNCHANGED CV!cvars
    <3>1. \A q \in Proc : SleepsOn(q)' = SleepsOn(q)
      BY <2>7 DEF LkOwner, PlockOwner, Sleepers, SwArguments, SleepsOn, SchedRun, SwGoto
    <3>2. \A q \in Proc : BeingWoken(q)' <=> BeingWoken(q)
      BY <2>7, <3>1 DEF LkOwner, PlockOwner, Sleepers, SwArguments, BeingWoken, SchedRun, SwGoto
    <3>3. asleepBar' = asleepBar
      BY <2>7, <3>1, <3>2 DEF LkOwner, PlockOwner, Sleepers, SwArguments, asleepBar
    <3> QED BY <2>7, <3>3 DEF LkOwner, PlockOwner, Sleepers, SwArguments, SchedRun, CV!cvars
  <2>8. ASSUME NEW p \in Proc, SleepReturn(p) PROVE UNCHANGED CV!cvars
    <3>1. \A q \in Proc : SleepsOn(q)' = SleepsOn(q)
      BY <2>8 DEF LkOwner, PlockOwner, Sleepers, SwArguments, SleepsOn, SleepReturn, SwGoto
    <3>2. \A q \in Proc : BeingWoken(q)' <=> BeingWoken(q)
      BY <2>8, <3>1 DEF LkOwner, PlockOwner, Sleepers, SwArguments, BeingWoken, SleepReturn, SwGoto
    <3>3. asleepBar' = asleepBar
      BY <2>8, <3>1, <3>2 DEF LkOwner, PlockOwner, Sleepers, SwArguments, asleepBar
    <3> QED BY <2>8, <3>3 DEF LkOwner, PlockOwner, Sleepers, SwArguments, SleepReturn, CV!cvars
  <2>9. ASSUME NEW p \in Proc, NEW ch \in Chan, WakeupBegin(p, ch) PROVE CV!CWakeup(p, ch)
    <3>1. \A q \in Proc : SleepsOn(q)' = SleepsOn(q)
      BY <2>9 DEF LkOwner, PlockOwner, Sleepers, SwArguments, SleepsOn, WakeupBegin, SwGoto
    <3>2. \A q \in Proc : BeingWoken(q)' <=> SleepsOn(q) = ch
      BY <2>9, <3>1 DEF LkOwner, PlockOwner, Sleepers, SwArguments, BeingWoken, WakeupBegin, SwGoto
    <3>4. \A q \in Proc : ~BeingWoken(q)
      BY <2>9 DEF LkOwner, PlockOwner, Sleepers, SwArguments, BeingWoken, WakeupBegin
    <3>3. asleepBar' = [q \in Proc |-> IF asleepBar[q] = ch THEN NoChan ELSE asleepBar[q]]
      BY <2>9, <3>1, <3>2, <3>4 DEF LkOwner, PlockOwner, Sleepers, SwArguments, asleepBar
    <3> QED BY <2>9, <3>3 DEF LkOwner, PlockOwner, Sleepers, SwArguments, WakeupBegin, CV!CWakeup
  <2>10. ASSUME NEW p \in Proc, WakeupSlot(p) PROVE UNCHANGED CV!cvars
    <3>0. PICK i \in Proc : i = idx[p]
      BY <2>10
    <3>1. \A q \in Proc : q # i => SleepsOn(q)' = SleepsOn(q)
      BY <2>10, <3>0 DEF LkOwner, PlockOwner, Sleepers, SwArguments, SleepsOn, WakeupSlot, SwGoto, Roused
    <3>2. lk = p /\ lk' = p /\ p # None /\ swarg[p] \in Chan
      BY <2>10 DEF LkOwner, PlockOwner, Sleepers, SwArguments, WakeupSlot, SwGoto, Roused
    <3>3. \A q \in Proc : q < i => ~BeingWoken(q) /\ ~BeingWoken(q)'
      <4> SUFFICES ASSUME NEW q \in Proc, q < i
                   PROVE  ~BeingWoken(q) /\ ~BeingWoken(q)'
        OBVIOUS
      <4>1. ~(i <= q) /\ ~(i + 1 <= q)
        BY NPROCAssumption DEF Proc
      <4>2. swpc'[p] = "wake" => idx'[p] = i + 1
        BY <2>10, <3>0 DEF WakeupSlot, SwGoto, Roused
      <4> QED BY <3>0, <3>2, <4>1, <4>2 DEF BeingWoken
    <3>4. \A q \in Proc : q > i => (BeingWoken(q)' <=> BeingWoken(q))
      <4> SUFFICES ASSUME NEW q \in Proc, q > i PROVE BeingWoken(q)' <=> BeingWoken(q)
        OBVIOUS
      <4>1. i # NPROC /\ i + 1 <= q /\ i <= q
        BY NPROCAssumption DEF Proc
      <4>2. swpc'[p] = "wake" /\ swpc[p] = "wake" /\ swarg'[p] = swarg[p] /\ idx'[p] = i + 1
        BY <2>10, <3>0, <4>1 DEF WakeupSlot, SwGoto, Roused
      <4> QED BY <3>0, <3>1, <3>2, <4>1, <4>2 DEF BeingWoken
    <3>5. asleepBar'[i] = asleepBar[i]
      <4>1. CASE Roused(i, swarg[p])
        <5>1. SleepsOn(i) = swarg[p] /\ SleepsOn(i)' = NoChan
          BY <2>10, <3>0, <4>1 DEF LkOwner, PlockOwner, Sleepers, SwArguments, SleepsOn, WakeupSlot, SwGoto, Roused
        <5>2. BeingWoken(i)
          <6>1. i <= i /\ swpc[p] = "wake"
            BY <2>10 DEF WakeupSlot
          <6> QED BY <3>0, <3>2, <5>1, <6>1 DEF BeingWoken
        <5> QED BY <5>1, <5>2 DEF asleepBar
      <4>2. CASE ~Roused(i, swarg[p])
        <5>1. SleepsOn(i) # swarg[p] /\ SleepsOn(i)' = SleepsOn(i)
          BY <2>10, <3>0, <3>2, <4>2 DEF LkOwner, PlockOwner, Sleepers, SwArguments, SleepsOn, WakeupSlot, SwGoto, Roused
        <5>2. ~BeingWoken(i) /\ ~BeingWoken(i)'
          BY <2>10, <3>0, <3>2, <5>1 DEF BeingWoken, WakeupSlot, SwGoto, Roused
        <5> QED BY <5>1, <5>2 DEF asleepBar
      <4> QED BY <4>1, <4>2
    <3>6. asleepBar' = asleepBar
      <4>1. ASSUME NEW q \in Proc PROVE asleepBar'[q] = asleepBar[q]
        <5>1. q < i \/ q = i \/ q > i
          BY NPROCAssumption DEF Proc
        <5>2. CASE q < i
          <6>1. q # i
            BY <5>2, NPROCAssumption DEF Proc
          <6> QED BY <3>1, <3>3, <5>2, <6>1 DEF asleepBar
        <5>3. CASE q > i
          <6>1. q # i
            BY <5>3, NPROCAssumption DEF Proc
          <6> QED BY <3>1, <3>4, <5>3, <6>1 DEF asleepBar
        <5> QED BY <3>5, <5>1, <5>2, <5>3
      <4> QED BY <4>1, Zenon DEF asleepBar
    <3> QED BY <3>2, <3>6 DEF CV!cvars
  <2>11. ASSUME NEW p \in Proc, KillWakesSleeper(p) PROVE CV!CKill(p)
    <3>1. \A q \in Proc : SleepsOn(q)' = IF q = p THEN NoChan ELSE SleepsOn(q)
      BY <2>11 DEF LkOwner, PlockOwner, Sleepers, SwArguments, SleepsOn, KillWakesSleeper, SwGoto
    <3>2. \A q \in Proc : q # p => (BeingWoken(q)' <=> BeingWoken(q))
      BY <2>11, <3>1 DEF LkOwner, PlockOwner, Sleepers, SwArguments, BeingWoken, KillWakesSleeper, SwGoto
    <3>3. asleepBar' = [asleepBar EXCEPT ![p] = NoChan]
      BY <2>11, <3>1, <3>2 DEF LkOwner, PlockOwner, Sleepers, SwArguments, asleepBar
    <3> QED BY <2>11, <3>3 DEF LkOwner, PlockOwner, Sleepers, SwArguments, KillWakesSleeper, CV!CKill
  <2>12. CASE UNCHANGED swvars
    BY <2>12 DEF swvars, CV!cvars, asleepBar, SleepsOn, BeingWoken
  <2>13. ASSUME NEW p \in Proc, SleepReleaseLk(p) PROVE swarg[p] \in Chan
    BY <2>13 DEF SwArguments, SleepReleaseLk
  <2> QED BY <2>1, <2>2, <2>3, <2>4, <2>5, <2>6, <2>7, <2>8, <2>9, <2>10, <2>11,
             <2>12, <2>13 DEF SwNext, CV!CNext
<1> QED BY <1>1, <1>2, WakeupInvariance, PTL DEF SwSpec, ImplementsCondVar, CV!CSpec

-----------------------------------------------------------------------------
(* The inductive invariant holds in every state of acquiresleep() and      *)
(* releasesleep(): lk->pid names the one process that owns the lock, and   *)
(* nobody sleeps on a free lock.                                           *)
THEOREM SleepLockInvariance == SlSpec => []SlIndInv
<1>1. SlInit => SlIndInv
  BY PidAssumption DEF SlInit, SlIndInv, SlTypeOK, HoldingIsOwning, Holding, NoLostWakeup, NoPid
<1>2. SlIndInv /\ [SlNext]_slvars => SlIndInv'
  <2> SUFFICES ASSUME SlIndInv, [SlNext]_slvars PROVE SlIndInv'
    OBVIOUS
  <2> USE PidAssumption DEF SlIndInv, SlTypeOK, HoldingIsOwning, Holding, NoLostWakeup, NoPid
  <2>1. ASSUME NEW p \in Pids, Call(p) PROVE SlIndInv'
    BY <2>1 DEF Call
  <2>2. ASSUME NEW p \in Pids, AcquireSleeps(p) PROVE SlIndInv'
    BY <2>2 DEF AcquireSleeps
  <2>3. ASSUME NEW p \in Pids, Acquire(p) PROVE SlIndInv'
    BY <2>3 DEF Acquire
  <2>4. ASSUME NEW p \in Pids, Release(p) PROVE SlIndInv'
    BY <2>4 DEF Release
  <2>5. ASSUME NEW p \in Pids, KillWakes(p) PROVE SlIndInv'
    BY <2>5 DEF KillWakes
  <2>6. CASE UNCHANGED slvars
    BY <2>6 DEF slvars
  <2>7. QED
    BY <2>1, <2>2, <2>3, <2>4, <2>5, <2>6 DEF SlNext
<1>3. QED
  BY <1>1, <1>2, PTL DEF SlSpec

(* acquiresleep() and releasesleep() implement a mutex: lk->pid goes from  *)
(* nobody to an acquirer and from the owner back to nobody, never from one *)
(* owner to another.                                                       *)
THEOREM SleepLockRefinement == SlSpec => ImplementsMutex
<1>1. SlInit => Abs!MInit
  BY DEF SlInit, Abs!MInit
<1>2. SlIndInv /\ [SlNext]_slvars => [Abs!MNext]_pid
  <2> SUFFICES ASSUME SlIndInv, [SlNext]_slvars PROVE [Abs!MNext]_pid
    OBVIOUS
  <2>1. ASSUME NEW p \in Pids, Acquire(p) PROVE Abs!MNext
    BY <2>1 DEF Acquire, SlIndInv, Abs!MNext, Abs!Enter
  <2>2. ASSUME NEW p \in Pids, Release(p) PROVE Abs!MNext
    BY <2>2 DEF Release, SlIndInv, HoldingIsOwning, Holding, Abs!MNext, Abs!Leave
  <2>3. QED
    BY <2>1, <2>2 DEF SlNext, Call, AcquireSleeps, KillWakes, slvars
<1>3. QED
  BY <1>1, <1>2, SleepLockInvariance, PTL DEF SlSpec, ImplementsMutex, Abs!MSpec

-------------------------------------------------------------------------------
(* No buffer is the null pointer. *)
LEMMA BufFacts == NoBuf \notin Buf /\ \A b \in Buf : b \in 1..NBUF
BY NBUFAssumption DEF Buf, NoBuf

(* Setting one process's pointer to b, from no buffer, adds one to the     *)
(* users of b and changes nobody else's.                                   *)
LEMMA OneMoreUser ==
  ASSUME BTypeOK, NEW p \in Procs, NEW b \in Buf, bp[p] = NoBuf,
         bp' = [bp EXCEPT ![p] = b]
  PROVE  \A c \in Buf :
           Cardinality({q \in Procs : bp'[q] = c}) =
             IF c = b THEN Cardinality({q \in Procs : bp[q] = c}) + 1
             ELSE Cardinality({q \in Procs : bp[q] = c})
<1> TAKE c \in Buf
<1> DEFINE U == {q \in Procs : bp[q] = c}
<1>1. IsFiniteSet(U)
  BY ProcsAssumption, FS_Subset
<1>2. CASE c = b
  <2>1. {q \in Procs : bp'[q] = c} = U \cup {p}
    BY <1>2 DEF BTypeOK
  <2>2. p \notin U
    BY BufFacts
  <2>3. QED
    BY <1>1, <1>2, <2>1, <2>2, FS_AddElement
<1>3. CASE c # b
  <2>1. {q \in Procs : bp'[q] = c} = U
    BY <1>3, BufFacts DEF BTypeOK
  <2>2. QED
    BY <1>3, <2>1
<1>4. QED
  BY <1>2, <1>3

(* Clearing one process's pointer to b takes one from the users of b.      *)
LEMMA OneUserLess ==
  ASSUME BTypeOK, NEW p \in Procs, NEW b \in Buf, bp[p] = b,
         bp' = [bp EXCEPT ![p] = NoBuf]
  PROVE  \A c \in Buf :
           Cardinality({q \in Procs : bp'[q] = c}) =
             IF c = b THEN Cardinality({q \in Procs : bp[q] = c}) - 1
             ELSE Cardinality({q \in Procs : bp[q] = c})
<1> TAKE c \in Buf
<1> DEFINE U == {q \in Procs : bp[q] = c}
<1>1. IsFiniteSet(U)
  BY ProcsAssumption, FS_Subset
<1>2. CASE c = b
  <2>1. {q \in Procs : bp'[q] = c} = U \ {p}
    BY <1>2, BufFacts DEF BTypeOK
  <2>2. p \in U
    BY <1>2
  <2>3. QED
    BY <1>1, <1>2, <2>1, <2>2, FS_RemoveElement
<1>3. CASE c # b
  <2>1. {q \in Procs : bp'[q] = c} = U
    BY <1>3, BufFacts DEF BTypeOK
  <2>2. QED
    BY <1>3, <2>1
<1>4. QED
  BY <1>2, <1>3

(* A buffer somebody uses is referred to. *)
LEMMA UsedIsReferred ==
  ASSUME BTypeOK, RefsCounted, NEW p \in Procs, bp[p] # NoBuf
  PROVE  refcnt[bp[p]] > 0
<1> DEFINE U == {q \in Procs : bp[q] = bp[p]}
<1>1. IsFiniteSet(U) /\ p \in U
  BY ProcsAssumption, FS_Subset
<1>2. Cardinality(U) \in Nat /\ Cardinality(U) # 0
  BY <1>1, FS_CardinalityType, FS_EmptySet
<1>3. bp[p] \in Buf
  BY DEF BTypeOK
<1>4. refcnt[bp[p]] = Cardinality(U)
  BY <1>3 DEF RefsCounted
<1>5. QED
  BY <1>2, <1>4

(* binit() establishes the invariant. *)
LEMMA InitInv == BInit => BIndInv
<1> SUFFICES ASSUME BInit PROVE BIndInv
  OBVIOUS
<1>1. BTypeOK
  <2>1. lru \in [1..NBUF -> Buf]
    <3>1. \A i \in 1..NBUF : NBUF + 1 - i \in 1..NBUF
      BY NBUFAssumption
    <3>2. QED
      BY <3>1 DEF BInit, Buf
  <2>2. data \in [Buf -> Val]
    BY DEF BInit
  <2>3. QED
    BY <2>1, <2>2 DEF BInit, BTypeOK, BLabels
<1>2. Points
  BY NBUFAssumption, NamesAssumption DEF BInit, Points, BTypeOK, BLabels, Buf, NoBuf, Owning
<1>3. LockOwner
  BY NBUFAssumption, NamesAssumption DEF BInit, LockOwner, BTypeOK, BLabels, Buf, NoBuf, Owning
<1>4. OneBufferPerSector
  BY NBUFAssumption, NamesAssumption DEF BInit, OneBufferPerSector, BTypeOK, BLabels, Buf, NoBuf, Owning
<1>5. RefsCounted
  <2> SUFFICES ASSUME NEW b \in Buf PROVE refcnt[b] = Cardinality({p \in Procs : bp[p] = b})
    BY DEF RefsCounted
  <2>1. {p \in Procs : bp[p] = b} = {}
    BY BufFacts DEF BInit
  <2>2. QED
    BY <2>1, FS_EmptySet DEF BInit
<1>6. BufferKept
  BY NBUFAssumption, NamesAssumption DEF BInit, BufferKept, BTypeOK, BLabels, Buf, NoBuf, Owning
<1>7. CleanBuffers
  BY NBUFAssumption, NamesAssumption DEF BInit, CleanBuffers, BTypeOK, BLabels, Buf, NoBuf, Owning
<1>8. QED
  BY <1>1, <1>2, <1>3, <1>4, <1>5, <1>6, <1>7 DEF BIndInv

(* bget() of a cached sector preserves the invariant. *)
LEMMA BgetHitKeeps ==
  ASSUME NEW p \in Procs, NEW s \in Sector, BIndInv, BgetHit(p, s) PROVE BIndInv'
<1> USE BufFacts, NamesAssumption DEF BIndInv
<1>0. bp[p] = NoBuf
  BY DEF BgetHit, Points
<1>b. PICK b \in Buf : sectorno[b] = s /\ refcnt' = [refcnt EXCEPT ![b] = @ + 1]
                     /\ bp' = [bp EXCEPT ![p] = b]
  BY DEF BgetHit
<1>1. BTypeOK'
  BY <1>0, <1>b DEF BgetHit, BTypeOK, BGoto, BLabels, buffers
<1>2. Points'
  BY <1>0, <1>b DEF BgetHit, Points, BTypeOK, BGoto, buffers, LockOwner, Owning
<1>3. LockOwner'
  BY <1>0, <1>b DEF BgetHit, LockOwner, BTypeOK, BGoto, Owning, buffers, Points
<1>4. OneBufferPerSector'
  BY <1>0, <1>b DEF BgetHit, OneBufferPerSector, BTypeOK, buffers
<1>5. RefsCounted'
  <2> SUFFICES ASSUME NEW c \in Buf
               PROVE  refcnt'[c] = Cardinality({q \in Procs : bp'[q] = c})
    BY DEF RefsCounted
  <2>1. Cardinality({q \in Procs : bp'[q] = c}) =
          IF c = b THEN Cardinality({q \in Procs : bp[q] = c}) + 1
          ELSE Cardinality({q \in Procs : bp[q] = c})
    BY <1>0, <1>b, OneMoreUser
  <2>2. refcnt[c] = Cardinality({q \in Procs : bp[q] = c})
    BY DEF RefsCounted
  <2>3. QED
    BY <1>b, <2>1, <2>2 DEF BTypeOK
<1>6. BufferKept'
  BY <1>0, <1>b DEF BgetHit, BufferKept, BTypeOK, buffers, Points
<1>7. CleanBuffers'
  BY <1>0, <1>b DEF BgetHit, CleanBuffers, BTypeOK, BGoto, buffers, BufferKept, OneBufferPerSector, LockOwner, Owning, Points
<1>8. QED
  BY <1>1, <1>2, <1>3, <1>4, <1>5, <1>6, <1>7

(* bget() that recycles a buffer preserves the invariant. *)
LEMMA BgetRecycleKeeps ==
  ASSUME NEW p \in Procs, NEW s \in Sector, BIndInv, BgetRecycle(p, s) PROVE BIndInv'
<1> USE BufFacts, NamesAssumption DEF BIndInv
<1>0. bp[p] = NoBuf
  BY DEF BgetRecycle, Points
<1>b. PICK b \in Buf : IsVictim(b) /\ sectorno' = [sectorno EXCEPT ![b] = s]
                     /\ valid' = [valid EXCEPT ![b] = FALSE]
                     /\ refcnt' = [refcnt EXCEPT ![b] = 1] /\ bp' = [bp EXCEPT ![p] = b]
  BY DEF BgetRecycle
<1>c. refcnt[b] = 0
  BY <1>b DEF IsVictim
<1>d. \A q \in Procs : bp[q] # b
  BY <1>c, UsedIsReferred, BufFacts
<1>e. \A c \in Buf : sectorno[c] # s
  BY DEF BgetRecycle, Cached
<1>1. BTypeOK'
  BY <1>0, <1>b, <1>c, <1>d, <1>e DEF BgetRecycle, BTypeOK, BGoto, BLabels, buffers
<1>2. Points'
  BY <1>0, <1>b, <1>c, <1>d, <1>e DEF BgetRecycle, Points, BTypeOK, BGoto, buffers, LockOwner, Owning
<1>3. LockOwner'
  BY <1>0, <1>b, <1>c, <1>d, <1>e DEF BgetRecycle, LockOwner, BTypeOK, BGoto, Owning, buffers, Points
<1>4. OneBufferPerSector'
  BY <1>0, <1>b, <1>c, <1>d, <1>e DEF BgetRecycle, OneBufferPerSector, BTypeOK, buffers
<1>5. RefsCounted'
  <2> SUFFICES ASSUME NEW c \in Buf
               PROVE  refcnt'[c] = Cardinality({q \in Procs : bp'[q] = c})
    BY DEF RefsCounted
  <2>1. Cardinality({q \in Procs : bp'[q] = c}) =
          IF c = b THEN Cardinality({q \in Procs : bp[q] = c}) + 1
          ELSE Cardinality({q \in Procs : bp[q] = c})
    BY <1>0, <1>b, OneMoreUser
  <2>2. refcnt[c] = Cardinality({q \in Procs : bp[q] = c})
    BY DEF RefsCounted
  <2>3. QED
    BY <1>b, <1>c, <1>d, <1>e, <2>1, <2>2 DEF BTypeOK
<1>6. BufferKept'
  BY <1>0, <1>b, <1>c, <1>d, <1>e DEF BgetRecycle, BufferKept, BTypeOK, buffers, Points
<1>7. CleanBuffers'
  BY <1>0, <1>b, <1>c, <1>d, <1>e DEF BgetRecycle, CleanBuffers, BTypeOK, BGoto, buffers, BufferKept, OneBufferPerSector, LockOwner, Owning, Points
<1>8. QED
  BY <1>1, <1>2, <1>3, <1>4, <1>5, <1>6, <1>7

(* The panic of bget() preserves the invariant. *)
LEMMA BgetPanicKeeps ==
  ASSUME NEW p \in Procs, NEW s \in Sector, BIndInv, BgetPanic(p, s) PROVE BIndInv'
<1> USE BufFacts, NamesAssumption DEF BIndInv
<1>0. TRUE
  OBVIOUS
<1>1. BTypeOK'
  BY <1>0 DEF BgetPanic, BTypeOK, BGoto, BLabels, buffers
<1>2. Points'
  BY <1>0 DEF BgetPanic, Points, BTypeOK, BGoto, buffers, LockOwner, Owning
<1>3. LockOwner'
  BY <1>0 DEF BgetPanic, LockOwner, BTypeOK, BGoto, Owning, buffers, Points
<1>4. OneBufferPerSector'
  BY <1>0 DEF BgetPanic, OneBufferPerSector, BTypeOK, buffers
<1>5. RefsCounted'
  BY DEF BgetPanic, RefsCounted, buffers
<1>6. BufferKept'
  BY <1>0 DEF BgetPanic, BufferKept, BTypeOK, buffers, Points
<1>7. CleanBuffers'
  BY <1>0 DEF BgetPanic, CleanBuffers, BTypeOK, BGoto, buffers, BufferKept, OneBufferPerSector, LockOwner, Owning, Points
<1>8. QED
  BY <1>1, <1>2, <1>3, <1>4, <1>5, <1>6, <1>7

(* A change of the data preserves the invariant. *)
LEMMA ModifyKeeps ==
  ASSUME NEW p \in Procs, NEW v \in Val, BIndInv, Modify(p, v) PROVE BIndInv'
<1> USE BufFacts, NamesAssumption DEF BIndInv
<1>0. bp[p] \in Buf
  BY DEF Modify, BTypeOK, Points
<1>1. BTypeOK'
  BY <1>0 DEF Modify, BTypeOK, BGoto, BLabels, buffers
<1>2. Points'
  BY <1>0 DEF Modify, Points, BTypeOK, BGoto, buffers, LockOwner, Owning
<1>3. LockOwner'
  BY <1>0 DEF Modify, LockOwner, BTypeOK, BGoto, Owning, buffers, Points
<1>4. OneBufferPerSector'
  BY <1>0 DEF Modify, OneBufferPerSector, BTypeOK, buffers
<1>5. RefsCounted'
  BY DEF Modify, RefsCounted, buffers
<1>6. BufferKept'
  BY <1>0 DEF Modify, BufferKept, BTypeOK, buffers, Points
<1>7. CleanBuffers'
  BY <1>0 DEF Modify, CleanBuffers, BTypeOK, BGoto, buffers, BufferKept, OneBufferPerSector, LockOwner, Owning, Points
<1>8. QED
  BY <1>1, <1>2, <1>3, <1>4, <1>5, <1>6, <1>7

(* Acquiring b->lock preserves the invariant. *)
LEMMA AcquireSleepKeeps ==
  ASSUME NEW p \in Procs, BIndInv, AcquireSleep(p) PROVE BIndInv'
<1> USE BufFacts, NamesAssumption DEF BIndInv
<1>0. bp[p] \in Buf
  BY DEF AcquireSleep, BTypeOK, Points
<1>1. BTypeOK'
  BY <1>0 DEF AcquireSleep, BTypeOK, BGoto, BLabels, buffers
<1>2. Points'
  BY <1>0 DEF AcquireSleep, Points, BTypeOK, BGoto, buffers, LockOwner, Owning
<1>3. LockOwner'
  BY <1>0 DEF AcquireSleep, LockOwner, BTypeOK, BGoto, Owning, buffers, Points
<1>4. OneBufferPerSector'
  BY <1>0 DEF AcquireSleep, OneBufferPerSector, BTypeOK, buffers
<1>5. RefsCounted'
  BY DEF AcquireSleep, RefsCounted, buffers
<1>6. BufferKept'
  BY <1>0 DEF AcquireSleep, BufferKept, BTypeOK, buffers, Points
<1>7. CleanBuffers'
  BY <1>0 DEF AcquireSleep, CleanBuffers, BTypeOK, BGoto, buffers, BufferKept, OneBufferPerSector, LockOwner, Owning, Points
<1>8. QED
  BY <1>1, <1>2, <1>3, <1>4, <1>5, <1>6, <1>7

(* bread()'s test of b->valid preserves the invariant. *)
LEMMA BreadTestKeeps ==
  ASSUME NEW p \in Procs, BIndInv, BreadTest(p) PROVE BIndInv'
<1> USE BufFacts, NamesAssumption DEF BIndInv
<1>0. bp[p] \in Buf
  BY DEF BreadTest, BTypeOK, Points
<1>1. BTypeOK'
  BY <1>0 DEF BreadTest, BTypeOK, BGoto, BLabels, buffers
<1>2. Points'
  BY <1>0 DEF BreadTest, Points, BTypeOK, BGoto, buffers, LockOwner, Owning
<1>3. LockOwner'
  BY <1>0 DEF BreadTest, LockOwner, BTypeOK, BGoto, Owning, buffers, Points
<1>4. OneBufferPerSector'
  BY <1>0 DEF BreadTest, OneBufferPerSector, BTypeOK, buffers
<1>5. RefsCounted'
  BY DEF BreadTest, RefsCounted, buffers
<1>6. BufferKept'
  BY <1>0 DEF BreadTest, BufferKept, BTypeOK, buffers, Points
<1>7. CleanBuffers'
  BY <1>0 DEF BreadTest, CleanBuffers, BTypeOK, BGoto, buffers, BufferKept, OneBufferPerSector, LockOwner, Owning, Points
<1>8. QED
  BY <1>1, <1>2, <1>3, <1>4, <1>5, <1>6, <1>7

(* disk_read() preserves the invariant. *)
LEMMA DiskReadKeeps ==
  ASSUME NEW p \in Procs, BIndInv, DiskRead(p) PROVE BIndInv'
<1> USE BufFacts, NamesAssumption DEF BIndInv
<1>0. bp[p] \in Buf
  BY DEF DiskRead, BTypeOK, Points
<1>a. sectorno[bp[p]] \in Sector
  BY <1>0 DEF BTypeOK, BufferKept
<1>1. BTypeOK'
  BY <1>0, <1>a DEF DiskRead, BTypeOK, BGoto, BLabels, buffers
<1>2. Points'
  BY <1>0, <1>a DEF DiskRead, Points, BTypeOK, BGoto, buffers, LockOwner, Owning
<1>3. LockOwner'
  BY <1>0, <1>a DEF DiskRead, LockOwner, BTypeOK, BGoto, Owning, buffers, Points
<1>4. OneBufferPerSector'
  BY <1>0, <1>a DEF DiskRead, OneBufferPerSector, BTypeOK, buffers
<1>5. RefsCounted'
  BY DEF DiskRead, RefsCounted, buffers
<1>6. BufferKept'
  BY <1>0, <1>a DEF DiskRead, BufferKept, BTypeOK, buffers, Points
<1>7. CleanBuffers'
  BY <1>0, <1>a DEF DiskRead, CleanBuffers, BTypeOK, BGoto, buffers, BufferKept, OneBufferPerSector, LockOwner, Owning, Points
<1>8. QED
  BY <1>1, <1>2, <1>3, <1>4, <1>5, <1>6, <1>7

(* bwrite() preserves the invariant. *)
LEMMA BwriteKeeps ==
  ASSUME NEW p \in Procs, BIndInv, Bwrite(p) PROVE BIndInv'
<1> USE BufFacts, NamesAssumption DEF BIndInv
<1>0. bp[p] \in Buf
  BY DEF Bwrite, BTypeOK, Points
<1>a. sectorno[bp[p]] \in Sector
  BY <1>0 DEF BTypeOK, BufferKept
<1>1. BTypeOK'
  BY <1>0, <1>a DEF Bwrite, BTypeOK, BGoto, BLabels, buffers
<1>2. Points'
  BY <1>0, <1>a DEF Bwrite, Points, BTypeOK, BGoto, buffers, LockOwner, Owning
<1>3. LockOwner'
  BY <1>0, <1>a DEF Bwrite, LockOwner, BTypeOK, BGoto, Owning, buffers, Points
<1>4. OneBufferPerSector'
  BY <1>0, <1>a DEF Bwrite, OneBufferPerSector, BTypeOK, buffers
<1>5. RefsCounted'
  BY DEF Bwrite, RefsCounted, buffers
<1>6. BufferKept'
  BY <1>0, <1>a DEF Bwrite, BufferKept, BTypeOK, buffers, Points
<1>7. CleanBuffers'
  <2> SUFFICES ASSUME NEW b \in Buf, valid[b],
                      \A q \in Procs : ~(bpc'[q] = "dirty" /\ bp[q] = b)
               PROVE  sectorno[b] # NoSector /\ data[b] = disk'[sectorno[b]]
    BY DEF CleanBuffers, Bwrite, buffers
  <2>1. CASE b = bp[p]
    BY <1>0, <1>a, <2>1 DEF Bwrite, BTypeOK, buffers
  <2>2. CASE b # bp[p]
    <3>1. \A q \in Procs : ~(bpc[q] = "dirty" /\ bp[q] = b)
      BY <2>2 DEF Bwrite, BGoto, BTypeOK
    <3>2. sectorno[b] # NoSector /\ data[b] = disk[sectorno[b]]
      BY <3>1 DEF CleanBuffers
    <3>3. sectorno[b] # sectorno[bp[p]]
      BY <1>0, <1>a, <2>2, <3>2 DEF OneBufferPerSector
    <3>4. QED
      BY <1>0, <1>a, <3>2, <3>3 DEF Bwrite, BTypeOK, buffers
  <2>3. QED
    BY <2>1, <2>2
<1>8. QED
  BY <1>1, <1>2, <1>3, <1>4, <1>5, <1>6, <1>7

(* The first half of brelse() preserves the invariant. *)
LEMMA BrelseUnlockKeeps ==
  ASSUME NEW p \in Procs, BIndInv, BrelseUnlock(p) PROVE BIndInv'
<1> USE BufFacts, NamesAssumption DEF BIndInv
<1>0. bp[p] \in Buf
  BY DEF BrelseUnlock, BTypeOK, Points
<1>1. BTypeOK'
  BY <1>0 DEF BrelseUnlock, BTypeOK, BGoto, BLabels, buffers
<1>2. Points'
  BY <1>0 DEF BrelseUnlock, Points, BTypeOK, BGoto, buffers, LockOwner, Owning
<1>3. LockOwner'
  BY <1>0 DEF BrelseUnlock, LockOwner, BTypeOK, BGoto, Owning, buffers, Points
<1>4. OneBufferPerSector'
  BY <1>0 DEF BrelseUnlock, OneBufferPerSector, BTypeOK, buffers
<1>5. RefsCounted'
  BY DEF BrelseUnlock, RefsCounted, buffers
<1>6. BufferKept'
  BY <1>0 DEF BrelseUnlock, BufferKept, BTypeOK, buffers, Points
<1>7. CleanBuffers'
  BY <1>0 DEF BrelseUnlock, CleanBuffers, BTypeOK, BGoto, buffers, BufferKept, OneBufferPerSector, LockOwner, Owning, Points
<1>8. QED
  BY <1>1, <1>2, <1>3, <1>4, <1>5, <1>6, <1>7

(* The second half of brelse() preserves the invariant. *)
LEMMA BrelseUnrefKeeps ==
  ASSUME NEW p \in Procs, BIndInv, BrelseUnref(p) PROVE BIndInv'
<1> USE BufFacts, NamesAssumption DEF BIndInv
<1>0. bp[p] \in Buf
  BY DEF BrelseUnref, BTypeOK, Points
<1>1. BTypeOK'
  <2>1. refcnt[bp[p]] > 0
    BY <1>0, UsedIsReferred
  <2>2. MovedToFront(bp[p]) \in [1..NBUF -> Buf]
    <3> DEFINE k == CHOOSE i \in 1..NBUF : lru[i] = bp[p]
               f == [i \in 1..NBUF |-> IF i = 1 THEN bp[p] ELSE IF i <= k THEN lru[i - 1] ELSE lru[i]]
    <3>1. \A i \in 1..NBUF : i = 1 \/ i - 1 \in 1..NBUF
      BY NBUFAssumption
    <3>2. \A i \in 1..NBUF : f[i] \in Buf
      <4> HIDE DEF k
      <4>1. QED
        BY <1>0, <3>1 DEF BTypeOK
    <3>3. MovedToFront(bp[p]) = f
      BY DEF MovedToFront
    <3>4. QED
      BY <3>2, <3>3
  <2>3. refcnt' \in [Buf -> Nat]
    BY <1>0, <2>1 DEF BTypeOK, BrelseUnref
  <2>4. lru' \in [1..NBUF -> Buf]
    BY <2>2 DEF BTypeOK, BrelseUnref
  <2>5. QED
    BY <1>0, <2>3, <2>4 DEF BTypeOK, BrelseUnref, BGoto, BLabels
<1>2. Points'
  BY <1>0 DEF BrelseUnref, Points, BTypeOK, BGoto, buffers, LockOwner, Owning
<1>3. LockOwner'
  BY <1>0 DEF BrelseUnref, LockOwner, BTypeOK, BGoto, Owning, buffers, Points
<1>4. OneBufferPerSector'
  BY <1>0 DEF BrelseUnref, OneBufferPerSector, BTypeOK, buffers
<1>5. RefsCounted'
  <2> SUFFICES ASSUME NEW c \in Buf
               PROVE  refcnt'[c] = Cardinality({q \in Procs : bp'[q] = c})
    BY DEF RefsCounted
  <2>1. Cardinality({q \in Procs : bp'[q] = c}) =
          IF c = bp[p] THEN Cardinality({q \in Procs : bp[q] = c}) - 1
          ELSE Cardinality({q \in Procs : bp[q] = c})
    BY <1>0, OneUserLess DEF BrelseUnref
  <2>2. refcnt[c] = Cardinality({q \in Procs : bp[q] = c})
    BY DEF RefsCounted
  <2>3. QED
    BY <1>0, <2>1, <2>2 DEF BTypeOK, BrelseUnref
<1>6. BufferKept'
  BY <1>0 DEF BrelseUnref, BufferKept, BTypeOK, buffers, Points
<1>7. CleanBuffers'
  BY <1>0 DEF BrelseUnref, CleanBuffers, BTypeOK, BGoto, buffers, BufferKept, OneBufferPerSector, LockOwner, Owning, Points
<1>8. QED
  BY <1>1, <1>2, <1>3, <1>4, <1>5, <1>6, <1>7

(* The inductive invariant holds: bcache.lock protects a buffer's identity *)
(* and refcnt, b->lock its contents, in all the orders in which processes  *)
(* pass from one to the other.                                             *)
THEOREM CacheInvariance == BSpec => []BIndInv
<1>1. BIndInv /\ [BNext]_bvars => BIndInv'
  <2> SUFFICES ASSUME BIndInv, [BNext]_bvars PROVE BIndInv'
    OBVIOUS
  <2>1. ASSUME NEW p \in Procs, NEW s \in Sector, BgetHit(p, s) PROVE BIndInv'
    BY <2>1, BgetHitKeeps
  <2>2. ASSUME NEW p \in Procs, NEW s \in Sector, BgetRecycle(p, s) PROVE BIndInv'
    BY <2>2, BgetRecycleKeeps
  <2>3. ASSUME NEW p \in Procs, NEW s \in Sector, BgetPanic(p, s) PROVE BIndInv'
    BY <2>3, BgetPanicKeeps
  <2>4. ASSUME NEW p \in Procs, NEW v \in Val, Modify(p, v) PROVE BIndInv'
    BY <2>4, ModifyKeeps
  <2>5. ASSUME NEW p \in Procs, AcquireSleep(p) PROVE BIndInv'
    BY <2>5, AcquireSleepKeeps
  <2>6. ASSUME NEW p \in Procs, BreadTest(p) PROVE BIndInv'
    BY <2>6, BreadTestKeeps
  <2>7. ASSUME NEW p \in Procs, DiskRead(p) PROVE BIndInv'
    BY <2>7, DiskReadKeeps
  <2>8. ASSUME NEW p \in Procs, Bwrite(p) PROVE BIndInv'
    BY <2>8, BwriteKeeps
  <2>9. ASSUME NEW p \in Procs, BrelseUnlock(p) PROVE BIndInv'
    BY <2>9, BrelseUnlockKeeps
  <2>10. ASSUME NEW p \in Procs, BrelseUnref(p) PROVE BIndInv'
    BY <2>10, BrelseUnrefKeeps
  <2>11. CASE UNCHANGED bvars
    BY <2>11 DEF bvars, BIndInv, BTypeOK, Points, LockOwner, OneBufferPerSector, RefsCounted,
                 BufferKept, CleanBuffers
  <2>12. QED
    BY <2>1, <2>2, <2>3, <2>4, <2>5, <2>6, <2>7, <2>8, <2>9, <2>10, <2>11 DEF BNext
<1>2. QED
  BY <1>1, InitInv, PTL DEF BSpec

(* bget() never gives a sector two buffers.                                *)
THEOREM UniqueBuffer == BSpec => []OneBufferPerSector
<1>1. BIndInv => OneBufferPerSector
  BY DEF BIndInv
<1>2. QED
  BY <1>1, CacheInvariance, PTL

(* The buffer bget() chose still holds the caller's sector when b->lock is *)
(* acquired, and until brelse() drops the reference.                       *)
THEOREM NotRecycledInUse == BSpec => []BufferKept
<1>1. BIndInv => BufferKept
  BY DEF BIndInv
<1>2. QED
  BY <1>1, CacheInvariance, PTL

(* bwrite() keeps every valid buffer nobody is changing equal to the disk. *)
THEOREM WriteThrough == BSpec => []CleanBuffers
<1>1. BIndInv => CleanBuffers
  BY DEF BIndInv
<1>2. QED
  BY <1>1, CacheInvariance, PTL

-----------------------------------------------------------------------------
(* What a sector holds in the sector store: what its valid buffer holds,   *)
(* or else the disk.                                                       *)
LEMMA ContentOf ==
  BIndInv => \A s \in Sector :
    /\ \A b \in Buf : sectorno[b] = s /\ valid[b] => contentBar[s] = data[b]
    /\ (\A b \in Buf : ~(sectorno[b] = s /\ valid[b])) => contentBar[s] = disk[s]
<1> SUFFICES ASSUME BIndInv, NEW s \in Sector
             PROVE  /\ \A b \in Buf : sectorno[b] = s /\ valid[b] => contentBar[s] = data[b]
                    /\ (\A b \in Buf : ~(sectorno[b] = s /\ valid[b])) => contentBar[s] = disk[s]
  OBVIOUS
<1>1. ASSUME NEW b \in Buf, sectorno[b] = s, valid[b] PROVE contentBar[s] = data[b]
  <2> DEFINE c == CHOOSE d \in Buf : sectorno[d] = s /\ valid[d]
  <2>1. c \in Buf /\ sectorno[c] = s
    BY <1>1
  <2>2. c = b
    BY <1>1, <2>1, NamesAssumption DEF BIndInv, OneBufferPerSector
  <2> QED BY <1>1, <2>2 DEF contentBar
<1>2. (\A b \in Buf : ~(sectorno[b] = s /\ valid[b])) => contentBar[s] = disk[s]
  BY DEF contentBar
<1> QED BY <1>1, <1>2

(* A process that bread() gave sector s, until brelse(). *)
Has(p, s) == bpc[p] \in {"hold", "dirty"} /\ bwant[p] = s

(* The user of a sector in the sector store is the process that has it.    *)
LEMMA UserOf ==
  BIndInv => \A s \in Sector :
    /\ userBar[s] \in Procs \cup {NoProc}
    /\ \A p \in Procs : userBar[s] = p <=> Has(p, s)
<1> SUFFICES ASSUME BIndInv, NEW s \in Sector
             PROVE  /\ userBar[s] \in Procs \cup {NoProc}
                    /\ \A p \in Procs : userBar[s] = p <=> Has(p, s)
  OBVIOUS
<1> USE BufFacts, NamesAssumption
<1>1. ASSUME NEW p \in Procs, NEW b \in Buf
      PROVE  owner[b] = p /\ sectorno[b] = s /\ HeldBy(b) <=> bp[p] = b /\ Has(p, s)
  <2>1. owner[b] = p <=> bp[p] = b /\ bpc[p] \in Owning
    BY DEF BIndInv, LockOwner
  <2>2. bp[p] = b => sectorno[b] = bwant[p]
    BY DEF BIndInv, BufferKept
  <2> QED BY <2>1, <2>2 DEF Owning, HeldBy, Has
<1>2. CASE \E b \in Buf : sectorno[b] = s /\ HeldBy(b)
  <2> DEFINE c == CHOOSE d \in Buf : sectorno[d] = s /\ HeldBy(d)
  <2>1. c \in Buf /\ sectorno[c] = s /\ HeldBy(c)
    BY <1>2
  <2>2. userBar[s] = owner[c]
    BY <1>2 DEF userBar
  <2> HIDE DEF c
  <2>3. owner[c] \in Procs
    BY <2>1 DEF BIndInv, BTypeOK, HeldBy
  <2>4. ASSUME NEW p \in Procs, Has(p, s) PROVE owner[c] = p
    <3>1. bp[p] \in Buf /\ sectorno[bp[p]] = s
      BY <2>4 DEF BIndInv, BTypeOK, Points, BufferKept, Has
    <3>2. bp[p] = c
      BY <2>1, <3>1 DEF BIndInv, OneBufferPerSector
    <3> QED BY <1>1, <2>4, <3>1, <3>2
  <2> QED BY <1>1, <2>1, <2>2, <2>3, <2>4
<1>3. CASE ~ \E b \in Buf : sectorno[b] = s /\ HeldBy(b)
  <2>1. userBar[s] = NoProc
    BY <1>3 DEF userBar
  <2>2. ASSUME NEW p \in Procs, Has(p, s) PROVE FALSE
    <3>1. bp[p] \in Buf
      BY <2>2 DEF BIndInv, BTypeOK, Points, Has
    <3> QED BY <1>1, <1>3, <2>2, <3>1
  <2> QED BY <2>1, <2>2
<1> QED BY <1>2, <1>3

(* Both facts after a step that preserves the invariant. *)
LEMMA After ==
  ASSUME BIndInv'
  PROVE  \A s \in Sector :
    /\ \A b \in Buf : sectorno'[b] = s /\ valid'[b] => contentBar'[s] = data'[b]
    /\ (\A b \in Buf : ~(sectorno'[b] = s /\ valid'[b])) => contentBar'[s] = disk'[s]
    /\ userBar'[s] \in Procs \cup {NoProc}
    /\ \A p \in Procs : userBar'[s] = p <=> Has(p, s)'
<1>1. BIndInv' => (\A s \in Sector :
        /\ \A b \in Buf : sectorno[b] = s /\ valid[b] => contentBar[s] = data[b]
        /\ (\A b \in Buf : ~(sectorno[b] = s /\ valid[b])) => contentBar[s] = disk[s])'
  BY ContentOf, PTL
<1>2. BIndInv' => (\A s \in Sector :
        /\ userBar[s] \in Procs \cup {NoProc}
        /\ \A p \in Procs : userBar[s] = p <=> Has(p, s))'
  BY UserOf, PTL
<1> QED BY <1>1, <1>2

(* Functions on one set that agree there, or everywhere but at one point.  *)
LEMMA Agree ==
  ASSUME NEW S, NEW f, NEW g, f = [x \in S |-> f[x]], g = [x \in S |-> g[x]],
         \A x \in S : g[x] = f[x]
  PROVE  g = f
OBVIOUS

(* Two functions that differ at one argument at most. *)
LEMMA AgreeButOne ==
  ASSUME NEW S, NEW f, NEW g, f = [x \in S |-> f[x]], g = [x \in S |-> g[x]],
         NEW a \in S, NEW v, g[a] = v, \A x \in S : x # a => g[x] = f[x]
  PROVE  g = [f EXCEPT ![a] = v]
OBVIOUS

(* Both refined variables are functions on the sectors, before and after a   *)
(* step.                                                                     *)
LEMMA BarsAreFunctions ==
  /\ userBar = [s \in Sector |-> userBar[s]] /\ userBar' = [s \in Sector |-> userBar'[s]]
  /\ contentBar = [s \in Sector |-> contentBar[s]]
  /\ contentBar' = [s \in Sector |-> contentBar'[s]]
<1>1. userBar = [s \in Sector |-> userBar[s]]
  BY Zenon DEF userBar
<1>2. contentBar = [s \in Sector |-> contentBar[s]]
  BY Zenon DEF contentBar
<1>3. (userBar = [s \in Sector |-> userBar[s]])' /\ (contentBar = [s \in Sector |-> contentBar[s]])'
  BY <1>1, <1>2, PTL
<1> QED BY <1>1, <1>2, <1>3

(* The user of each sector is the same when each process has what it had.  *)
LEMMA SameUsers ==
  ASSUME BIndInv, BIndInv', \A p \in Procs, s \in Sector : Has(p, s)' <=> Has(p, s)
  PROVE  userBar' = userBar
<1>1. ASSUME NEW s \in Sector PROVE userBar'[s] = userBar[s]
  BY UserOf, After
<1> QED BY <1>1, BarsAreFunctions, Agree

(* Sector s is opened by p when p has it afterwards and nobody had it.     *)
LEMMA Opened ==
  ASSUME BIndInv, BIndInv', NEW p \in Procs, NEW s \in Sector,
         Has(p, s)', \A q \in Procs : ~Has(q, s),
         \A q \in Procs, t \in Sector : q # p \/ t # s => (Has(q, t)' <=> Has(q, t))
  PROVE  userBar[s] = NoProc /\ userBar' = [userBar EXCEPT ![s] = p]
<1>1. userBar[s] = NoProc /\ userBar'[s] = p
  BY UserOf, After
<1>2. ASSUME NEW t \in Sector, t # s PROVE userBar'[t] = userBar[t]
  BY <1>2, UserOf, After
<1> QED BY <1>1, <1>2, BarsAreFunctions, AgreeButOne

(* Two processes never have the same sector. *)
LEMMA OneUser ==
  ASSUME BIndInv, NEW p \in Procs, NEW q \in Procs, NEW s \in Sector, bp[p] \in Buf, bp[q] \in Buf,
         bpc[p] \in Owning, bwant[p] = s, bpc[q] \in Owning, bwant[q] = s
  PROVE  p = q
<1>1. bp[p] = bp[q]
  BY BufFacts, NamesAssumption DEF BIndInv, BufferKept, OneBufferPerSector
<1> QED BY <1>1, BufFacts DEF BIndInv, LockOwner

(* What Has(p, s) needs to stay as it was for everybody else. *)
LEMMA OthersHave ==
  ASSUME BIndInv, NEW p \in Procs, NEW l, BGoto(p, l),
         \A q \in Procs : q # p => bwant'[q] = bwant[q]
  PROVE  \A q \in Procs, t \in Sector : q # p => (Has(q, t)' <=> Has(q, t))
BY DEF BIndInv, BTypeOK, BGoto, Has

(* Steps that leave the buffers, the disk and who has what alone stutter.  *)
LEMMA SameContent ==
  ASSUME BIndInv, BIndInv', UNCHANGED <<sectorno, valid, data, disk>>
  PROVE  contentBar' = contentBar
BY DEF contentBar

(* binit() leaves what an unused sector store has. *)
LEMMA InitStore == BInit => Store!SInit
<1> SUFFICES ASSUME BInit PROVE Store!SInit
  OBVIOUS
<1>1. ASSUME NEW s \in Sector PROVE contentBar[s] = disk[s] /\ userBar[s] = NoProc
  BY DEF BInit, contentBar, userBar, HeldBy
<1>2. contentBar = disk
  BY <1>1, BarsAreFunctions, Agree DEF BInit
<1>3. userBar = [s \in Sector |-> NoProc]
  BY <1>1, BarsAreFunctions, Agree
<1> QED BY <1>2, <1>3 DEF BInit, Store!SInit

(* bget() of a cached sector is invisible. *)
LEMMA BgetHitStutters ==
  ASSUME BIndInv, BIndInv', NEW p \in Procs, NEW s \in Sector, BgetHit(p, s)
  PROVE  UNCHANGED <<contentBar, userBar>>
<1>1. contentBar' = contentBar
  BY SameContent DEF BgetHit
<1>2. \A q \in Procs, t \in Sector : q # p => (Has(q, t)' <=> Has(q, t))
  BY OthersHave DEF BgetHit, BIndInv, BTypeOK
<1>3. \A t \in Sector : ~Has(p, t) /\ ~Has(p, t)'
  BY DEF BgetHit, BGoto, Has, BIndInv, BTypeOK
<1>4. userBar' = userBar
  BY <1>2, <1>3, SameUsers
<1> QED BY <1>1, <1>4

(* Recycling is invisible: the buffer that is lost held what the disk      *)
(* holds, and the sector it is given to had no valid buffer before or now. *)
LEMMA BgetRecycleStutters ==
  ASSUME BIndInv, BIndInv', NEW p \in Procs, NEW s \in Sector, BgetRecycle(p, s)
  PROVE  UNCHANGED <<contentBar, userBar>>
<1>b. PICK b \in Buf : IsVictim(b) /\ sectorno' = [sectorno EXCEPT ![b] = s]
                     /\ valid' = [valid EXCEPT ![b] = FALSE]
                     /\ refcnt' = [refcnt EXCEPT ![b] = 1] /\ bp' = [bp EXCEPT ![p] = b]
  BY DEF BgetRecycle
<1>c. \A q \in Procs : bp[q] # b
  BY <1>b, UsedIsReferred, BufFacts DEF IsVictim, BIndInv
<1>d. valid[b] => sectorno[b] # NoSector /\ data[b] = disk[sectorno[b]]
  BY <1>c DEF BIndInv, CleanBuffers
<1>e. \A c \in Buf : c # b => sectorno'[c] = sectorno[c] /\ valid'[c] = valid[c]
  BY <1>b DEF BIndInv, BTypeOK
<1>f. ~valid'[b] /\ data' = data /\ disk' = disk
  BY <1>b DEF BIndInv, BTypeOK, BgetRecycle
<1>1. ASSUME NEW t \in Sector PROVE contentBar'[t] = contentBar[t]
  <2>1. CASE \E c \in Buf : c # b /\ sectorno[c] = t /\ valid[c]
    <3>1. PICK c \in Buf : c # b /\ sectorno[c] = t /\ valid[c]
      BY <2>1
    <3>2. contentBar[t] = data[c]
      BY <3>1, ContentOf
    <3>3. contentBar'[t] = data[c]
      BY <3>1, <1>e, <1>f, After
    <3> QED BY <3>2, <3>3
  <2>2. CASE ~ \E c \in Buf : c # b /\ sectorno[c] = t /\ valid[c]
    <3>1. contentBar'[t] = disk[t]
      BY <2>2, <1>e, <1>f, After
    <3>2. CASE sectorno[b] = t /\ valid[b]
      <4>1. contentBar[t] = data[b]
        BY <3>2, ContentOf
      <4> QED BY <1>d, <3>1, <3>2, <4>1
    <3>3. CASE ~(sectorno[b] = t /\ valid[b])
      <4>1. contentBar[t] = disk[t]
        BY <2>2, <3>3, ContentOf
      <4> QED BY <3>1, <4>1
    <3> QED BY <3>2, <3>3
  <2> QED BY <2>1, <2>2
<1>2. contentBar' = contentBar
  BY <1>1, BarsAreFunctions, Agree
<1>3. \A q \in Procs, t \in Sector : q # p => (Has(q, t)' <=> Has(q, t))
  BY OthersHave DEF BgetRecycle, BIndInv, BTypeOK
<1>4. \A t \in Sector : ~Has(p, t) /\ ~Has(p, t)'
  BY DEF BgetRecycle, BGoto, Has, BIndInv, BTypeOK
<1>5. userBar' = userBar
  BY <1>3, <1>4, SameUsers
<1> QED BY <1>2, <1>5

(* The panic of bget(), and both steps of a process that does not hold the *)
(* buffer's contents, are invisible.                                       *)
LEMMA BgetPanicStutters ==
  ASSUME NEW p \in Procs, NEW s \in Sector, BgetPanic(p, s)
  PROVE  UNCHANGED <<contentBar, userBar>>
BY DEF BgetPanic, buffers, contentBar, userBar, HeldBy

(* Taking b->lock gives the process no sector yet: b->valid is still to be   *)
(* tested.                                                                   *)
LEMMA AcquireSleepStutters ==
  ASSUME BIndInv, BIndInv', NEW p \in Procs, AcquireSleep(p)
  PROVE  UNCHANGED <<contentBar, userBar>>
<1>1. contentBar' = contentBar
  BY SameContent DEF AcquireSleep, buffers
<1>2. \A q \in Procs, t \in Sector : q # p => (Has(q, t)' <=> Has(q, t))
  BY OthersHave DEF AcquireSleep, BIndInv, BTypeOK
<1>3. \A t \in Sector : ~Has(p, t) /\ ~Has(p, t)'
  BY DEF AcquireSleep, BGoto, Has, BIndInv, BTypeOK
<1>4. userBar' = userBar
  BY <1>2, <1>3, SameUsers
<1> QED BY <1>1, <1>4

(* The process gave its sector up when it released b->lock, before it takes  *)
(* bcache.lock.                                                              *)
LEMMA BrelseUnrefStutters ==
  ASSUME BIndInv, BIndInv', NEW p \in Procs, BrelseUnref(p)
  PROVE  UNCHANGED <<contentBar, userBar>>
<1>1. contentBar' = contentBar
  BY SameContent DEF BrelseUnref
<1>2. \A q \in Procs, t \in Sector : q # p => (Has(q, t)' <=> Has(q, t))
  BY OthersHave DEF BrelseUnref, BIndInv, BTypeOK
<1>3. \A t \in Sector : ~Has(p, t) /\ ~Has(p, t)'
  BY DEF BrelseUnref, BGoto, Has, BIndInv, BTypeOK
<1>4. userBar' = userBar
  BY <1>2, <1>3, SameUsers
<1> QED BY <1>1, <1>4

(* A process that gets from b->lock to a buffer it may use opens its       *)
(* sector: the lock kept everybody else from having it.                    *)
LEMMA GotOpens ==
  ASSUME BIndInv, BIndInv', NEW p \in Procs, bpc[p] \in {"got", "io"}, BGoto(p, "hold"),
         UNCHANGED bwant
  PROVE  /\ bwant[p] \in Sector
         /\ userBar[bwant[p]] = NoProc /\ userBar' = [userBar EXCEPT ![bwant[p]] = p]
<1>1. bp[p] \in Buf /\ bwant[p] \in Sector
  BY BufFacts DEF BIndInv, BTypeOK, Points, BufferKept
<1>2. \A q \in Procs, t \in Sector : q # p => (Has(q, t)' <=> Has(q, t))
  BY OthersHave
<1>3. Has(p, bwant[p])' /\ \A t \in Sector : ~Has(p, t) /\ (t # bwant[p] => ~Has(p, t)')
  BY <1>1 DEF BGoto, Has, BIndInv, BTypeOK
<1>4. ASSUME NEW q \in Procs, Has(q, bwant[p]) PROVE FALSE
  <2>1. bp[q] \in Buf /\ bpc[q] \in Owning /\ bwant[q] = bwant[p] /\ q # p
    BY <1>4, BufFacts DEF BIndInv, BTypeOK, Points, Has, Owning
  <2> QED BY <1>1, <2>1, OneUser DEF Owning
<1> QED BY <1>1, <1>2, <1>3, <1>4, Opened

(* bread() of a valid buffer opens the sector; of an invalid one it goes   *)
(* to the disk, which is invisible.                                        *)
LEMMA BreadTestOpens ==
  ASSUME BIndInv, BIndInv', NEW p \in Procs, BreadTest(p)
  PROVE  UNCHANGED <<contentBar, userBar>> \/ Store!SNext
<1>1. contentBar' = contentBar
  BY SameContent DEF BreadTest, buffers
<1>2. CASE valid[bp[p]]
  <2>1. bpc[p] \in {"got", "io"} /\ BGoto(p, "hold") /\ UNCHANGED bwant
    BY <1>2 DEF BreadTest
  <2>2. /\ bwant[p] \in Sector
        /\ userBar[bwant[p]] = NoProc /\ userBar' = [userBar EXCEPT ![bwant[p]] = p]
    BY <2>1, GotOpens
  <2>3. Store!Open(p, bwant[p])
    BY <1>1, <2>2 DEF Store!Open
  <2> QED BY <2>2, <2>3 DEF Store!SNext
<1>3. CASE ~valid[bp[p]]
  <2>1. \A q \in Procs, t \in Sector : q # p => (Has(q, t)' <=> Has(q, t))
    BY OthersHave DEF BreadTest, BIndInv, BTypeOK
  <2>2. \A t \in Sector : ~Has(p, t) /\ ~Has(p, t)'
    BY <1>3 DEF BreadTest, BGoto, Has, BIndInv, BTypeOK
  <2> QED BY <1>1, <2>1, <2>2, SameUsers
<1> QED BY <1>2, <1>3

(* disk_read() opens the sector: the buffer now holds what the disk does,  *)
(* which is what the sector held.                                          *)
LEMMA DiskReadOpens ==
  ASSUME BIndInv, BIndInv', NEW p \in Procs, DiskRead(p)
  PROVE  Store!SNext
<1> DEFINE s == bwant[p]
<1>1. bp[p] \in Buf /\ s \in Sector /\ sectorno[bp[p]] = s /\ ~valid[bp[p]]
  BY BufFacts DEF BIndInv, BTypeOK, Points, BufferKept, DiskRead
<1>2. /\ valid'[bp[p]] /\ data'[bp[p]] = disk[s] /\ sectorno' = sectorno /\ disk' = disk
      /\ \A c \in Buf : c # bp[p] => valid'[c] = valid[c] /\ data'[c] = data[c]
  BY <1>1 DEF BIndInv, BTypeOK, DiskRead
<1>3. \A c \in Buf : sectorno[c] = s => c = bp[p]
  BY <1>1, NamesAssumption DEF BIndInv, OneBufferPerSector
<1>4. ASSUME NEW t \in Sector PROVE contentBar'[t] = contentBar[t]
  <2>1. CASE t = s
    <3>1. contentBar[t] = disk[s]
      BY <1>1, <1>3, <2>1, ContentOf
    <3>2. contentBar'[t] = disk[s]
      BY <1>1, <1>2, <2>1, After
    <3> QED BY <3>1, <3>2
  <2>2. CASE t # s
    BY <1>1, <1>2, <2>2, ContentOf, After
  <2> QED BY <2>1, <2>2
<1>5. contentBar' = contentBar
  BY <1>4, BarsAreFunctions, Agree
<1>6. userBar[s] = NoProc /\ userBar' = [userBar EXCEPT ![s] = p]
  BY GotOpens DEF DiskRead
<1>7. Store!Open(p, s)
  BY <1>5, <1>6 DEF Store!Open
<1> QED BY <1>1, <1>7 DEF Store!SNext

(* A change of the data is a store by the sector's user. *)
LEMMA ModifyStores ==
  ASSUME BIndInv, BIndInv', NEW p \in Procs, NEW v \in Val, Modify(p, v)
  PROVE  Store!SNext
<1> DEFINE s == bwant[p]
<1>1. bp[p] \in Buf /\ s \in Sector /\ sectorno[bp[p]] = s /\ valid[bp[p]]
  BY BufFacts DEF BIndInv, BTypeOK, Points, BufferKept, Modify
<1>2. /\ data'[bp[p]] = v /\ UNCHANGED <<sectorno, valid, disk>>
      /\ \A c \in Buf : c # bp[p] => data'[c] = data[c]
  BY <1>1 DEF BIndInv, BTypeOK, Modify
<1>3. contentBar'[s] = v
  BY <1>1, <1>2, After
<1>4. ASSUME NEW t \in Sector, t # s PROVE contentBar'[t] = contentBar[t]
  BY <1>1, <1>2, <1>4, ContentOf, After
<1>5. contentBar' = [contentBar EXCEPT ![s] = v]
  BY <1>1, <1>3, <1>4, BarsAreFunctions, AgreeButOne
<1>6. Has(p, s) /\ \A t \in Sector : Has(p, t)' <=> Has(p, t)
  BY DEF Modify, BGoto, Has, BIndInv, BTypeOK
<1>7. \A q \in Procs, t \in Sector : q # p => (Has(q, t)' <=> Has(q, t))
  BY OthersHave DEF Modify
<1>8. userBar[s] = p /\ userBar' = userBar
  BY <1>1, <1>6, <1>7, UserOf, SameUsers
<1>9. Store!Store(p, s, v)
  BY <1>5, <1>8 DEF Store!Store
<1> QED BY <1>1, <1>9 DEF Store!SNext

(* bwrite() is invisible: only the disk changes, under a valid buffer. *)
LEMMA BwriteStutters ==
  ASSUME BIndInv, BIndInv', NEW p \in Procs, Bwrite(p)
  PROVE  UNCHANGED <<contentBar, userBar>>
<1> DEFINE s == bwant[p]
<1>1. bp[p] \in Buf /\ s \in Sector /\ sectorno[bp[p]] = s /\ valid[bp[p]]
  BY BufFacts DEF BIndInv, BTypeOK, Points, BufferKept, Bwrite
<1>2. UNCHANGED <<sectorno, valid, data>> /\ \A t \in Sector : t # s => disk'[t] = disk[t]
  BY <1>1 DEF BIndInv, BTypeOK, Bwrite, buffers
<1>3. ASSUME NEW t \in Sector PROVE contentBar'[t] = contentBar[t]
  BY <1>1, <1>2, ContentOf, After
<1>4. contentBar' = contentBar
  BY <1>3, BarsAreFunctions, Agree
<1>5. \A t \in Sector : Has(p, t)' <=> Has(p, t)
  BY DEF Bwrite, BGoto, Has, BIndInv, BTypeOK
<1>6. \A q \in Procs, t \in Sector : q # p => (Has(q, t)' <=> Has(q, t))
  BY OthersHave DEF Bwrite
<1> QED BY <1>4, <1>5, <1>6, SameUsers

(* brelse() closes the sector. *)
LEMMA BrelseUnlockShuts ==
  ASSUME BIndInv, BIndInv', NEW p \in Procs, BrelseUnlock(p)
  PROVE  Store!SNext
<1>0. bp[p] \in Buf /\ bwant[p] \in Sector
  BY BufFacts DEF BIndInv, BTypeOK, Points, BufferKept, BrelseUnlock
<1>1. PICK s \in Sector : s = bwant[p]
  BY <1>0
<1>2. contentBar' = contentBar
  BY SameContent DEF BrelseUnlock, buffers
<1>3. Has(p, s) /\ \A t \in Sector : ~Has(p, t)' /\ (t # s => ~Has(p, t))
  BY <1>1 DEF BrelseUnlock, BGoto, Has, BIndInv, BTypeOK
<1>4. \A q \in Procs, t \in Sector : q # p => (Has(q, t)' <=> Has(q, t))
  BY OthersHave DEF BrelseUnlock
<1>5. userBar[s] = p
  BY <1>1, <1>3, UserOf
<1>6. userBar'[s] = NoProc
  <2>1. ASSUME NEW q \in Procs, q # p PROVE ~Has(q, s)
    BY <1>1, <1>5, <2>1, UserOf
  <2>2. \A q \in Procs : ~Has(q, s)'
    BY <1>1, <1>3, <1>4, <2>1
  <2> QED BY <1>1, <2>2, After
<1>7. ASSUME NEW t \in Sector, t # s PROVE userBar'[t] = userBar[t]
  <2>1. \A q \in Procs : Has(q, t)' <=> Has(q, t)
    BY <1>3, <1>4, <1>7
  <2> QED BY <2>1, UserOf, After
<1>8. userBar' = [userBar EXCEPT ![s] = NoProc]
  BY <1>1, <1>6, <1>7, BarsAreFunctions, AgreeButOne
<1>9. Store!Shut(p, s)
  BY <1>2, <1>5, <1>8 DEF Store!Shut
<1> QED BY <1>9 DEF Store!SNext

(* bread(), bwrite() and brelse() implement the sector store, whatever the *)
(* number of buffers: a sector has one user at a time, who finds what was  *)
(* last stored in it, recycled in between or not.                          *)
THEOREM CacheRefinement == BSpec => ImplementsSectorStore
<1>1. ASSUME BIndInv, BIndInv', [BNext]_bvars PROVE [Store!SNext]_<<contentBar, userBar>>
  <2>1. CASE BNext
    <3>1. PICK p \in Procs :
            \/ \E s \in Sector : BgetHit(p, s) \/ BgetRecycle(p, s) \/ BgetPanic(p, s)
            \/ \E v \in Val : Modify(p, v)
            \/ AcquireSleep(p) \/ BreadTest(p) \/ DiskRead(p) \/ Bwrite(p)
            \/ BrelseUnlock(p) \/ BrelseUnref(p)
      BY <2>1 DEF BNext
    <3>2. ASSUME NEW s \in Sector, BgetHit(p, s) \/ BgetRecycle(p, s) \/ BgetPanic(p, s)
          PROVE  UNCHANGED <<contentBar, userBar>>
      BY <1>1, <3>2, BgetHitStutters, BgetRecycleStutters, BgetPanicStutters
    <3>3. ASSUME AcquireSleep(p) \/ Bwrite(p) \/ BrelseUnref(p)
          PROVE  UNCHANGED <<contentBar, userBar>>
      BY <1>1, <3>3, AcquireSleepStutters, BwriteStutters, BrelseUnrefStutters
    <3>4. ASSUME (\E v \in Val : Modify(p, v)) \/ DiskRead(p) \/ BrelseUnlock(p)
          PROVE  Store!SNext
      BY <1>1, <3>4, ModifyStores, DiskReadOpens, BrelseUnlockShuts
    <3>5. ASSUME BreadTest(p) PROVE UNCHANGED <<contentBar, userBar>> \/ Store!SNext
      BY <1>1, <3>5, BreadTestOpens
    <3> QED BY <3>1, <3>2, <3>3, <3>4, <3>5
  <2>2. CASE UNCHANGED bvars
    <3>1. contentBar' = contentBar
      BY <1>1, <2>2, SameContent DEF bvars
    <3>2. \A p \in Procs, t \in Sector : Has(p, t)' <=> Has(p, t)
      BY <2>2 DEF bvars, Has
    <3> QED BY <1>1, <3>1, <3>2, SameUsers
  <2> QED BY <1>1, <2>1, <2>2 DEF bvars
<1>2. QED
  BY <1>1, InitStore, CacheInvariance, PTL DEF BSpec, ImplementsSectorStore, Store!SSpec, Store!svars
===============================================================================
