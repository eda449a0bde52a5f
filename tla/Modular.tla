------------------------------- MODULE Modular -------------------------------
(***************************************************************************)
(* Remainders, as the unsigned indices of the kernel's rings use them: the *)
(* lemmas the proofs about the pipe, the console and the virtio rings      *)
(* share.                                                                  *)
(***************************************************************************)
EXTENDS Integers, FiniteSetTheorems, TLAPS

(* The remainder is what its definition says. *)
LEMMA ModDef ==
  ASSUME NEW a \in Int, NEW m \in Nat \ {0}
  PROVE  a % m \in 0..(m - 1) /\ \E q \in Int : a = q * m + (a % m)
<1>1. a = m * (a \div m) + (a % m) /\ a % m \in 0..(m - 1)
  OBVIOUS
<1>2. PICK q \in Int : q = a \div m
  OBVIOUS
<1>3. m * q = q * m
  OBVIOUS
<1>4. a = q * m + (a % m)
  BY <1>1, <1>2, <1>3
<1> QED BY <1>1, <1>4

(* A number has one remainder. *)
LEMMA ModUnique ==
  ASSUME NEW m \in Nat \ {0}, NEW r \in 0..(m - 1), NEW s \in 0..(m - 1),
         NEW q \in Int, NEW t \in Int, q * m + r = t * m + s
  PROVE  r = s
<1>1. (q - t) * m = s - r
  OBVIOUS
<1>2. CASE q - t >= 1
  <2>1. (q - t) * m >= m
    BY <1>2
  <2> QED BY <1>1, <2>1
<1>3. CASE q - t <= -1
  <2>1. (q - t) * m <= -m
    BY <1>3
  <2> QED BY <1>1, <2>1
<1>4. CASE q = t
  BY <1>4
<1> QED BY <1>2, <1>3, <1>4

(* The remainder of a number given as a multiple and a rest. *)
LEMMA ModIs ==
  ASSUME NEW m \in Nat \ {0}, NEW q \in Int, NEW r \in 0..(m - 1)
  PROVE  (q * m + r) % m = r
<1> DEFINE a == q * m + r
<1>1. a \in Int
  OBVIOUS
<1>2. PICK t \in Int : a = t * m + (a % m)
  BY <1>1, ModDef
<1>3. a % m \in 0..(m - 1)
  BY <1>1, ModDef
<1> HIDE DEF a
<1>4. q * m + r = t * m + (a % m)
  BY <1>2 DEF a
<1>5. r = a % m
  BY <1>3, <1>4, ModUnique
<1> QED BY <1>5 DEF a

(* Adding a multiple changes no remainder. *)
LEMMA ModShift ==
  ASSUME NEW m \in Nat \ {0}, NEW a \in Int, NEW k \in Int
  PROVE  (a + k * m) % m = a % m
<1>1. PICK q \in Int : a = q * m + (a % m)
  BY ModDef
<1>2. a % m \in 0..(m - 1)
  BY ModDef
<1> DEFINE r == a % m
<1> HIDE DEF r
<1>3. a = q * m + r /\ r \in 0..(m - 1)
  BY <1>1, <1>2 DEF r
<1>4. a + k * m = (q + k) * m + r
  BY <1>3
<1>5. q + k \in Int
  OBVIOUS
<1>6. ((q + k) * m + r) % m = r
  BY <1>3, <1>5, ModIs
<1> QED BY <1>4, <1>6 DEF r

(* Numbers less than m apart have different remainders. *)
LEMMA ModApart ==
  ASSUME NEW m \in Nat \ {0}, NEW a \in Int, NEW d \in 1..(m - 1)
  PROVE  (a + d) % m # a % m
<1> SUFFICES ASSUME (a + d) % m = a % m PROVE FALSE
  OBVIOUS
<1>1. PICK q \in Int : a = q * m + (a % m)
  BY ModDef
<1>2. PICK t \in Int : a + d = t * m + ((a + d) % m)
  <2>1. a + d \in Int
    OBVIOUS
  <2> QED BY <2>1, ModDef
<1>3. a % m \in Int
  BY ModDef
<1>4. 0 * m + d = (t - q) * m + 0
  BY <1>1, <1>2, <1>3
<1>5. d \in 0..(m - 1) /\ 0 \in 0..(m - 1) /\ t - q \in Int
  OBVIOUS
<1>6. d = 0
  BY <1>4, <1>5, ModUnique
<1> QED BY <1>6

(* The remainder of a number in range. *)
LEMMA ModSmall ==
  ASSUME NEW m \in Nat \ {0}, NEW r \in 0..(m - 1)
  PROVE  r % m = r
<1>1. (0 * m + r) % m = r
  BY ModIs
<1> QED BY <1>1

(* Remainders of a number and of its neighbours. *)
LEMMA ModNext ==
  ASSUME NEW m \in Nat \ {0}, NEW a \in Int
  PROVE  /\ (a + 1) % m = (IF a % m = m - 1 THEN 0 ELSE (a % m) + 1)
         /\ (a - 1) % m = (IF a % m = 0 THEN m - 1 ELSE (a % m) - 1)
<1>1. PICK q \in Int : a = q * m + (a % m)
  BY ModDef
<1> DEFINE r == a % m
<1>2. r \in 0..(m - 1)
  BY ModDef
<1> HIDE DEF r
<1>3. a = q * m + r
  BY <1>1 DEF r
<1>4. (a + 1) % m = (IF r = m - 1 THEN 0 ELSE r + 1)
  <2>1. CASE r = m - 1
    <3>1. a + 1 = (q + 1) * m + 0 /\ q + 1 \in Int /\ 0 \in 0..(m - 1)
      BY <1>2, <1>3, <2>1
    <3>2. ((q + 1) * m + 0) % m = 0
      BY <3>1, ModIs
    <3> QED BY <2>1, <3>1, <3>2
  <2>2. CASE r # m - 1
    <3>1. a + 1 = q * m + (r + 1) /\ r + 1 \in 0..(m - 1)
      BY <1>2, <1>3, <2>2
    <3>2. (q * m + (r + 1)) % m = r + 1
      BY <3>1, ModIs
    <3> QED BY <2>2, <3>1, <3>2
  <2> QED BY <2>1, <2>2
<1>5. (a - 1) % m = (IF r = 0 THEN m - 1 ELSE r - 1)
  <2>1. CASE r = 0
    <3>1. a - 1 = (q - 1) * m + (m - 1) /\ q - 1 \in Int /\ m - 1 \in 0..(m - 1)
      BY <1>2, <1>3, <2>1
    <3>2. ((q - 1) * m + (m - 1)) % m = m - 1
      BY <3>1, ModIs
    <3> QED BY <2>1, <3>1, <3>2
  <2>2. CASE r # 0
    <3>1. a - 1 = q * m + (r - 1) /\ r - 1 \in 0..(m - 1)
      BY <1>2, <1>3, <2>2
    <3>2. (q * m + (r - 1)) % m = r - 1
      BY <3>1, ModIs
    <3> QED BY <2>2, <3>1, <3>2
  <2> QED BY <2>1, <2>2
<1> QED BY <1>4, <1>5 DEF r

(* Adding a number with remainder 0. *)
LEMMA ModZero ==
  ASSUME NEW m \in Nat \ {0}, NEW a \in Int, a % m = 0, NEW c \in Int
  PROVE  (a + c) % m = c % m
<1>1. PICK q \in Int : a = q * m + (a % m)
  BY ModDef
<1>2. a + c = c + q * m
  BY <1>1
<1> QED BY <1>2, ModShift

(* Congruence: sums with numbers of the same remainder. *)
LEMMA ModPlus ==
  ASSUME NEW m \in Nat \ {0}, NEW a \in Int, NEW b \in Int, a % m = b % m, NEW c \in Int
  PROVE  (a + c) % m = (b + c) % m
<1>1. PICK q \in Int : a = q * m + (a % m)
  BY ModDef
<1>2. PICK t \in Int : b = t * m + (b % m)
  BY ModDef
<1>3. a % m \in Int
  BY ModDef
<1>4. a + c = (b + c) + (q - t) * m
  BY <1>1, <1>2, <1>3
<1>5. b + c \in Int /\ q - t \in Int
  OBVIOUS
<1>6. ((b + c) + (q - t) * m) % m = (b + c) % m
  BY <1>5, ModShift
<1> QED BY <1>4, <1>6

(* The same for differences, on either side. *)
LEMMA ModMinus ==
  ASSUME NEW m \in Nat \ {0}, NEW a \in Int, NEW b \in Int, a % m = b % m, NEW c \in Int
  PROVE  (a - c) % m = (b - c) % m /\ (c - a) % m = (c - b) % m
<1>1. PICK q \in Int : a = q * m + (a % m)
  BY ModDef
<1>2. PICK t \in Int : b = t * m + (b % m)
  BY ModDef
<1>3. a % m \in Int
  BY ModDef
<1>4. a - c = (b - c) + (q - t) * m /\ c - a = (c - b) + (t - q) * m
  BY <1>1, <1>2, <1>3
<1>5. b - c \in Int /\ c - b \in Int /\ q - t \in Int /\ t - q \in Int
  OBVIOUS
<1>6. ((b - c) + (q - t) * m) % m = (b - c) % m
  BY <1>5, ModShift
<1>7. ((c - b) + (t - q) * m) % m = (c - b) % m
  BY <1>5, ModShift
<1> QED BY <1>4, <1>6, <1>7

(* ModMinus, on the left only. *)
LEMMA ModLess ==
  ASSUME NEW m \in Nat \ {0}, NEW a \in Int, NEW b \in Int, a % m = b % m, NEW c \in Int
  PROVE  (a - c) % m = (b - c) % m
BY ModMinus

(* ModMinus, on the right only. *)
LEMMA ModFrom ==
  ASSUME NEW m \in Nat \ {0}, NEW a \in Int, NEW b \in Int, a % m = b % m, NEW c \in Int
  PROVE  (c - a) % m = (c - b) % m
BY ModMinus

(* A remainder is its own remainder. *)
LEMMA ModMod ==
  ASSUME NEW m \in Nat \ {0}, NEW a \in Int
  PROVE  (a % m) % m = a % m
BY ModDef, ModSmall

(* A number that counts modulo a multiple of the ring's size finds the same *)
(* place in the ring.                                                      *)
LEMMA ModMultiple ==
  ASSUME NEW m \in Nat \ {0}, NEW n \in Nat \ {0}, n % m = 0, NEW a \in Int
  PROVE  (a % n) % m = a % m
<1>1. PICK q \in Int : a = q * n + (a % n)
  BY ModDef
<1>2. PICK k \in Int : n = k * m + (n % m)
  <2>1. n \in Int
    OBVIOUS
  <2> QED BY <2>1, ModDef
<1> DEFINE r == a % n
<1>3. r \in Int
  BY ModDef
<1> HIDE DEF r
<1>4. a = r + (q * k) * m
  <2>1. n = k * m
    BY <1>2
  <2>2. a = q * n + r
    BY <1>1 DEF r
  <2>3. q * (k * m) = (q * k) * m
    OBVIOUS
  <2> QED BY <1>3, <2>1, <2>2, <2>3
<1>5. (r + (q * k) * m) % m = r % m
  <2>1. q * k \in Int
    OBVIOUS
  <2> QED BY <1>3, <2>1, ModShift
<1> QED BY <1>4, <1>5 DEF r

(* The entries of a ring of n places from index a up to index b. *)
Places(n, a, b) == {j \in 0..(n - 1) : (j - a) % n < (b - a) % n}

(* Only the remainders of the two indices count. *)
LEMMA PlacesSame ==
  ASSUME NEW n \in Nat \ {0}, NEW a \in Int, NEW b \in Int, NEW c \in Int, NEW d \in Int,
         a % n = c % n, b % n = d % n
  PROVE  Places(n, a, b) = Places(n, c, d)
<1>1. (b - a) % n = (d - c) % n
  <2>1. PICK q \in Int : a = q * n + (a % n)
    BY ModDef
  <2>2. PICK t \in Int : c = t * n + (c % n)
    BY ModDef
  <2>3. PICK u \in Int : b = u * n + (b % n)
    BY ModDef
  <2>4. PICK v \in Int : d = v * n + (d % n)
    BY ModDef
  <2>5. a % n \in Int /\ b % n \in Int
    BY ModDef
  <2>6. a - c = (q - t) * n /\ b - d = (u - v) * n
    BY <2>1, <2>2, <2>3, <2>4, <2>5
  <2>7. b - a = (d - c) + ((u - v) - (q - t)) * n
    BY <2>6
  <2>8. d - c \in Int /\ (u - v) - (q - t) \in Int
    OBVIOUS
  <2>9. ((d - c) + ((u - v) - (q - t)) * n) % n = (d - c) % n
    BY <2>8, ModShift
  <2> QED BY <2>7, <2>9
<1>2. \A j \in Int : (j - a) % n = (j - c) % n
  <2>1. PICK q \in Int : a = q * n + (a % n)
    BY ModDef
  <2>2. PICK t \in Int : c = t * n + (c % n)
    BY ModDef
  <2>3. a % n \in Int
    BY ModDef
  <2> TAKE j \in Int
  <2>4. j - a = (j - c) + (t - q) * n /\ j - c \in Int /\ t - q \in Int
    BY <2>1, <2>2, <2>3
  <2>5. ((j - c) + (t - q) * n) % n = (j - c) % n
    BY <2>4, ModShift
  <2> QED BY <2>4, <2>5
<1> QED
  <2> DEFINE e == (b - a) % n
  <2>1. e = (d - c) % n
    BY <1>1
  <2>2. \A j \in 0..(n - 1) : (j - a) % n = (j - c) % n
    BY <1>2
  <2> HIDE DEF e
  <2>3. {j \in 0..(n - 1) : (j - a) % n < e} = {j \in 0..(n - 1) : (j - c) % n < e}
    BY <2>2
  <2> QED BY <2>1, <2>3 DEF Places, e

(* One entry more at the end, unless the ring is then full. *)
LEMMA PlacesPut ==
  ASSUME NEW n \in Nat \ {0}, NEW a \in Int, NEW b \in Int
  PROVE  /\ b % n \in 0..(n - 1) /\ b % n \notin Places(n, a, b)
         /\ (b - a) % n # n - 1 => Places(n, a, b + 1) = Places(n, a, b) \cup {b % n}
         /\ (b - a) % n = n - 1 => Places(n, a, b) \cup {b % n} = 0..(n - 1)
<1> DEFINE d == (b - a) % n
           x(j) == (j - a) % n
<1>1. b % n \in 0..(n - 1)
  BY ModDef
<1>2. d \in 0..(n - 1)
  <2>1. b - a \in Int
    OBVIOUS
  <2> QED BY <2>1, ModDef
<1>3. \A j \in 0..(n - 1) : x(j) \in 0..(n - 1)
  <2>1. \A j \in 0..(n - 1) : j - a \in Int
    OBVIOUS
  <2> QED BY <2>1, ModDef
<1>4. x(b % n) = d
  <2>0. (b % n) % n = b % n
    BY ModMod
  <2>1. (b % n) % n = b % n /\ b % n \in Int
    BY <1>1, <2>0
  <2>2. ((b % n) - a) % n = (b - a) % n
    BY <2>1, ModMinus
  <2> QED BY <2>1, <2>2
<1>5. ASSUME NEW j \in 0..(n - 1), x(j) = d PROVE j = b % n
  <2>1. ((j - a) + a) % n = ((b - a) + a) % n
    <3>1. j - a \in Int /\ b - a \in Int
      OBVIOUS
    <3> QED BY <1>5, <3>1, ModPlus
  <2>2. j % n = b % n
    BY <2>1
  <2> QED BY <2>2, ModSmall
<1>6. d # n - 1 => ((b + 1) - a) % n = d + 1
  <2>1. (b - a) + 1 = (b + 1) - a /\ b - a \in Int
    OBVIOUS
  <2>2. ((b - a) + 1) % n = (IF d = n - 1 THEN 0 ELSE d + 1)
    BY <2>1, ModNext
  <2> QED BY <2>1, <2>2
<1>7. Places(n, a, b) = {j \in 0..(n - 1) : x(j) < d}
  BY DEF Places
<1>8. d # n - 1 => Places(n, a, b + 1) = {j \in 0..(n - 1) : x(j) < d + 1}
  BY <1>6 DEF Places
<1> HIDE DEF d, x
<1>9. d # n - 1 => Places(n, a, b + 1) = Places(n, a, b) \cup {b % n}
  BY <1>1, <1>2, <1>3, <1>4, <1>5, <1>7, <1>8
<1>10. d = n - 1 => Places(n, a, b) \cup {b % n} = 0..(n - 1)
  BY <1>1, <1>2, <1>3, <1>4, <1>5, <1>7
<1>11. b % n \notin Places(n, a, b)
  BY <1>1, <1>2, <1>4, <1>7
<1> QED BY <1>1, <1>9, <1>10, <1>11 DEF d

(* One entry less at the front. *)
LEMMA PlacesTake ==
  ASSUME NEW n \in Nat \ {0}, NEW a \in Int, NEW b \in Int, a % n # b % n
  PROVE  a % n \in Places(n, a, b) /\ Places(n, a + 1, b) = Places(n, a, b) \ {a % n}
<1> DEFINE d == (b - a) % n
           x(j) == (j - a) % n
           y(j) == (j - (a + 1)) % n
<1>1. a % n \in 0..(n - 1)
  BY ModDef
<1>2. d \in 0..(n - 1)
  <2>1. b - a \in Int
    OBVIOUS
  <2> QED BY <2>1, ModDef
<1>3. d # 0
  <2> SUFFICES ASSUME d = 0 PROVE FALSE
    OBVIOUS
  <2>1. b - a \in Int /\ (b - a) + a = b
    OBVIOUS
  <2>2. ((b - a) + a) % n = a % n
    BY <2>1, ModZero
  <2> QED BY <2>1, <2>2
<1>4. \A j \in 0..(n - 1) : /\ x(j) \in 0..(n - 1)
                            /\ y(j) = (IF x(j) = 0 THEN n - 1 ELSE x(j) - 1)
  <2> TAKE j \in 0..(n - 1)
  <2>1. j - a \in Int /\ (j - a) - 1 = j - (a + 1)
    OBVIOUS
  <2>2. (j - a) % n \in 0..(n - 1)
    BY <2>1, ModDef
  <2>3. ((j - a) - 1) % n = (IF (j - a) % n = 0 THEN n - 1 ELSE ((j - a) % n) - 1)
    BY <2>1, ModNext
  <2> QED BY <2>1, <2>2, <2>3
<1>5. (b - (a + 1)) % n = d - 1
  <2>1. b - a \in Int /\ (b - a) - 1 = b - (a + 1)
    OBVIOUS
  <2>2. ((b - a) - 1) % n = (IF d = 0 THEN n - 1 ELSE d - 1)
    BY <2>1, ModNext
  <2> QED BY <1>3, <2>1, <2>2
<1>6. x(a % n) = 0
  <2>0. (a % n) % n = a % n
    BY ModMod
  <2>1. (a % n) % n = a % n /\ a % n \in Int
    BY <1>1, <2>0
  <2>2. ((a % n) - a) % n = (a - a) % n
    BY <2>1, ModMinus
  <2>3. 0 % n = 0
    BY ModSmall
  <2> QED BY <2>1, <2>2, <2>3
<1>7. ASSUME NEW j \in 0..(n - 1), x(j) = 0 PROVE j = a % n
  <2>1. j - a \in Int /\ (j - a) % n = 0 /\ (j - a) + a = j
    BY <1>7
  <2>2. ((j - a) + a) % n = a % n
    BY <2>1, ModZero
  <2> QED BY <2>1, <2>2, ModSmall
<1>8. Places(n, a, b) = {j \in 0..(n - 1) : x(j) < d}
  BY DEF Places
<1>9. Places(n, a + 1, b) = {j \in 0..(n - 1) : y(j) < d - 1}
  BY <1>5 DEF Places
<1> HIDE DEF d, x, y
<1>10. a % n \in Places(n, a, b)
  BY <1>1, <1>2, <1>3, <1>6, <1>8
<1>11. \A j \in 0..(n - 1) : y(j) < d - 1 <=> x(j) < d /\ j # a % n
  BY <1>1, <1>2, <1>3, <1>4, <1>6, <1>7
<1> QED BY <1>8, <1>9, <1>10, <1>11

(* The pigeonhole: a ring whose entries are all different and never x has  *)
(* an entry too few to be full.                                            *)
LEMMA NotAllDifferent ==
  ASSUME NEW S, IsFiniteSet(S), NEW x \in S, NEW f \in [S -> S \ {x}]
  PROVE  \E j, k \in S : j # k /\ f[j] = f[k]
<1>1. IsFiniteSet(S \ {x}) /\ Cardinality(S \ {x}) = Cardinality(S) - 1
  BY FS_RemoveElement
<1>2. Cardinality(S) \in Nat
  BY FS_CardinalityType
<1>3. Cardinality(S \ {x}) < Cardinality(S)
  BY <1>1, <1>2
<1> QED BY <1>1, <1>3, FS_PigeonHole

(* A nonempty set of natural numbers has a least element.                  *)
LEMMA Least ==
  ASSUME NEW S \in SUBSET Nat, S # {}
  PROVE  \E i \in S : \A j \in S : i <= j
<1>1. PICK i \in S : \A j \in S : ~(<<j, i>> \in OpToRel(<, Nat))
  BY NatLessThanWellFounded, WFMin
<1>2. \A j \in S : ~(j < i)
  BY <1>1 DEF OpToRel
<1> QED BY <1>2
=============================================================================
