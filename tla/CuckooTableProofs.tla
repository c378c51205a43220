------------------------- MODULE CuckooTableProofs -------------------------
(***************************************************************************)
(* Lemmas about CuckooTable, for every table: the arithmetic of bucket     *)
(* indices, what a write does to the elements of a table, where a search   *)
(* finds a key or room for one, what a hop of a cuckoo path and a doubling *)
(* keep.                                                                   *)
(***************************************************************************)
EXTENDS CuckooTable, FiniteSetTheorems, WellFoundedInduction, TLAPS

-----------------------------------------------------------------------------
(* Induction and recursion on natural numbers, by sets and functions. *)

LEMMA LeastNat ==
  ASSUME NEW S \in SUBSET Nat, S # {}
  PROVE  \E m \in S : \A n \in S : m <= n
<1>1. PICK m \in S : \A n \in S : ~ (<<n, m>> \in OpToRel(<, Nat))
  BY NatLessThanWellFounded, WFMin, Zenon
<1>2. ASSUME NEW n \in S PROVE m <= n
  <2>1. n \in Nat /\ m \in Nat
    OBVIOUS
  <2>2. ~ (<<n, m>> \in {ss \in Nat \X Nat : ss[1] < ss[2]})
    BY <1>1 DEF OpToRel
  <2>3. ~ (n < m)
    BY <2>1, <2>2
  <2>4. QED
    BY <2>1, <2>3
<1>3. QED
  BY <1>2

LEMMA NatInd ==
  ASSUME NEW S, 0 \in S, \A n \in Nat : n \in S => n + 1 \in S
  PROVE  \A n \in Nat : n \in S
<1> DEFINE T == Nat \ S
<1>1. SUFFICES ASSUME T # {} PROVE FALSE
  OBVIOUS
<1>2. PICK m \in T : \A n \in T : m <= n
  BY <1>1, LeastNat
<1>3. m - 1 \in Nat /\ m - 1 \notin T
  BY <1>2
<1>4. (m - 1) + 1 \in S
  BY <1>3
<1>5. QED
  BY <1>2, <1>4

\* f is what next makes of a, again and again.
Iterates(f, V, a, next) ==
  f \in [Nat -> V] /\ f[0] = a /\ \A n \in Nat : f[n + 1] = next[<<n, f[n]>>]

LEMMA NatRecursion ==
  ASSUME NEW V, NEW a \in V, NEW next \in [Nat \X V -> V]
  PROVE  \E f : Iterates(f, V, a, next)
<1> DEFINE Upto(n, g) == /\ g \in [0..n -> V] /\ g[0] = a
                         /\ \A i \in Nat : i < n => g[i + 1] = next[<<i, g[i]>>]
           Some == {n \in Nat : \E g : Upto(n, g)}
<1>1. 0 \in Some
  <2>1. Upto(0, [i \in 0..0 |-> a])
    OBVIOUS
  <2> HIDE DEF Upto
  <2>2. QED
    BY <2>1
<1>2. ASSUME NEW n \in Nat, NEW g, Upto(n, g) PROVE \E h : Upto(n + 1, h)
  <2> DEFINE h == [i \in 0..n + 1 |-> IF i = n + 1 THEN next[<<n, g[n]>>] ELSE g[i]]
  <2>1. h \in [0..n + 1 -> V]
    <3>1. next[<<n, g[n]>>] \in V
      BY <1>2
    <3>2. \A i \in 0..n + 1 : i # n + 1 => g[i] \in V
      BY <1>2
    <3>3. QED
      BY <3>1, <3>2
  <2>2. h[0] = a
    BY <1>2
  <2>3. ASSUME NEW i \in Nat, i < n + 1 PROVE h[i + 1] = next[<<i, h[i]>>]
    <3>1. CASE i = n
      <4>1. h[n] = g[n] /\ h[n + 1] = next[<<n, g[n]>>]
        OBVIOUS
      <4>2. QED
        BY <3>1, <4>1
    <3>2. CASE i # n
      BY <1>2, <2>3, <3>2
    <3>3. QED
      BY <3>1, <3>2
  <2> HIDE DEF h
  <2>4. QED
    BY <2>1, <2>2, <2>3
<1>3. \A n \in Nat : \E g : Upto(n, g)
  <2> HIDE DEF Upto
  <2>1. \A n \in Nat : n \in Some => n + 1 \in Some
    BY <1>2
  <2>2. \A n \in Nat : n \in Some
    <3> HIDE DEF Some
    <3> QED
      BY <1>1, <2>1, NatInd
  <2>3. QED
    BY <2>2
<1> DEFINE G(n) == CHOOSE g : Upto(n, g)
           f == [n \in Nat |-> G(n)[n]]
<1>4. \A n \in Nat : Upto(n, G(n))
  <2> HIDE DEF Upto
  <2> QED
    BY <1>3
<1> HIDE DEF G
<1>5. ASSUME NEW n \in Nat, NEW g, NEW h, Upto(n, g), Upto(n + 1, h)
      PROVE  h[n] = g[n]
  <2> DEFINE Same == {i \in Nat : i <= n => h[i] = g[i]}
  <2>1. 0 \in Same
    BY <1>5
  <2>2. ASSUME NEW i \in Nat, i \in Same PROVE i + 1 \in Same
    <3>1. SUFFICES ASSUME i + 1 <= n PROVE h[i + 1] = g[i + 1]
      OBVIOUS
    <3>2. h[i] = g[i]
      BY <2>2, <3>1
    <3>3. i < n /\ i < n + 1
      BY <3>1
    <3>4. h[i + 1] = next[<<i, h[i]>>] /\ g[i + 1] = next[<<i, g[i]>>]
      BY <1>5, <3>3
    <3>5. QED
      BY <3>2, <3>4
  <2>3. \A i \in Nat : i \in Same
    <3> HIDE DEF Same
    <3> QED
      BY <2>1, <2>2, NatInd
  <2>4. QED
    BY <2>3
<1>6. \A n \in Nat : f[n] \in V
  <2>1. \A n \in Nat : G(n) \in [0..n -> V] /\ n \in 0..n
    BY <1>4
  <2>2. QED
    BY <2>1
<1>7. f[0] = a
  BY <1>4
<1>8. ASSUME NEW n \in Nat PROVE f[n + 1] = next[<<n, f[n]>>]
  <2>1. Upto(n, G(n)) /\ Upto(n + 1, G(n + 1))
    BY <1>4
  <2>2. G(n + 1)[n] = G(n)[n]
    <3> HIDE DEF Upto
    <3> QED
      BY <1>5, <2>1
  <2>3. G(n + 1)[n + 1] = next[<<n, G(n + 1)[n]>>]
    BY <2>1
  <2>4. QED
    BY <2>2, <2>3
<1>9. f \in [Nat -> V]
  BY <1>6
<1> HIDE DEF f
<1>10. QED
  BY <1>7, <1>8, <1>9 DEF Iterates

-----------------------------------------------------------------------------
(* Powers of two. *)

LEMMA HashsizeDef ==
  hashsize[0] = 1 /\ \A p \in Nat : hashsize[p + 1] = 2 * hashsize[p]
<1> DEFINE next == [x \in Nat \X Nat |-> 2 * x[2]]
           F(f) == [p \in Nat |-> IF p = 0 THEN 1 ELSE 2 * f[p - 1]]
<1>1. PICK f : Iterates(f, Nat, 1, next)
  <2>1. next \in [Nat \X Nat -> Nat]
    OBVIOUS
  <2> HIDE DEF next
  <2>2. 1 \in Nat
    OBVIOUS
  <2>3. QED
    BY <2>1, <2>2, NatRecursion
<1>2. f \in [Nat -> Nat] /\ f[0] = 1 /\ \A p \in Nat : f[p + 1] = 2 * f[p]
  BY <1>1 DEF Iterates
<1>3. f = F(f)
  <2>1. ASSUME NEW p \in Nat PROVE f[p] = F(f)[p]
    <3>1. CASE p = 0
      BY <1>2, <3>1
    <3>2. CASE p # 0
      <4>1. p - 1 \in Nat /\ (p - 1) + 1 = p
        BY <3>2
      <4>2. f[p] = 2 * f[p - 1]
        BY <1>2, <4>1
      <4>3. QED
        BY <3>2, <4>2
    <3>3. QED
      BY <3>1, <3>2
  <2>2. QED
    BY <1>2, <2>1
<1>4. hashsize = F(hashsize)
  BY <1>3 DEF hashsize
<1>5. QED
  BY <1>4

LEMMA HashsizeType == \A p \in Nat : hashsize[p] \in Nat \ {0}
<1> DEFINE S == {p \in Nat : hashsize[p] \in Nat \ {0}}
<1>1. 0 \in S
  BY HashsizeDef
<1>2. \A p \in Nat : p \in S => p + 1 \in S
  BY HashsizeDef
<1> HIDE DEF S
<1>3. \A p \in Nat : p \in S
  BY <1>1, <1>2, NatInd
<1>4. QED
  BY <1>3 DEF S

-----------------------------------------------------------------------------
(* The exclusive or. *)

LEMMA Halves ==
  ASSUME NEW a \in Nat
  PROVE  /\ a \div 2 \in Nat /\ a \div 2 <= a /\ (a > 0 => a \div 2 < a)
         /\ a % 2 \in {0, 1} /\ a = 2 * (a \div 2) + (a % 2)
OBVIOUS

\* Any function that does one step of Xor with another does what Xor does.
XorStep(g, a) ==
  [b \in Nat |-> IF a = 0 THEN b ELSE 2 * g[a \div 2][b \div 2] + ((a + b) % 2)]

LEMMA XorStepType ==
  ASSUME NEW a \in Nat, NEW g, a # 0 => g[a \div 2] \in [Nat -> Nat]
  PROVE  XorStep(g, a) \in [Nat -> Nat]
<1>1. ASSUME NEW b \in Nat, a # 0
      PROVE  2 * g[a \div 2][b \div 2] + ((a + b) % 2) \in Nat
  <2>1. b \div 2 \in Nat /\ a + b \in Nat
    BY Halves
  <2>2. g[a \div 2][b \div 2] \in Nat /\ (a + b) % 2 \in {0, 1}
    BY <1>1, <2>1, Halves
  <2>3. QED
    BY <2>2
<1>2. QED
  BY <1>1 DEF XorStep

LEMMA XorStepSame ==
  ASSUME NEW a \in Nat, NEW g, NEW h, a # 0 => g[a \div 2] = h[a \div 2]
  PROVE  XorStep(g, a) = XorStep(h, a)
BY DEF XorStep

LEMMA XorExists ==
  \E g : g \in [Nat -> [Nat -> Nat]] /\ \A a \in Nat : g[a] = XorStep(g, a)
<1> DEFINE W == [Nat -> Nat]
           V == [Nat -> W]
           ident == [a \in Nat |-> [b \in Nat |-> b]]
           next == [y \in Nat \X V |-> [a \in Nat |-> XorStep(y[2], a)]]
<1>1. ASSUME NEW g \in V, NEW a \in Nat PROVE XorStep(g, a) \in W
  <2>1. a # 0 => g[a \div 2] \in [Nat -> Nat]
    BY Halves
  <2>2. QED
    BY <2>1, XorStepType
<1>2. ident \in V /\ next \in [Nat \X V -> V]
  <2>1. ident \in V
    OBVIOUS
  <2> HIDE DEF W
  <2>2. next \in [Nat \X V -> V]
    BY <1>1
  <2>3. QED
    BY <2>1, <2>2
<1>3. PICK f : Iterates(f, V, ident, next)
  <2> HIDE DEF V, ident, next
  <2> QED
    BY <1>2, NatRecursion
<1>4. \A n \in Nat : f[n] \in V
  BY <1>3 DEF Iterates
<1>5. ASSUME NEW n \in Nat, NEW a \in Nat PROVE f[n + 1][a] = XorStep(f[n], a)
  <2>1. f[n + 1] = next[<<n, f[n]>>]
    BY <1>3 DEF Iterates
  <2>2. <<n, f[n]>> \in Nat \X V
    BY <1>4
  <2>3. next[<<n, f[n]>>] = [c \in Nat |-> XorStep(f[n], c)]
    <3> HIDE DEF V
    <3> QED
      BY <2>2
  <2>4. QED
    BY <2>1, <2>3
<1>6. f[0] = ident
  BY <1>3 DEF Iterates
<1> HIDE DEF next
<1> DEFINE Stable == {n \in Nat : \A a \in 0..n : f[n + 1][a] = f[n][a]}
<1>7. \A n \in Nat : n \in Stable
  <2>1. 0 \in Stable
    <3>1. f[0 + 1][0] = XorStep(f[0], 0)
      BY <1>5
    <3>2. XorStep(f[0], 0) = f[0][0]
      BY <1>6 DEF XorStep
    <3>3. QED
      BY <3>1, <3>2
  <2>2. ASSUME NEW n \in Nat, n \in Stable PROVE n + 1 \in Stable
    <3>1. ASSUME NEW a \in 0..n + 1 PROVE f[n + 1 + 1][a] = f[n + 1][a]
      <4>1. f[n + 1 + 1][a] = XorStep(f[n + 1], a) /\ f[n + 1][a] = XorStep(f[n], a)
        BY <1>5
      <4>2. a # 0 => a \div 2 \in 0..n
        BY Halves
      <4>3. a # 0 => f[n + 1][a \div 2] = f[n][a \div 2]
        BY <2>2, <4>2
      <4>4. QED
        BY <4>1, <4>3, XorStepSame
    <3>2. QED
      BY <3>1
  <2> HIDE DEF Stable
  <2>3. QED
    BY <2>1, <2>2, NatInd
<1> DEFINE g == [a \in Nat |-> f[a][a]]
           Reached == {n \in Nat : \A a \in 0..n : f[n][a] = g[a]}
<1>8. \A n \in Nat : n \in Reached
  <2>1. 0 \in Reached
    OBVIOUS
  <2>2. ASSUME NEW n \in Nat, n \in Reached PROVE n + 1 \in Reached
    <3>1. ASSUME NEW a \in 0..n + 1 PROVE f[n + 1][a] = g[a]
      <4>1. CASE a = n + 1
        BY <4>1
      <4>2. CASE a \in 0..n
        BY <1>7, <2>2, <4>2
      <4>3. QED
        BY <4>1, <4>2
    <3>2. QED
      BY <3>1
  <2> HIDE DEF Reached
  <2>3. QED
    BY <2>1, <2>2, NatInd
<1>9. ASSUME NEW a \in Nat PROVE g[a] = XorStep(g, a)
  <2>1. CASE a = 0
    BY <1>6, <2>1 DEF XorStep
  <2>2. CASE a # 0
    <3>1. PICK n \in Nat : a = n + 1
      <4>1. a - 1 \in Nat
        BY <2>2
      <4>2. QED
        BY <4>1
    <3>2. g[a] = XorStep(f[n], a)
      BY <1>5, <3>1
    <3>3. a \div 2 \in 0..n
      BY <3>1, Halves
    <3>4. f[n][a \div 2] = g[a \div 2]
      BY <1>8, <3>3
    <3> HIDE DEF g
    <3>5. QED
      BY <3>2, <3>4, XorStepSame
  <2>3. QED
    BY <2>1, <2>2
<1>10. g \in [Nat -> [Nat -> Nat]]
  BY <1>4
<1> HIDE DEF g
<1>11. QED
  BY <1>9, <1>10

LEMMA XorDef == \A a \in Nat : Xor[a] = XorStep(Xor, a)
<1> DEFINE F(g) == [a \in Nat |-> XorStep(g, a)]
<1>1. PICK g : g \in [Nat -> [Nat -> Nat]] /\ \A a \in Nat : g[a] = XorStep(g, a)
  BY XorExists
<1>2. g = F(g)
  BY <1>1
<1>3. Xor = F(Xor)
  <2>1. Xor = CHOOSE h : h = F(h)
    BY DEF Xor, XorStep
  <2> HIDE DEF F
  <2>2. QED
    BY <1>2, <2>1
<1>4. QED
  BY <1>3

LEMMA XorType == Xor \in [Nat -> [Nat -> Nat]]
<1> DEFINE S == {n \in Nat : \A a \in 0..n : Xor[a] \in [Nat -> Nat]}
<1>1. 0 \in S
  BY XorDef, XorStepType
<1>2. ASSUME NEW n \in Nat, n \in S PROVE n + 1 \in S
  <2>1. ASSUME NEW a \in 0..n + 1 PROVE Xor[a] \in [Nat -> Nat]
    <3>1. a # 0 => a \div 2 \in 0..n
      BY Halves
    <3>2. QED
      BY <1>2, <3>1, XorDef, XorStepType
  <2>2. QED
    BY <2>1
<1>3. \A n \in Nat : n \in S
  <2> HIDE DEF S
  <2> QED
    BY <1>1, <1>2, NatInd
<1>4. ASSUME NEW a \in Nat PROVE Xor[a] \in [Nat -> Nat]
  <2>1. a \in S /\ a \in 0..a
    BY <1>3
  <2>2. QED
    BY <2>1
<1>5. Xor = [a \in Nat |-> XorStep(Xor, a)]
  <2>1. PICK g : g \in [Nat -> [Nat -> Nat]] /\ \A a \in Nat : g[a] = XorStep(g, a)
    BY XorExists
  <2> DEFINE F(h) == [a \in Nat |-> XorStep(h, a)]
  <2>2. g = F(g)
    BY <2>1
  <2>3. Xor = CHOOSE h : h = F(h)
    BY DEF Xor, XorStep
  <2>4. Xor = F(Xor)
    <3> HIDE DEF F
    <3> QED
      BY <2>2, <2>3
  <2>5. QED
    BY <2>4
<1>6. QED
  BY <1>4, <1>5

\* The low bit of an exclusive or, and what is left without it.
LEMMA XorBits ==
  ASSUME NEW a \in Nat, NEW b \in Nat
  PROVE  /\ Xor[a][b] \in Nat
         /\ Xor[a][b] = 2 * Xor[a \div 2][b \div 2] + ((a + b) % 2)
         /\ Xor[a][b] \div 2 = Xor[a \div 2][b \div 2]
         /\ Xor[a][b] % 2 = (a + b) % 2
<1>1. Xor[a][b] \in Nat /\ Xor[a \div 2][b \div 2] \in Nat
  BY XorType, Halves
<1>2. Xor[a][b] = 2 * Xor[a \div 2][b \div 2] + ((a + b) % 2)
  <2>1. CASE a = 0
    <3>1. Xor[0][b] = b /\ Xor[0][b \div 2] = b \div 2
      BY XorDef, Halves DEF XorStep
    <3>2. a \div 2 = 0 /\ b = 2 * (b \div 2) + (b % 2) /\ a + b = b
      BY <2>1, Halves
    <3>3. QED
      BY <2>1, <3>1, <3>2
  <2>2. CASE a # 0
    BY <2>2, XorDef DEF XorStep
  <2>3. QED
    BY <2>1, <2>2
<1>3. QED
  BY <1>1, <1>2

LEMMA XorInvolution ==
  ASSUME NEW a \in Nat, NEW b \in Nat
  PROVE  Xor[Xor[a][b]][b] = a
<1> DEFINE S == {n \in Nat : \A c, d \in 0..n : Xor[Xor[c][d]][d] = c}
<1>1. 0 \in S
  <2>1. Xor[0][0] = 0
    BY XorDef, ZenonT(60) DEF XorStep
  <2>2. QED
    BY <2>1
<1>2. ASSUME NEW n \in Nat, n \in S PROVE n + 1 \in S
  <2>1. ASSUME NEW c \in 0..n + 1, NEW d \in 0..n + 1 PROVE Xor[Xor[c][d]][d] = c
    <3>0. c \in Nat /\ d \in Nat /\ c \div 2 \in 0..n /\ d \div 2 \in 0..n
      OBVIOUS
    <3>1. PICK x \in Nat : x = Xor[c][d]
      BY <3>0, XorBits
    <3>2. x \div 2 = Xor[c \div 2][d \div 2] /\ x % 2 = (c + d) % 2
      BY <3>0, <3>1, XorBits
    <3>3. Xor[x][d] = 2 * Xor[x \div 2][d \div 2] + ((x + d) % 2)
      BY <3>0, XorBits
    <3>4. Xor[x \div 2][d \div 2] = c \div 2
      BY <1>2, <3>0, <3>2
    <3>5. (x + d) % 2 = c % 2
      BY <3>2
    <3>6. QED
      BY <3>1, <3>3, <3>4, <3>5, Halves
  <2>2. QED
    BY <2>1
<1>3. \A n \in Nat : n \in S
  <2> HIDE DEF S
  <2> QED
    BY <1>1, <1>2, NatInd
<1>4. a + b \in S /\ a \in 0..a + b /\ b \in 0..a + b
  BY <1>3
<1>5. QED
  BY <1>4

LEMMA XorBelow ==
  ASSUME NEW p \in Nat, NEW a \in BucketsOf(p), NEW b \in BucketsOf(p)
  PROVE  Xor[a][b] \in BucketsOf(p)
<1> DEFINE S == {n \in Nat : \A c, d \in BucketsOf(n) : Xor[c][d] \in BucketsOf(n)}
<1>1. 0 \in S
  <2>1. Xor[0][0] = 0
    BY XorDef DEF XorStep
  <2>2. BucketsOf(0) = {0}
    BY HashsizeDef DEF BucketsOf
  <2>3. QED
    BY <2>1, <2>2
<1>2. ASSUME NEW n \in Nat, n \in S PROVE n + 1 \in S
  <2>1. ASSUME NEW c \in BucketsOf(n + 1), NEW d \in BucketsOf(n + 1)
        PROVE  Xor[c][d] \in BucketsOf(n + 1)
    <3>1. PICK N \in Nat : N = hashsize[n] /\ hashsize[n + 1] = 2 * N
      BY HashsizeDef, HashsizeType
    <3>2. BucketsOf(n) = 0..N - 1 /\ BucketsOf(n + 1) = 0..2 * N - 1
      BY <3>1 DEF BucketsOf
    <3>3. c \in Nat /\ d \in Nat /\ c \div 2 \in 0..N - 1 /\ d \div 2 \in 0..N - 1
      BY <3>2
    <3>4. Xor[c \div 2][d \div 2] \in 0..N - 1
      BY <1>2, <3>2, <3>3
    <3>5. Xor[c][d] = 2 * Xor[c \div 2][d \div 2] + ((c + d) % 2)
      BY <3>3, XorBits
    <3>6. (c + d) % 2 \in {0, 1}
      BY <3>3, Halves
    <3>7. Xor[c][d] \in 0..2 * N - 1
      BY <3>4, <3>5, <3>6
    <3>8. QED
      BY <3>2, <3>7
  <2>2. \A c, d \in BucketsOf(n + 1) : Xor[c][d] \in BucketsOf(n + 1)
    BY <2>1
  <2>3. n + 1 \in Nat
    OBVIOUS
  <2>4. QED
    BY <2>2, <2>3, Zenon
<1>3. \A n \in Nat : n \in S
  <2> HIDE DEF S
  <2> QED
    BY <1>1, <1>2, NatInd
<1>4. QED
  BY <1>3

-----------------------------------------------------------------------------
(* Remainders. *)

LEMMA Remainder ==
  ASSUME NEW x \in Nat, NEW N \in Nat \ {0}
  PROVE  /\ x \div N \in Nat /\ x % N \in 0..N - 1 /\ x = N * (x \div N) + (x % N)
OBVIOUS

LEMMA RemainderUnique ==
  ASSUME NEW N \in Nat \ {0}, NEW q \in Nat, NEW r \in 0..N - 1
  PROVE  (N * q + r) % N = r
OBVIOUS

\* One bit more.
LEMMA ModTwice ==
  ASSUME NEW x \in Nat, NEW N \in Nat \ {0}
  PROVE  /\ x % (2 * N) \in {x % N, (x % N) + N}
         /\ x % (2 * N) = 2 * ((x \div 2) % N) + (x % 2)
<1>1. PICK q \in Nat, r \in 0..2 * N - 1 : x = (2 * N) * q + r /\ x % (2 * N) = r
  <2>1. 2 * N \in Nat \ {0}
    OBVIOUS
  <2>2. QED
    BY <2>1, Remainder
<1>2. r \in {x % N, (x % N) + N}
  <2>1. CASE r < N
    <3>1. x = N * (2 * q) + r /\ 2 * q \in Nat /\ r \in 0..N - 1
      BY <1>1, <2>1
    <3>2. QED
      BY <3>1, RemainderUnique
  <2>2. CASE ~(r < N)
    <3>1. x = N * (2 * q + 1) + (r - N) /\ 2 * q + 1 \in Nat /\ r - N \in 0..N - 1
      BY <1>1, <2>2
    <3>2. x % N = r - N
      BY <3>1, RemainderUnique
    <3>3. QED
      BY <3>2
  <2>3. QED
    BY <2>1, <2>2
<1>3. r = 2 * ((x \div 2) % N) + (x % 2)
  <2>1. x \div 2 = N * q + (r \div 2) /\ r \div 2 \in 0..N - 1
    BY <1>1
  <2>2. (x \div 2) % N = r \div 2
    BY <2>1, RemainderUnique
  <2>3. x % 2 = r % 2
    BY <1>1
  <2>4. QED
    BY <2>2, <2>3, Halves
<1>4. QED
  BY <1>1, <1>2, <1>3

LEMMA ModMod ==
  ASSUME NEW x \in Nat, NEW N \in Nat \ {0}
  PROVE  (x % (2 * N)) % N = x % N
<1>1. x % N \in 0..N - 1
  BY Remainder
<1>2. CASE x % (2 * N) = x % N
  <2>1. x % N = N * 0 + (x % N)
    BY <1>1
  <2>2. QED
    BY <1>1, <1>2, <2>1, RemainderUnique
<1>3. CASE x % (2 * N) = (x % N) + N
  <2>1. (x % N) + N = N * 1 + (x % N)
    BY <1>1
  <2>2. QED
    BY <1>1, <1>3, <2>1, RemainderUnique
<1>4. QED
  BY <1>2, <1>3, ModTwice

\* Taking the low bits commutes with the exclusive or.
LEMMA XorMod ==
  ASSUME NEW p \in Nat, NEW a \in Nat, NEW b \in Nat
  PROVE  Xor[a][b] % hashsize[p] = Xor[a % hashsize[p]][b % hashsize[p]]
<1> DEFINE S == {n \in Nat : \A c, d \in Nat :
                   Xor[c][d] % hashsize[n] = Xor[c % hashsize[n]][d % hashsize[n]]}
<1>1. 0 \in S
  <2>1. Xor[0][0] = 0 /\ hashsize[0] = 1
    BY XorDef, HashsizeDef DEF XorStep
  <2>2. \A c \in Nat : c % 1 = 0
    OBVIOUS
  <2>3. \A c, d \in Nat : Xor[c][d] \in Nat
    BY XorBits
  <2>4. QED
    BY <2>1, <2>2, <2>3
<1>2. ASSUME NEW n \in Nat, n \in S PROVE n + 1 \in S
  <2>1. PICK N \in Nat \ {0} : N = hashsize[n] /\ hashsize[n + 1] = 2 * N
    BY HashsizeDef, HashsizeType
  <2>2. ASSUME NEW c \in Nat, NEW d \in Nat
        PROVE  Xor[c][d] % (2 * N) = Xor[c % (2 * N)][d % (2 * N)]
    <3>1. PICK x \in Nat : x = Xor[c][d]
      BY XorBits
    <3>2. PICK e \in Nat, f \in Nat : e = c \div 2 /\ f = d \div 2
      BY Halves
    <3>3. x \div 2 = Xor[e][f] /\ x % 2 = (c + d) % 2
      BY <3>1, <3>2, XorBits
    <3>4. x % (2 * N) = 2 * (Xor[e][f] % N) + ((c + d) % 2)
      BY <3>3, ModTwice, ZenonT(60)
    <3>5. PICK g \in 0..N - 1, h \in 0..N - 1 : g = e % N /\ h = f % N
      BY Remainder
    <3>6. Xor[e][f] % N = Xor[g][h]
      BY <1>2, <2>1, <3>5
    <3>7. c % (2 * N) = 2 * g + (c % 2) /\ d % (2 * N) = 2 * h + (d % 2)
      BY <3>2, <3>5, ModTwice
    <3>8. PICK u \in {0, 1}, v \in {0, 1} : u = c % 2 /\ v = d % 2
      BY Halves
    <3>9. PICK y \in Nat, z \in Nat : y = 2 * g + u /\ z = 2 * h + v
      <4>1. g \in Nat /\ h \in Nat /\ u \in Nat /\ v \in Nat
        OBVIOUS
      <4>2. 2 * g + u \in Nat /\ 2 * h + v \in Nat
        BY <4>1
      <4>3. QED
        BY <4>2
    <3>10. Xor[y][z] = 2 * Xor[g][h] + ((c + d) % 2)
      <4>1. y \div 2 = g /\ z \div 2 = h
        BY <3>5, <3>9
      <4>2. c + d = 2 * (e + f) + (u + v) /\ y + z = 2 * (g + h) + (u + v)
        BY <3>2, <3>5, <3>8, <3>9, Halves
      <4>3. (y + z) % 2 = (c + d) % 2
        BY <3>5, <4>2
      <4>4. Xor[y][z] = 2 * Xor[y \div 2][z \div 2] + ((y + z) % 2)
        BY XorBits
      <4>5. QED
        BY <4>1, <4>3, <4>4
    <3>11. QED
      BY <3>1, <3>4, <3>6, <3>7, <3>8, <3>9, <3>10
  <2>3. QED
    BY <2>1, <2>2
<1>3. \A n \in Nat : n \in S
  <2> HIDE DEF S
  <2> QED
    BY <1>1, <1>2, NatInd
<1>4. QED
  BY <1>3

-----------------------------------------------------------------------------
(* The buckets of a key. *)

\* The second index is of the same table, and leads back.
LEMMA AltIndex ==
  ASSUME NEW p \in Nat, NEW q \in Nat, NEW i \in BucketsOf(p)
  PROVE  /\ alt_index(p, q, i) \in BucketsOf(p)
         /\ alt_index(p, q, alt_index(p, q, i)) = i
<1>1. PICK m \in BucketsOf(p) : m = ((q + 1) * 149) % hashsize[p]
  <2>1. (q + 1) * 149 \in Nat /\ hashsize[p] \in Nat \ {0}
    BY HashsizeType
  <2>2. ((q + 1) * 149) % hashsize[p] \in 0..hashsize[p] - 1
    BY <2>1, Remainder
  <2>3. QED
    BY <2>2 DEF BucketsOf
<1>2. i \in Nat /\ m \in Nat
  BY HashsizeType DEF BucketsOf
<1>3. alt_index(p, q, i) = Xor[i][m] /\ alt_index(p, q, Xor[i][m]) = Xor[Xor[i][m]][m]
  BY <1>1 DEF alt_index
<1>4. QED
  BY <1>2, <1>3, XorBelow, XorInvolution

LEMMA PartialKey == ASSUME NEW h \in Nat PROVE partial_key(h) \in Nat
<1>1. h % 256 \in Nat /\ h \div 256 \in Nat
  OBVIOUS
<1>2. QED
  BY <1>1, XorBits DEF partial_key

LEMMA HomeTypes ==
  ASSUME NEW p \in Nat, NEW k \in Keys
  PROVE  /\ Hash[k] \in Nat /\ partial_key(Hash[k]) \in Nat
         /\ I1(p, k) \in BucketsOf(p) /\ I2(p, k) \in BucketsOf(p)
<1>1. Hash[k] \in Nat
  <2>1. Hash \in [Keys -> Nat]
    BY TableAssumption DEF TableAssumption
  <2>2. QED
    BY <2>1
<1>2. I1(p, k) \in BucketsOf(p)
  BY <1>1, HashsizeType, Remainder DEF I1, index_hash, BucketsOf
<1>3. QED
  BY <1>1, <1>2, PartialKey, AltIndex DEF I2

\* From either bucket of a key, its partial leads to the other one.
LEMMA OtherHome ==
  ASSUME NEW p \in Nat, NEW k \in Keys, NEW b \in Homes(p, k)
  PROVE  alt_index(p, partial_key(Hash[k]), b) \in Homes(p, k)
BY HomeTypes, AltIndex DEF Homes, I2

\* With one bit more, each bucket stays or goes up by the old number of buckets.
LEMMA HomesTwice ==
  ASSUME NEW p \in Nat, NEW k \in Keys
  PROVE  /\ I1(p + 1, k) \in {I1(p, k), I1(p, k) + hashsize[p]}
         /\ I2(p + 1, k) \in {I2(p, k), I2(p, k) + hashsize[p]}
<1>1. PICK N \in Nat \ {0} : N = hashsize[p] /\ hashsize[p + 1] = 2 * N
  BY HashsizeDef, HashsizeType
<1>2. PICK h \in Nat : h = Hash[k]
  BY HomeTypes
<1>3. I1(p + 1, k) = h % (2 * N) /\ I1(p, k) = h % N
  BY <1>1, <1>2 DEF I1, index_hash
<1>4. PICK q \in Nat : q = (partial_key(h) + 1) * 149
  BY <1>2, PartialKey
<1>5. /\ I2(p + 1, k) = Xor[h % (2 * N)][q % (2 * N)]
      /\ I2(p, k) = Xor[h % N][q % N]
  BY <1>1, <1>2, <1>3, <1>4 DEF I2, alt_index
<1>6. PICK x \in Nat : x = Xor[h][q]
  BY XorBits
<1>7. I2(p + 1, k) = x % (2 * N) /\ I2(p, k) = x % N
  BY <1>1, <1>5, <1>6, XorMod
<1>8. QED
  BY <1>1, <1>3, <1>7, ModTwice

-----------------------------------------------------------------------------
(* Tables. *)

Slots == 0..SLOT_PER_BUCKET - 1

LEMMA EmptyKey == Empty.k \notin Keys
<1>1. "" \notin Keys
  BY TableAssumption DEF TableAssumption
<1>2. Empty.k = ""
  BY DEF Empty
<1>3. QED
  BY <1>1, <1>2

LEMMA ItemType ==
  ASSUME NEW V, NEW e \in Items(V)
  PROVE  e.k \in Keys /\ e.v \in V /\ e = Elem(e.k, e.v) /\ e # Empty
<1>1. PICK k \in Keys, v \in V : e = Elem(k, v)
  BY DEF Items
<1>2. e.k = k /\ e.v = v
  BY <1>1 DEF Elem
<1>3. e # Empty
  BY <1>2, EmptyKey
<1>4. QED
  BY <1>1, <1>2, <1>3

LEMMA ElemType ==
  ASSUME NEW V, NEW k \in Keys, NEW v \in V
  PROVE  Elem(k, v) \in Items(V) /\ Elem(k, v).k = k /\ Elem(k, v).v = v
BY DEF Items, Elem

LEMMA SlotsType == Slots \in SUBSET Nat /\ 0 \in Slots /\ SLOT_PER_BUCKET \in Nat \ {0}
<1>1. SLOT_PER_BUCKET \in Nat \ {0}
  BY TableAssumption DEF TableAssumption
<1>2. QED
  BY <1>1 DEF Slots

LEMMA PositionsAre ==
  ASSUME NEW V, NEW T, IsTable(T, V)
  PROVE  /\ Positions(T) = BucketsOf(T.hp) \X Slots
         /\ \A p \in Positions(T) : At(T, p) \in {Empty} \union Items(V)
<1>1. DOMAIN T.slots = BucketsOf(T.hp) /\ \A b \in BucketsOf(T.hp) : DOMAIN T.slots[b] = Slots
  BY DEF IsTable, Slots
<1>2. Positions(T) = BucketsOf(T.hp) \X Slots
  BY <1>1 DEF Positions
<1>3. ASSUME NEW p \in BucketsOf(T.hp) \X Slots PROVE At(T, p) \in {Empty} \union Items(V)
  <2>1. p[1] \in BucketsOf(T.hp) /\ p[2] \in Slots
    OBVIOUS
  <2>2. QED
    BY <2>1 DEF IsTable, Slots, At
<1>4. QED
  BY <1>2, <1>3

LEMMA ElementType ==
  ASSUME NEW V, NEW T, IsTable(T, V), NEW p \in Elements(T)
  PROVE  /\ p \in Positions(T) /\ p = <<p[1], p[2]>>
         /\ p[1] \in BucketsOf(T.hp) /\ p[2] \in Slots
         /\ At(T, p) \in Items(V) /\ At(T, p).k \in Keys
<1>1. p \in Positions(T) /\ At(T, p) # Empty
  BY DEF Elements, Occupied
<1>2. At(T, p) \in Items(V)
  BY <1>1, PositionsAre
<1>3. QED
  BY <1>1, <1>2, PositionsAre, ItemType

LEMMA ElementsFinite ==
  ASSUME NEW V, NEW T, IsTable(T, V)
  PROVE  /\ IsFiniteSet(Elements(T)) /\ Cardinality(Elements(T)) \in Nat
         /\ Elements(T) \subseteq Positions(T)
<1>1. IsFiniteSet(BucketsOf(T.hp)) /\ IsFiniteSet(Slots)
  <2>1. hashsize[T.hp] \in Nat
    BY HashsizeType DEF IsTable
  <2>2. 0 \in Int /\ hashsize[T.hp] - 1 \in Int /\ SLOT_PER_BUCKET - 1 \in Int
    BY <2>1, SlotsType
  <2>3. QED
    BY <2>2, FS_Interval DEF BucketsOf, Slots
<1>2. IsFiniteSet(Positions(T))
  BY <1>1, PositionsAre, FS_Product
<1>3. Elements(T) \subseteq Positions(T)
  BY DEF Elements
<1>4. QED
  BY <1>2, <1>3, FS_Subset, FS_CardinalityType

LEMMA EmptyTableHolds ==
  ASSUME NEW V, NEW p \in Nat
  PROVE  /\ IsTable(EmptyTable(p), V) /\ EmptyTable(p).hp = p
         /\ Elements(EmptyTable(p)) = {} /\ AtHome(EmptyTable(p))
<1>1. IsTable(EmptyTable(p), V) /\ EmptyTable(p).hp = p
  BY DEF IsTable, EmptyTable, Slots
<1>2. ASSUME NEW q \in Positions(EmptyTable(p)) PROVE At(EmptyTable(p), q) = Empty
  <2>1. q \in BucketsOf(p) \X Slots
    BY <1>1, PositionsAre
  <2>2. q[1] \in BucketsOf(p) /\ q[2] \in Slots
    BY <2>1
  <2>3. QED
    BY <2>2 DEF At, EmptyTable, Slots
<1>3. Elements(EmptyTable(p)) = {}
  BY <1>2 DEF Elements, Occupied
<1>4. QED
  BY <1>1, <1>3 DEF AtHome

\* A table in which every key is at home has as many elements as contents.
LEMMA StoredCount ==
  ASSUME NEW V, NEW T, IsTable(T, V), AtHome(T)
  PROVE  /\ IsFiniteSet(Stored(T)) /\ Cardinality(Elements(T)) = Cardinality(Stored(T))
         /\ Stored(T) \subseteq Items(V)
         /\ \A d, e \in Stored(T) : d.k = e.k => d = e
<1> DEFINE f == [p \in Elements(T) |-> At(T, p)]
<1>1. f \in [Elements(T) -> Stored(T)] /\ \A e \in Stored(T) : \E p \in Elements(T) : f[p] = e
  BY DEF Stored
<1>2. \A p, q \in Elements(T) : f[p] = f[q] => p = q
  BY DEF AtHome
<1> HIDE DEF f
<1>3. f \in Bijection(Elements(T), Stored(T))
  BY <1>1, <1>2 DEF Bijection, Injection, Surjection, IsInjective
<1>4. ExistsBijection(Elements(T), Stored(T))
  BY <1>3 DEF ExistsBijection
<1>5. Stored(T) \subseteq Items(V)
  BY ElementType DEF Stored
<1>6. \A d, e \in Stored(T) : d.k = e.k => d = e
  BY DEF Stored, AtHome
<1>7. QED
  BY <1>4, <1>5, <1>6, ElementsFinite, FS_Bijection

-----------------------------------------------------------------------------
(* A write of one slot. *)

LEMMA PutHolds ==
  ASSUME NEW V, NEW T, IsTable(T, V), NEW p \in Positions(T), NEW e \in {Empty} \union Items(V)
  PROVE  /\ IsTable(Put(T, p, e), V) /\ Put(T, p, e).hp = T.hp
         /\ Positions(Put(T, p, e)) = Positions(T)
         /\ At(Put(T, p, e), p) = e
         /\ \A q \in Positions(T) : q # p => At(Put(T, p, e), q) = At(T, q)
<1> DEFINE T2 == Put(T, p, e)
<1>1. p = <<p[1], p[2]>> /\ p[1] \in BucketsOf(T.hp) /\ p[2] \in Slots
  BY PositionsAre
<1>2. PICK f \in [BucketsOf(T.hp) -> [Slots -> {Empty} \union Items(V)]] : T.slots = f
  BY DEF IsTable, Slots
<1>3. T2 = [hp |-> T.hp, slots |-> [f EXCEPT ![p[1]] = [f[p[1]] EXCEPT ![p[2]] = e]]]
  <2>1. T = [hp |-> T.hp, slots |-> f]
    BY <1>2 DEF IsTable
  <2>2. QED
    BY <2>1 DEF Put
<1>4. [f[p[1]] EXCEPT ![p[2]] = e] \in [Slots -> {Empty} \union Items(V)]
  BY <1>1
<1>5. T2.hp = T.hp /\ T2.slots = [f EXCEPT ![p[1]] = [f[p[1]] EXCEPT ![p[2]] = e]]
  BY <1>3
<1>6. T2.slots \in [BucketsOf(T.hp) -> [Slots -> {Empty} \union Items(V)]]
  BY <1>1, <1>4, <1>5
<1>7. IsTable(T2, V)
  <2>1. T.hp \in Nat
    BY DEF IsTable
  <2>2. QED
    BY <1>3, <1>5, <1>6, <2>1 DEF IsTable, Slots
<1>8. Positions(T2) = Positions(T)
  BY <1>5, <1>7, PositionsAre
<1>9. At(T2, p) = e
  BY <1>1, <1>5 DEF At
<1>10. ASSUME NEW q \in Positions(T), q # p PROVE At(T2, q) = At(T, q)
  <2>1. q = <<q[1], q[2]>> /\ q[1] \in BucketsOf(T.hp) /\ q[2] \in Slots
    BY PositionsAre
  <2>2. q[1] # p[1] \/ q[2] # p[2]
    BY <1>1, <1>10, <2>1
  <2>3. At(T2, q) = [f EXCEPT ![p[1]] = [f[p[1]] EXCEPT ![p[2]] = e]][q[1]][q[2]]
    BY <1>5 DEF At
  <2>4. At(T, q) = f[q[1]][q[2]]
    BY <1>2 DEF At
  <2>5. QED
    BY <1>1, <2>1, <2>2, <2>3, <2>4
<1>11. QED
  BY <1>5, <1>7, <1>8, <1>9, <1>10

LEMMA PutElement ==
  ASSUME NEW V, NEW T, IsTable(T, V), NEW p \in Positions(T), NEW e \in Items(V)
  PROVE  Elements(Put(T, p, e)) = Elements(T) \union {p}
<1>1. e # Empty
  BY ItemType
<1>2. QED
  BY <1>1, PutHolds DEF Elements, Occupied

LEMMA PutNothing ==
  ASSUME NEW V, NEW T, IsTable(T, V), NEW p \in Positions(T)
  PROVE  Elements(Put(T, p, Empty)) = Elements(T) \ {p}
BY PutHolds DEF Elements, Occupied

\* The value of an element changes.
LEMMA AssignHolds ==
  ASSUME NEW V, NEW T, IsTable(T, V), AtHome(T), NEW p \in Elements(T), NEW v \in V,
         NEW e, e = Elem(At(T, p).k, v)
  PROVE  /\ IsTable(Put(T, p, e), V) /\ AtHome(Put(T, p, e))
         /\ Put(T, p, e).hp = T.hp /\ Elements(Put(T, p, e)) = Elements(T)
         /\ Stored(Put(T, p, e)) = (Stored(T) \ {At(T, p)}) \union {e}
<1>1. p \in Positions(T) /\ At(T, p).k \in Keys
  BY ElementType
<1>2. e \in Items(V) /\ e.k = At(T, p).k
  BY <1>1, ElemType
<1> DEFINE T2 == Put(T, p, e)
<1>3. /\ IsTable(T2, V) /\ T2.hp = T.hp /\ At(T2, p) = e
      /\ \A q \in Positions(T) : q # p => At(T2, q) = At(T, q)
  BY <1>1, <1>2, PutHolds
<1>4. Elements(T2) = Elements(T)
  BY <1>1, <1>2, PutElement
<1>5. \A q \in Elements(T) : At(T2, q).k = At(T, q).k
  BY <1>2, <1>3 DEF Elements
<1> HIDE DEF T2
<1>6. AtHome(T2)
  BY <1>3, <1>4, <1>5 DEF AtHome
<1>7. \A q \in Elements(T) : q # p => At(T, q) # At(T, p)
  BY DEF AtHome
<1>8. \A q \in Elements(T) : q # p => At(T2, q) = At(T, q)
  BY <1>3 DEF Elements
<1>9. Stored(T2) = (Stored(T) \ {At(T, p)}) \union {e}
  BY <1>3, <1>4, <1>7, <1>8 DEF Stored
<1>10. QED
  BY <1>3, <1>4, <1>6, <1>9 DEF T2

LEMMA EraseHolds ==
  ASSUME NEW V, NEW T, IsTable(T, V), AtHome(T), NEW p \in Elements(T)
  PROVE  /\ IsTable(Put(T, p, Empty), V) /\ AtHome(Put(T, p, Empty))
         /\ Put(T, p, Empty).hp = T.hp
         /\ Cardinality(Elements(Put(T, p, Empty))) = Cardinality(Elements(T)) - 1
         /\ Stored(Put(T, p, Empty)) = Stored(T) \ {At(T, p)}
<1>1. p \in Positions(T)
  BY ElementType
<1> DEFINE T2 == Put(T, p, Empty)
<1>2. /\ IsTable(T2, V) /\ T2.hp = T.hp
      /\ \A q \in Positions(T) : q # p => At(T2, q) = At(T, q)
  BY <1>1, PutHolds
<1>3. Elements(T2) = Elements(T) \ {p}
  BY <1>1, PutNothing
<1> HIDE DEF T2
<1>4. \A q \in Elements(T) : q # p => At(T2, q) = At(T, q)
  BY <1>2 DEF Elements
<1>5. AtHome(T2)
  BY <1>2, <1>3, <1>4 DEF AtHome
<1>6. Cardinality(Elements(T2)) = Cardinality(Elements(T)) - 1
  BY <1>3, ElementsFinite, FS_RemoveElement
<1>7. \A q \in Elements(T) : q # p => At(T, q) # At(T, p)
  BY DEF AtHome
<1>8. Stored(T2) = Stored(T) \ {At(T, p)}
  BY <1>3, <1>4, <1>7 DEF Stored
<1>9. QED
  BY <1>2, <1>5, <1>6, <1>8 DEF T2

LEMMA AddHolds ==
  ASSUME NEW V, NEW T, IsTable(T, V), AtHome(T), NEW p \in Positions(T), ~Occupied(T, p),
         NEW k \in Keys, NEW v \in V, p[1] \in Homes(T.hp, k),
         \A q \in Elements(T) : At(T, q).k # k
  PROVE  /\ IsTable(Put(T, p, Elem(k, v)), V) /\ AtHome(Put(T, p, Elem(k, v)))
         /\ Put(T, p, Elem(k, v)).hp = T.hp
         /\ Cardinality(Elements(Put(T, p, Elem(k, v)))) = Cardinality(Elements(T)) + 1
         /\ Stored(Put(T, p, Elem(k, v))) = Stored(T) \union {Elem(k, v)}
<1>1. PICK e \in Items(V) : e = Elem(k, v) /\ e.k = k
  BY ElemType
<1> DEFINE T2 == Put(T, p, e)
<1>2. /\ IsTable(T2, V) /\ T2.hp = T.hp /\ At(T2, p) = e
      /\ \A q \in Positions(T) : q # p => At(T2, q) = At(T, q)
  BY PutHolds
<1>3. Elements(T2) = Elements(T) \union {p} /\ p \notin Elements(T)
  BY PutElement DEF Elements
<1> HIDE DEF T2
<1>4. \A q \in Elements(T) : q # p /\ At(T2, q) = At(T, q)
  BY <1>2, <1>3 DEF Elements
<1>5. AtHome(T2)
  <2>1. ASSUME NEW q \in Elements(T2)
        PROVE  /\ q[1] \in Homes(T2.hp, At(T2, q).k)
               /\ \A r \in Elements(T2) : At(T2, r).k = At(T2, q).k => r = q
    <3>1. CASE q = p
      BY <1>1, <1>2, <1>3, <1>4, <3>1
    <3>2. CASE q \in Elements(T)
      BY <1>1, <1>2, <1>3, <1>4, <3>2 DEF AtHome
    <3>3. QED
      BY <1>3, <3>1, <3>2
  <2>2. QED
    BY <2>1 DEF AtHome
<1>6. Cardinality(Elements(T2)) = Cardinality(Elements(T)) + 1
  BY <1>3, ElementsFinite, FS_AddElement
<1>7. Stored(T2) = Stored(T) \union {e}
  BY <1>2, <1>3, <1>4 DEF Stored
<1>8. QED
  BY <1>1, <1>2, <1>5, <1>6, <1>7 DEF T2

-----------------------------------------------------------------------------
(* Where a key is found, where there is room for one. *)

LEMMA LowestThere ==
  ASSUME NEW b \in Nat, NEW P \in SUBSET SlotsOf({b}), P # {}
  PROVE  Lowest(P) # {}
<1> DEFINE S == {p[2] : p \in P}
<1>1. \A p \in P : p[2] \in Nat
  BY SlotsType DEF SlotsOf, Slots
<1>2. S \in SUBSET Nat /\ S # {}
  BY <1>1
<1>3. PICK m \in S : \A n \in S : m <= n
  <2> HIDE DEF S
  <2> QED
    BY <1>2, LeastNat
<1>4. PICK p \in P : p[2] = m
  OBVIOUS
<1>5. p \in Lowest(P)
  BY <1>3, <1>4 DEF Lowest
<1>6. QED
  BY <1>5

LEMMA FindTypes ==
  ASSUME NEW V, NEW T, IsTable(T, V), NEW k \in Keys, NEW p \in cuckoo_find(T, k)
  PROVE  p \in Elements(T) /\ At(T, p).k = k
<1>1. PICK b \in BucketsOf(T.hp) : p \in InBucket(T, b, k)
  <2>1. I1(T.hp, k) \in BucketsOf(T.hp) /\ I2(T.hp, k) \in BucketsOf(T.hp)
    BY HomeTypes DEF IsTable
  <2>2. p \in InBucket(T, I1(T.hp, k), k) \/ p \in InBucket(T, I2(T.hp, k), k)
    BY DEF cuckoo_find, Lowest
  <2>3. QED
    BY <2>1, <2>2
<1>2. p \in BucketsOf(T.hp) \X Slots /\ At(T, p).k = k
  BY <1>1 DEF InBucket, SlotsOf, Slots
<1>3. At(T, p) # Empty
  BY <1>2, EmptyKey
<1>4. QED
  BY <1>2, <1>3, PositionsAre DEF Elements, Occupied

LEMMA FindMisses ==
  ASSUME NEW V, NEW T, IsTable(T, V), AtHome(T), NEW k \in Keys, cuckoo_find(T, k) = {}
  PROVE  \A p \in Elements(T) : At(T, p).k # k
<1>1. SUFFICES ASSUME NEW p \in Elements(T), At(T, p).k = k PROVE FALSE
  OBVIOUS
<1>2. PICK b \in {I1(T.hp, k), I2(T.hp, k)} : p[1] = b
  BY <1>1 DEF AtHome, Homes
<1>3. b \in BucketsOf(T.hp) /\ b \in Nat
  <2>1. b \in BucketsOf(T.hp)
    BY HomeTypes DEF IsTable
  <2>2. hashsize[T.hp] \in Nat
    BY HashsizeType DEF IsTable
  <2>3. QED
    BY <2>1, <2>2 DEF BucketsOf
<1>4. p \in InBucket(T, b, k)
  BY <1>1, <1>2, ElementType DEF InBucket, SlotsOf, Slots
<1>5. Lowest(InBucket(T, I1(T.hp, k), k)) = {} /\ Lowest(InBucket(T, I2(T.hp, k), k)) = {}
  BY DEF cuckoo_find
<1>6. InBucket(T, b, k) \in SUBSET SlotsOf({b})
  BY DEF InBucket
<1>7. QED
  BY <1>2, <1>3, <1>4, <1>5, <1>6, LowestThere

LEMMA FreeSlotTypes ==
  ASSUME NEW V, NEW T, IsTable(T, V), NEW k \in Keys, NEW p \in FreeSlot(T, k)
  PROVE  p \in Positions(T) /\ ~Occupied(T, p) /\ p[1] \in Homes(T.hp, k)
<1>1. I1(T.hp, k) \in BucketsOf(T.hp) /\ I2(T.hp, k) \in BucketsOf(T.hp)
  BY HomeTypes DEF IsTable
<1>2. PICK b \in {I1(T.hp, k), I2(T.hp, k)} : p \in SlotsOf({b}) /\ ~Occupied(T, p)
  BY DEF FreeSlot, Highest
<1>3. QED
  BY <1>1, <1>2, PositionsAre DEF SlotsOf, Slots, Homes

-----------------------------------------------------------------------------
(* A hop of a cuckoo path: the element at a moves to the free slot c of    *)
(* its other bucket.                                                       *)
LEMMA HopHolds ==
  ASSUME NEW V, NEW T, IsTable(T, V), AtHome(T),
         NEW a \in Elements(T), NEW c \in Positions(T), ~Occupied(T, c),
         c[1] = alt_index(T.hp, partial_key(Hash[At(T, a).k]), a[1]),
         NEW T2, T2 = Put(Put(T, c, At(T, a)), a, Empty)
  PROVE  /\ IsTable(T2, V) /\ AtHome(T2) /\ T2.hp = T.hp
         /\ ~Occupied(T2, a) /\ a \in Positions(T2)
         /\ Cardinality(Elements(T2)) = Cardinality(Elements(T))
         /\ Stored(T2) = Stored(T)
<1> DEFINE e == At(T, a)
           T1 == Put(T, c, e)
<1>1. a \in Positions(T) /\ e \in Items(V) /\ e.k \in Keys
  BY ElementType
<1>2. c # a /\ c \notin Elements(T)
  BY DEF Elements
<1>3. /\ IsTable(T1, V) /\ T1.hp = T.hp /\ At(T1, c) = e /\ Positions(T1) = Positions(T)
      /\ \A q \in Positions(T) : q # c => At(T1, q) = At(T, q)
  BY <1>1, PutHolds
<1>4. Elements(T1) = Elements(T) \union {c}
  BY <1>1, PutElement
<1>5. /\ IsTable(T2, V) /\ T2.hp = T1.hp /\ At(T2, a) = Empty /\ Positions(T2) = Positions(T)
      /\ \A q \in Positions(T1) : q # a => At(T2, q) = At(T1, q)
  BY <1>1, <1>3, PutHolds
<1>6. Elements(T2) = (Elements(T) \union {c}) \ {a}
  BY <1>1, <1>3, <1>4, PutNothing
<1>7. /\ At(T2, c) = e
      /\ \A q \in Elements(T) : q # a => q # c /\ At(T2, q) = At(T, q)
  BY <1>2, <1>3, <1>5 DEF Elements
<1>8. e.k \in Keys /\ c[1] \in Homes(T.hp, e.k)
  <2>1. a[1] \in Homes(T.hp, e.k) /\ T.hp \in Nat
    BY DEF AtHome, IsTable
  <2>2. QED
    BY <1>1, <2>1, OtherHome
<1> HIDE DEF e, T1
<1>9. AtHome(T2)
  <2>1. ASSUME NEW p \in Elements(T2)
        PROVE  /\ p[1] \in Homes(T2.hp, At(T2, p).k)
               /\ \A q \in Elements(T2) : At(T2, q).k = At(T2, p).k => q = p
    <3>1. CASE p = c
      <4>1. At(T2, p) = e
        BY <1>7, <3>1
      <4>2. ASSUME NEW q \in Elements(T2), q # c PROVE At(T2, q).k # e.k
        <5>1. q \in Elements(T) /\ q # a /\ At(T2, q) = At(T, q)
          BY <1>6, <1>7, <4>2
        <5>2. QED
          BY <5>1 DEF AtHome, e
      <4>3. QED
        BY <1>3, <1>5, <1>8, <3>1, <4>1, <4>2
    <3>2. CASE p # c
      <4>1. p \in Elements(T) /\ p # a /\ At(T2, p) = At(T, p)
        BY <1>6, <1>7, <3>2
      <4>2. p[1] \in Homes(T2.hp, At(T2, p).k)
        BY <1>3, <1>5, <4>1 DEF AtHome
      <4>3. ASSUME NEW q \in Elements(T2), At(T2, q).k = At(T2, p).k PROVE q = p
        <5>1. CASE q = c
          <6>1. At(T, a).k = At(T, p).k
            BY <1>7, <4>1, <4>3, <5>1 DEF e
          <6>2. QED
            BY <4>1, <6>1 DEF AtHome
        <5>2. CASE q # c
          <6>1. q \in Elements(T) /\ At(T2, q) = At(T, q)
            BY <1>6, <1>7, <5>2
          <6>2. QED
            BY <4>1, <4>3, <6>1 DEF AtHome
        <5>3. QED
          BY <5>1, <5>2
      <4>4. QED
        BY <4>2, <4>3
    <3>3. QED
      BY <3>1, <3>2
  <2>2. QED
    BY <2>1 DEF AtHome
<1>10. Cardinality(Elements(T2)) = Cardinality(Elements(T))
  <2>1. IsFiniteSet(Elements(T)) /\ Cardinality(Elements(T)) \in Nat
    BY ElementsFinite
  <2>2. Elements(T2) = (Elements(T) \ {a}) \union {c}
    BY <1>2, <1>6
  <2>3. /\ IsFiniteSet(Elements(T) \ {a})
        /\ Cardinality(Elements(T) \ {a}) = Cardinality(Elements(T)) - 1
    BY <2>1, FS_RemoveElement
  <2>4. Cardinality(Elements(T2)) = Cardinality(Elements(T) \ {a}) + 1
    BY <1>2, <2>2, <2>3, FS_AddElement
  <2>5. QED
    BY <2>1, <2>3, <2>4
<1>11. Stored(T2) = Stored(T)
  <2>1. ASSUME NEW q \in Elements(T2) PROVE At(T2, q) \in Stored(T)
    BY <1>6, <1>7 DEF Stored, e
  <2>2. ASSUME NEW q \in Elements(T) PROVE At(T, q) \in Stored(T2)
    <3>1. c \in Elements(T2)
      BY <1>2, <1>6
    <3>2. CASE q = a
      BY <1>7, <3>1, <3>2 DEF Stored, e
    <3>3. CASE q # a
      BY <1>6, <1>7, <3>3 DEF Stored
    <3>4. QED
      BY <3>2, <3>3
  <2>3. QED
    BY <2>1, <2>2 DEF Stored
<1>12. QED
  BY <1>1, <1>3, <1>5, <1>9, <1>10, <1>11 DEF Occupied

-----------------------------------------------------------------------------
(* Twice as many buckets. *)

LEMMA Twice ==
  ASSUME NEW p \in Nat
  PROVE  /\ p + 1 \in Nat /\ hashsize[p] \in Nat /\ BucketsOf(p) \subseteq BucketsOf(p + 1)
         /\ \A b \in BucketsOf(p) : b + hashsize[p] \in BucketsOf(p + 1) \ BucketsOf(p)
<1>1. PICK N \in Nat \ {0} : N = hashsize[p] /\ hashsize[p + 1] = 2 * N
  BY HashsizeDef, HashsizeType
<1>2. BucketsOf(p) = 0..N - 1 /\ BucketsOf(p + 1) = 0..2 * N - 1
  BY <1>1 DEF BucketsOf
<1>3. QED
  BY <1>1, <1>2

LEMMA GoingUpBounds ==
  ASSUME NEW V, NEW T, IsTable(T, V), NEW p \in Elements(T)
  PROVE  /\ IsFiniteSet(GoingUpBefore(T, p)) /\ Cardinality(GoingUpBefore(T, p)) \in Nat
         /\ Cardinality(GoingUpBefore(T, p)) \in Slots
<1>1. p[2] \in Slots /\ p[2] \in Nat
  BY ElementType, SlotsType
<1> DEFINE S == 0..p[2] - 1
<1>2. IsFiniteSet(S) /\ Cardinality(S) = p[2]
  <2>1. 0 \in Int /\ p[2] - 1 \in Int
    BY <1>1
  <2>2. IsFiniteSet(S) /\ Cardinality(S) = IF 0 > p[2] - 1 THEN 0 ELSE (p[2] - 1) - 0 + 1
    BY <2>1, FS_Interval
  <2> HIDE DEF S
  <2>3. QED
    BY <1>1, <2>2
<1>3. ASSUME NEW q \in GoingUpBefore(T, p) PROVE q \in {p[1]} \X S
  <2>1. q \in Elements(T) /\ q[1] = p[1] /\ q[2] < p[2]
    BY DEF GoingUpBefore
  <2>2. q = <<q[1], q[2]>> /\ q[2] \in Nat
    BY <2>1, ElementType, SlotsType
  <2>3. QED
    BY <1>1, <2>1, <2>2
<1> HIDE DEF S
<1>4. IsFiniteSet({p[1]}) /\ Cardinality({p[1]}) = 1
  BY FS_Singleton
<1>5. IsFiniteSet({p[1]} \X S) /\ Cardinality({p[1]} \X S) = p[2]
  <2>1. IsFiniteSet({p[1]} \X S) /\ Cardinality({p[1]} \X S) = Cardinality({p[1]}) * Cardinality(S)
    BY <1>2, <1>4, FS_Product
  <2>2. QED
    BY <1>1, <1>2, <1>4, <2>1
<1>6. IsFiniteSet(GoingUpBefore(T, p)) /\ Cardinality(GoingUpBefore(T, p)) <= p[2]
  BY <1>3, <1>5, FS_Subset
<1>7. Cardinality(GoingUpBefore(T, p)) \in Nat
  BY <1>6, FS_CardinalityType
<1>8. QED
  BY <1>1, <1>6, <1>7, SlotsType DEF Slots

LEMMA GoingUpGrows ==
  ASSUME NEW V, NEW T, IsTable(T, V), NEW p \in Elements(T), NEW q \in Elements(T),
         GoesUp(T, p), p[1] = q[1], p[2] < q[2]
  PROVE  Cardinality(GoingUpBefore(T, p)) < Cardinality(GoingUpBefore(T, q))
<1> DEFINE P == GoingUpBefore(T, p)
           Q == GoingUpBefore(T, q)
<1>1. p[2] \in Nat /\ q[2] \in Nat /\ \A r \in Elements(T) : r[2] \in Nat
  BY ElementType, SlotsType
<1>2. P \subseteq Q /\ p \in Q /\ p \notin P
  BY <1>1 DEF GoingUpBefore
<1>3. IsFiniteSet(Q) /\ Cardinality(P) \in Nat /\ Cardinality(Q) \in Nat
  BY GoingUpBounds
<1> HIDE DEF P, Q
<1>4. Cardinality(P) <= Cardinality(Q) /\ Cardinality(P) # Cardinality(Q)
  BY <1>2, <1>3, FS_Subset
<1>5. QED
  BY <1>3, <1>4 DEF P, Q

LEMMA DestinationType ==
  ASSUME NEW V, NEW T, IsTable(T, V), NEW p \in Elements(T)
  PROVE  Destination(T, p) \in BucketsOf(T.hp + 1) \X Slots
<1>1. p = <<p[1], p[2]>> /\ p[1] \in BucketsOf(T.hp) /\ p[2] \in Slots /\ T.hp \in Nat
  BY ElementType DEF IsTable
<1>2. CASE GoesUp(T, p)
  BY <1>1, <1>2, Twice, GoingUpBounds DEF Destination
<1>3. CASE ~GoesUp(T, p)
  BY <1>1, <1>3, Twice DEF Destination
<1>4. QED
  BY <1>2, <1>3

LEMMA DestinationsDiffer ==
  ASSUME NEW V, NEW T, IsTable(T, V), NEW p \in Elements(T), NEW q \in Elements(T),
         Destination(T, p) = Destination(T, q)
  PROVE  p = q
<1>1. /\ p = <<p[1], p[2]>> /\ p[1] \in BucketsOf(T.hp) /\ p[2] \in Nat /\ T.hp \in Nat
      /\ q = <<q[1], q[2]>> /\ q[1] \in BucketsOf(T.hp) /\ q[2] \in Nat
  BY ElementType, SlotsType DEF IsTable
<1>2. CASE ~GoesUp(T, p) /\ ~GoesUp(T, q)
  BY <1>2 DEF Destination
<1>3. CASE GoesUp(T, p) /\ ~GoesUp(T, q)
  <2>1. Destination(T, p)[1] = p[1] + hashsize[T.hp] /\ Destination(T, q)[1] = q[1]
    BY <1>3 DEF Destination
  <2>2. QED
    BY <1>1, <2>1, Twice
<1>4. CASE ~GoesUp(T, p) /\ GoesUp(T, q)
  <2>1. Destination(T, q)[1] = q[1] + hashsize[T.hp] /\ Destination(T, p)[1] = p[1]
    BY <1>4 DEF Destination
  <2>2. QED
    BY <1>1, <2>1, Twice
<1>5. CASE GoesUp(T, p) /\ GoesUp(T, q)
  <2>1. /\ p[1] + hashsize[T.hp] = q[1] + hashsize[T.hp]
        /\ Cardinality(GoingUpBefore(T, p)) = Cardinality(GoingUpBefore(T, q))
    BY <1>5 DEF Destination
  <2>2. p[1] = q[1]
    <3>1. hashsize[T.hp] \in Nat
      BY <1>1, HashsizeType
    <3>2. p[1] \in Int /\ q[1] \in Int
      BY <1>1, <3>1 DEF BucketsOf
    <3>3. QED
      BY <2>1, <3>1, <3>2
  <2>3. ~(p[2] < q[2]) /\ ~(q[2] < p[2])
    <3>1. Cardinality(GoingUpBefore(T, p)) \in Nat /\ Cardinality(GoingUpBefore(T, q)) \in Nat
      BY GoingUpBounds
    <3>2. QED
      BY <1>5, <2>1, <2>2, <3>1, GoingUpGrows
  <2>4. QED
    BY <1>1, <2>2, <2>3
<1>6. QED
  BY <1>2, <1>3, <1>4, <1>5

LEMMA DestinationAtHome ==
  ASSUME NEW V, NEW T, IsTable(T, V), AtHome(T), NEW p \in Elements(T)
  PROVE  Destination(T, p)[1] \in Homes(T.hp + 1, At(T, p).k)
<1>1. PICK k \in Keys : k = At(T, p).k
  BY ElementType
<1>2. p[1] \in {I1(T.hp, k), I2(T.hp, k)} /\ T.hp \in Nat
  BY <1>1 DEF AtHome, Homes, IsTable
<1>3. /\ I1(T.hp + 1, k) \in {I1(T.hp, k), I1(T.hp, k) + hashsize[T.hp]}
      /\ I2(T.hp + 1, k) \in {I2(T.hp, k), I2(T.hp, k) + hashsize[T.hp]}
  BY <1>2, HomesTwice
<1>4. CASE GoesUp(T, p)
  <2>1. Destination(T, p)[1] = p[1] + hashsize[T.hp]
    BY <1>4 DEF Destination
  <2>2. QED
    BY <1>1, <1>4, <2>1 DEF GoesUp, Homes
<1>5. CASE ~GoesUp(T, p)
  <2>1. Destination(T, p)[1] = p[1]
    BY <1>5 DEF Destination
  <2>2. QED
    BY <1>1, <1>2, <1>3, <1>5, <2>1 DEF GoesUp, Homes
<1>6. QED
  BY <1>4, <1>5

LEMMA DoubleHolds ==
  ASSUME NEW V, NEW T, IsTable(T, V), AtHome(T)
  PROVE  /\ IsTable(DoubleTable(T), V) /\ AtHome(DoubleTable(T))
         /\ DoubleTable(T).hp = T.hp + 1
         /\ Stored(DoubleTable(T)) = Stored(T)
<1> DEFINE T2 == DoubleTable(T)
           Room == BucketsOf(T.hp + 1) \X Slots
           new(x) == IF MovedTo(T, x) = {} THEN Empty
                     ELSE At(T, CHOOSE q \in MovedTo(T, x) : TRUE)
<1>1. T.hp + 1 \in Nat
  BY DEF IsTable
<1>2. T2 = [hp |-> T.hp + 1, slots |-> [b \in BucketsOf(T.hp + 1) |-> [s \in Slots |-> new(<<b, s>>)]]]
  BY DEF DoubleTable, Slots
<1>3. \A q \in Elements(T) : MovedTo(T, Destination(T, q)) = {q}
  BY DestinationsDiffer DEF MovedTo
<1>4. ASSUME NEW q \in Elements(T) PROVE new(Destination(T, q)) = At(T, q)
  BY <1>3
<1>5. ASSUME NEW x, \A q \in Elements(T) : Destination(T, q) # x PROVE new(x) = Empty
  BY <1>5 DEF MovedTo
<1>6. \A x : new(x) \in {Empty} \union Items(V)
  <2>1. \A q \in Elements(T) : At(T, q) \in Items(V)
    BY ElementType
  <2>2. QED
    BY <1>4, <1>5, <2>1
<1> HIDE DEF new
<1>7. IsTable(T2, V) /\ T2.hp = T.hp + 1
  BY <1>1, <1>2, <1>6 DEF IsTable, Slots
<1>8. ASSUME NEW x \in Room PROVE x \in Positions(T2) /\ At(T2, x) = new(x)
  <2>1. x = <<x[1], x[2]>> /\ x[1] \in BucketsOf(T.hp + 1) /\ x[2] \in Slots
    OBVIOUS
  <2>2. At(T2, x) = new(<<x[1], x[2]>>)
    BY <1>2, <2>1 DEF At
  <2>3. QED
    BY <1>7, <2>1, <2>2, PositionsAre
<1>9. Elements(T2) \subseteq Room
  BY <1>7, PositionsAre DEF Elements
<1> HIDE DEF T2
<1>10. ASSUME NEW q \in Elements(T)
       PROVE  Destination(T, q) \in Elements(T2) /\ At(T2, Destination(T, q)) = At(T, q)
  <2>1. Destination(T, q) \in Room
    BY DestinationType
  <2>2. At(T, q) # Empty
    BY DEF Elements, Occupied
  <2>3. QED
    BY <1>4, <1>8, <2>1, <2>2 DEF Elements, Occupied
<1>11. ASSUME NEW x \in Elements(T2)
       PROVE  \E q \in Elements(T) : x = Destination(T, q) /\ At(T2, x) = At(T, q)
  <2>1. At(T2, x) = new(x) /\ new(x) # Empty
    BY <1>8, <1>9 DEF Elements, Occupied
  <2>2. PICK q \in Elements(T) : Destination(T, q) = x
    BY <1>5, <2>1
  <2>3. QED
    BY <1>10, <2>2
<1>12. AtHome(T2)
  <2>1. ASSUME NEW x \in Elements(T2)
        PROVE  /\ x[1] \in Homes(T2.hp, At(T2, x).k)
               /\ \A y \in Elements(T2) : At(T2, y).k = At(T2, x).k => y = x
    <3>1. PICK p \in Elements(T) : x = Destination(T, p) /\ At(T2, x) = At(T, p)
      BY <1>11
    <3>2. x[1] \in Homes(T2.hp, At(T2, x).k)
      BY <1>7, <3>1, DestinationAtHome
    <3>3. ASSUME NEW y \in Elements(T2), At(T2, y).k = At(T2, x).k PROVE y = x
      <4>1. PICK q \in Elements(T) : y = Destination(T, q) /\ At(T2, y) = At(T, q)
        BY <1>11
      <4>2. q = p
        BY <3>1, <3>3, <4>1 DEF AtHome
      <4>3. QED
        BY <3>1, <4>1, <4>2
    <3>4. QED
      BY <3>2, <3>3
  <2>2. QED
    BY <2>1 DEF AtHome
<1>13. Stored(T2) = Stored(T)
  BY <1>10, <1>11 DEF Stored
<1>14. QED
  BY <1>7, <1>12, <1>13 DEF T2

-----------------------------------------------------------------------------
(* The hashpower a table of n elements asks for. *)
LEMMA ReserveType ==
  ASSUME NEW n \in Nat
  PROVE  reserve_calc(n) \in Nat
<1> DEFINE Enough == {p \in Nat : hashsize[p] * SLOT_PER_BUCKET >= n}
           Grown == {p \in Nat : hashsize[p] > p}
<1>1. \A p \in Nat : p \in Grown
  <2>1. 0 \in Grown
    BY HashsizeDef
  <2>2. \A p \in Nat : p \in Grown => p + 1 \in Grown
    BY HashsizeDef, HashsizeType
  <2> HIDE DEF Grown
  <2>3. QED
    BY <2>1, <2>2, NatInd
<1>2. \A p \in Nat : hashsize[p] * SLOT_PER_BUCKET \in Nat /\ hashsize[p] * SLOT_PER_BUCKET >= hashsize[p]
  BY HashsizeType, SlotsType
<1>3. n \in Enough
  <2>1. hashsize[n] > n /\ hashsize[n] \in Nat
    BY <1>1, HashsizeType
  <2>2. QED
    BY <1>2, <2>1
<1>4. PICK m \in Enough : \A p \in Enough : m <= p
  <2> HIDE DEF Enough
  <2>1. Enough \in SUBSET Nat
    BY DEF Enough
  <2>2. QED
    BY <1>3, <2>1, LeastNat
<1>5. m \in 0..n /\ hashsize[m] * SLOT_PER_BUCKET >= n
  BY <1>3, <1>4
<1>6. ASSUME NEW q \in 0..m - 1 PROVE hashsize[q] * SLOT_PER_BUCKET < n
  <2>1. q \in Nat /\ q \notin Enough
    BY <1>4
  <2>2. hashsize[q] * SLOT_PER_BUCKET \in Nat
    BY <1>2, <2>1
  <2>3. QED
    BY <2>1, <2>2
<1>7. reserve_calc(n) \in 0..n
  BY <1>5, <1>6 DEF reserve_calc
<1>8. QED
  BY <1>7

-----------------------------------------------------------------------------
(* A search for a cuckoo path: its slots are slots, its buckets buckets.   *)
Codes == {c \in Seq(Nat) : Len(c) >= 1 /\ \A i \in 2..Len(c) : c[i] \in Slots}
BSlots(p) == [bucket : BucketsOf(p), code : Codes]
IsSearch(s, p) ==
  s.status = "look" /\ s.i \in Nat /\ s.x \in BSlots(p) /\ s.q \in Seq(BSlots(p))

LEMMA DequeueTypes ==
  ASSUME NEW p, NEW q \in Seq(BSlots(p)), NEW s, s = Dequeue(q)
  PROVE  s.status = "failed" \/ IsSearch(s, p)
<1>1. CASE full(q) \/ q = <<>>
  BY <1>1 DEF Dequeue
<1>2. CASE ~(full(q) \/ q = <<>>)
  <2>1. s = [status |-> "look", q |-> Tail(q), x |-> Head(q), i |-> 0]
    BY <1>2 DEF Dequeue
  <2>2. Tail(q) \in Seq(BSlots(p)) /\ Head(q) \in BSlots(p)
    BY <1>2
  <2>3. QED
    BY <2>1, <2>2 DEF IsSearch
<1>3. QED
  BY <1>1, <1>2

LEMMA StartTypes ==
  ASSUME NEW p, NEW b \in BucketsOf(p), NEW c \in BucketsOf(p)
  PROVE  IsSearch(StartSearch(b, c), p)
<1> DEFINE x == [bucket |-> b, code |-> <<0>>]
           y == [bucket |-> c, code |-> <<1>>]
           q == <<x, y>>
<1>1. x \in BSlots(p) /\ y \in BSlots(p)
  <2>1. <<0>> \in Codes /\ <<1>> \in Codes
    BY DEF Codes
  <2>2. QED
    BY <2>1 DEF BSlots
<1>2. MAX_CUCKOO_COUNT \in Nat /\ MAX_CUCKOO_COUNT > 3
  BY TableAssumption DEF TableAssumption
<1>3. Len(q) = 2 /\ q # <<>>
  OBVIOUS
<1>4. ~full(q)
  BY <1>2, <1>3 DEF full
<1>5. Dequeue(q).status = "look"
  BY <1>3, <1>4 DEF Dequeue
<1>6. q \in Seq(BSlots(p))
  BY <1>1
<1> HIDE DEF q
<1>7. IsSearch(Dequeue(q), p)
  BY <1>5, <1>6, DequeueTypes
<1>8. QED
  BY <1>7 DEF StartSearch, q, x, y

\* What a look at one slot leads to.
LEMMA LookTypes ==
  ASSUME NEW V, NEW T, IsTable(T, V), NEW s, IsSearch(s, T.hp), NEW r, r = LookAt(T, s)
  PROVE  \/ IsSearch(r, T.hp) \/ r.status = "failed"
         \/ r.status = "found" /\ r.x.code \in Codes /\ Len(r.x.code) >= 2
<1>1. PICK c \in Codes, b \in BucketsOf(T.hp) : s.x = [bucket |-> b, code |-> c]
  BY DEF IsSearch, BSlots
<1>2. c \in Seq(Nat) /\ Len(c) >= 1 /\ c # <<>>
  BY DEF Codes
<1>3. PICK i \in Nat : s.i = i
  BY DEF IsSearch
<1>4. PICK slot \in Slots : slot = (Last(s.x.code) + s.i) % SLOT_PER_BUCKET
  <2>1. Last(c) \in Nat
    BY <1>2 DEF Last
  <2>2. Last(c) + i \in Nat
    BY <2>1
  <2>3. (Last(c) + i) % SLOT_PER_BUCKET \in Slots
    BY <2>2, Remainder, SlotsType DEF Slots
  <2>4. QED
    BY <1>1, <1>3, <2>3
<1>5. PICK code : code = Append(c, slot)
  OBVIOUS
<1>6. code \in Codes /\ Len(code) >= 2
  <2>1. slot \in Nat
    BY SlotsType
  <2>2. code \in Seq(Nat) /\ Len(code) = Len(c) + 1
    BY <1>2, <1>5, <2>1
  <2>3. \A j \in 2..Len(code) : code[j] \in Slots
    <3>1. SUFFICES ASSUME NEW j \in 2..Len(code) PROVE code[j] \in Slots
      OBVIOUS
    <3>2. CASE j = Len(c) + 1
      BY <1>2, <1>5, <3>2
    <3>3. CASE j # Len(c) + 1
      BY <1>2, <1>5, <2>2, <3>3 DEF Codes
    <3>4. QED
      BY <3>2, <3>3
  <2>4. QED
    BY <1>2, <2>2, <2>3 DEF Codes
<1>7. PICK q0 \in Seq(BSlots(T.hp)) : q0 = s.q
  BY DEF IsSearch
<1>8. PICK q \in Seq(BSlots(T.hp)) :
        q = IF depth(s.x) < MAX_BFS_PATH_LEN - 1
              THEN Append(q0, [bucket |-> alt_index(T.hp, 0, b), code |-> code])
              ELSE q0
  <2>1. alt_index(T.hp, 0, b) \in BucketsOf(T.hp)
    BY AltIndex DEF IsTable
  <2>2. [bucket |-> alt_index(T.hp, 0, b), code |-> code] \in BSlots(T.hp)
    BY <1>6, <2>1 DEF BSlots
  <2>3. Append(q0, [bucket |-> alt_index(T.hp, 0, b), code |-> code]) \in Seq(BSlots(T.hp))
    BY <2>2
  <2>4. CASE depth(s.x) < MAX_BFS_PATH_LEN - 1
    BY <2>3, <2>4
  <2>5. CASE ~(depth(s.x) < MAX_BFS_PATH_LEN - 1)
    BY <2>5
  <2>6. QED
    BY <2>4, <2>5
<1>9. r = IF T.slots[s.x.bucket][slot] = Empty
            THEN [status |-> "found", q |-> <<>>, x |-> [s.x EXCEPT !.code = code], i |-> 0]
          ELSE IF s.i + 1 < SLOT_PER_BUCKET /\ ~full(q)
            THEN [s EXCEPT !.q = q, !.i = @ + 1]
          ELSE Dequeue(q)
  <2>1. s.x.code = c /\ s.x.bucket = b
    BY <1>1
  <2>2. q = IF depth(s.x) < MAX_BFS_PATH_LEN - 1
              THEN Append(s.q, [bucket |-> alt_index(T.hp, SearchPartial(T.slots[s.x.bucket][slot]), s.x.bucket),
                                code |-> code])
              ELSE s.q
    BY <1>7, <1>8, <2>1 DEF SearchPartial
  <2>3. QED
    BY <1>4, <1>5, <2>1, <2>2 DEF LookAt
<1>10. CASE T.slots[s.x.bucket][slot] = Empty
  BY <1>1, <1>6, <1>9, <1>10
<1>11. CASE T.slots[s.x.bucket][slot] # Empty /\ s.i + 1 < SLOT_PER_BUCKET /\ ~full(q)
  <2>1. r = [s EXCEPT !.q = q, !.i = @ + 1]
    BY <1>9, <1>11
  <2>2. r.status = s.status /\ r.x = s.x
    BY <2>1
  <2>3. QED
    BY <1>3, <2>1, <2>2 DEF IsSearch
<1>12. CASE T.slots[s.x.bucket][slot] # Empty /\ ~(s.i + 1 < SLOT_PER_BUCKET /\ ~full(q))
  <2>1. r = Dequeue(q)
    BY <1>9, <1>12
  <2>2. QED
    BY <2>1, DequeueTypes
<1>13. QED
  BY <1>10, <1>11, <1>12
=============================================================================
