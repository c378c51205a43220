-------------------------- MODULE CuckooMapProofs --------------------------
(***************************************************************************)
(* What CuckooMap keeps, proved for every number of threads, every table   *)
(* and every set of calls: a key is stored once, in one of its buckets,    *)
(* and the element counters add up to the elements.                        *)
(***************************************************************************)
EXTENDS CuckooMap, CuckooTableProofs, SequenceTheorems

-----------------------------------------------------------------------------
(* The sum of the counters of a container. *)

LEMMA FunctionSeq ==
  ASSUME NEW S, NEW n \in Nat, NEW f \in [1..n -> S]
  PROVE  f \in Seq(S) /\ Len(f) = n
OBVIOUS

\* g adds up a sequence from its start.
AddsUp(g, c) ==
  /\ g \in [0..Len(c) -> Int] /\ g[0] = 0
  /\ \A n \in 1..Len(c) : g[n] = g[n - 1] + c[n]

LEMMA SumAddsUp ==
  ASSUME NEW c \in Seq(Int)
  PROVE  \E g : AddsUp(g, c) /\ Sum(c) = g[Len(c)]
<1> DEFINE N == Len(c)
           F(g) == [n \in 0..N |-> IF n = 0 THEN 0 ELSE g[n - 1] + c[n]]
           next == [x \in Nat \X Int |-> IF x[1] + 1 \in 1..N THEN x[2] + c[x[1] + 1] ELSE 0]
           g == CHOOSE h : h = F(h)
<1>1. N \in Nat /\ \A n \in 1..N : c[n] \in Int
  OBVIOUS
<1>2. PICK f : Iterates(f, Int, 0, next)
  <2>1. next \in [Nat \X Int -> Int]
    BY <1>1
  <2> HIDE DEF next
  <2>2. 0 \in Int
    OBVIOUS
  <2>3. QED
    BY <2>1, <2>2, NatRecursion
<1> HIDE DEF N
<1>3. f[0] = 0 /\ \A n \in Nat : f[n] \in Int /\ f[n + 1] = next[<<n, f[n]>>]
  BY <1>2 DEF Iterates
<1> DEFINE h == [n \in 0..N |-> f[n]]
<1>4. ASSUME NEW n \in 0..N PROVE h[n] = F(h)[n]
  <2>1. CASE n = 0
    BY <1>1, <1>3, <2>1
  <2>2. CASE n # 0
    <3>1. PICK m \in Nat : n = m + 1 /\ m \in 0..N /\ m + 1 \in 1..N
      <4>1. n - 1 \in Nat /\ n = (n - 1) + 1 /\ n - 1 \in 0..N /\ (n - 1) + 1 \in 1..N
        BY <1>1, <2>2
      <4>2. QED
        BY <4>1
    <3>2. f[m + 1] = f[m] + c[m + 1]
      BY <1>3, <3>1
    <3>3. h[n] = f[m + 1] /\ n - 1 = m /\ h[n - 1] = f[m]
      BY <3>1
    <3>4. F(h)[n] = h[n - 1] + c[n]
      BY <2>2
    <3>5. QED
      BY <3>1, <3>2, <3>3, <3>4
  <2>3. QED
    BY <2>1, <2>2
<1>5. h = F(h)
  BY <1>4
<1> HIDE DEF h
<1>6. g = F(g)
  <2> HIDE DEF F
  <2> QED
    BY <1>5
<1>7. Sum(c) = g[N]
  BY DEF Sum, N
<1> HIDE DEF g
<1>8. DOMAIN g = 0..N /\ g[0] = 0 /\ \A n \in 1..N : g[n] = g[n - 1] + c[n]
  BY <1>1, <1>6
<1> DEFINE Typed == {n \in Nat : n <= N => g[n] \in Int}
<1>9. \A n \in Nat : n \in Typed
  <2>1. 0 \in Typed
    BY <1>8
  <2>2. ASSUME NEW n \in Nat, n \in Typed PROVE n + 1 \in Typed
    <3>1. SUFFICES ASSUME n + 1 <= N PROVE g[n + 1] \in Int
      OBVIOUS
    <3>2. n + 1 \in 1..N /\ (n + 1) - 1 = n /\ g[n] \in Int
      BY <1>1, <2>2, <3>1
    <3>3. g[n + 1] = g[n] + c[n + 1] /\ c[n + 1] \in Int
      BY <1>1, <1>8, <3>2
    <3>4. QED
      BY <3>2, <3>3
  <2> HIDE DEF Typed
  <2>3. QED
    BY <2>1, <2>2, NatInd
<1>10. g \in [0..N -> Int]
  <2>1. g = [n \in 0..N |-> g[n]]
    BY <1>6
  <2>2. \A n \in 0..N : g[n] \in Int
    BY <1>1, <1>9
  <2>3. QED
    BY <2>1, <2>2
<1>11. AddsUp(g, c)
  BY <1>8, <1>10 DEF AddsUp, N
<1>12. QED
  BY <1>7, <1>11 DEF N

\* Sums up to every place determine each other.
LEMMA SumZeros ==
  ASSUME NEW c \in Seq(Int), \A l \in 1..Len(c) : c[l] = 0
  PROVE  Sum(c) = 0
<1>1. PICK g : AddsUp(g, c) /\ Sum(c) = g[Len(c)]
  BY SumAddsUp
<1>2. Len(c) \in Nat
  OBVIOUS
<1> DEFINE S == {n \in Nat : n <= Len(c) => g[n] = 0}
<1>3. 0 \in S
  BY <1>1 DEF AddsUp
<1>4. ASSUME NEW n \in Nat, n \in S PROVE n + 1 \in S
  <2>1. SUFFICES ASSUME n + 1 <= Len(c) PROVE g[n + 1] = 0
    OBVIOUS
  <2>2. n + 1 \in 1..Len(c) /\ (n + 1) - 1 = n /\ g[n] = 0
    BY <1>2, <1>4, <2>1
  <2>3. g[n + 1] = g[n] + c[n + 1]
    BY <1>1, <2>2 DEF AddsUp
  <2>4. QED
    BY <2>2, <2>3
<1>5. \A n \in Nat : n \in S
  <2> HIDE DEF S
  <2> QED
    BY <1>3, <1>4, NatInd
<1>6. QED
  BY <1>1, <1>2, <1>5

Raised(c, i, d) == [c EXCEPT ![i] = c[i] + d]
LEMMA SumRaised ==
  ASSUME NEW c \in Seq(Int), NEW i \in 1..Len(c), NEW d \in Int
  PROVE  /\ Raised(c, i, d) \in Seq(Int) /\ Len(Raised(c, i, d)) = Len(c)
         /\ Sum(Raised(c, i, d)) = Sum(c) + d
<1>0. PICK w : w = Raised(c, i, d) /\ w = [c EXCEPT ![i] = c[i] + d]
  BY DEF Raised
<1>1. w \in Seq(Int) /\ Len(w) = Len(c) /\ Len(c) \in Nat
  BY <1>0
<1>2. \A n \in 1..Len(c) : c[n] \in Int /\ w[n] = IF n = i THEN c[n] + d ELSE c[n]
  BY <1>0
<1>3. PICK f : AddsUp(f, c) /\ Sum(c) = f[Len(c)]
  BY SumAddsUp
<1>4. PICK g : AddsUp(g, w) /\ Sum(w) = g[Len(w)]
  BY <1>1, SumAddsUp
<1>5. \A n \in 0..Len(c) : f[n] \in Int
  BY <1>3 DEF AddsUp
<1> DEFINE S == {n \in Nat : n <= Len(c) => g[n] = IF n < i THEN f[n] ELSE f[n] + d}
<1>6. 0 \in S
  BY <1>3, <1>4 DEF AddsUp
<1>7. ASSUME NEW n \in Nat, n \in S PROVE n + 1 \in S
  <2>1. SUFFICES ASSUME n + 1 <= Len(c)
                 PROVE  g[n + 1] = IF n + 1 < i THEN f[n + 1] ELSE f[n + 1] + d
    OBVIOUS
  <2>2. n + 1 \in 1..Len(c) /\ (n + 1) - 1 = n /\ n \in 0..Len(c)
    BY <1>1, <2>1
  <2>3. g[n] = IF n < i THEN f[n] ELSE f[n] + d
    BY <1>7, <2>1
  <2>4. f[n + 1] = f[n] + c[n + 1]
    BY <1>3, <2>2 DEF AddsUp
  <2>5. g[n + 1] = g[n] + w[n + 1]
    BY <1>1, <1>4, <2>2 DEF AddsUp
  <2>6. c[n + 1] \in Int /\ f[n] \in Int /\ w[n + 1] = IF n + 1 = i THEN c[n + 1] + d ELSE c[n + 1]
    BY <1>2, <1>5, <2>2
  <2>7. QED
    BY <2>3, <2>4, <2>5, <2>6
<1>8. \A n \in Nat : n \in S
  <2> HIDE DEF S
  <2> QED
    BY <1>6, <1>7, NatInd
<1>9. g[Len(c)] = f[Len(c)] + d
  BY <1>1, <1>8
<1>10. QED
  BY <1>0, <1>1, <1>3, <1>4, <1>9

LEMMA SumWider ==
  ASSUME NEW c \in Seq(Int), NEW m \in Nat, m >= Len(c),
         NEW w, w = [l \in 1..m |-> IF l <= Len(c) THEN c[l] ELSE 0]
  PROVE  w \in Seq(Int) /\ Len(w) = m /\ Sum(w) = Sum(c)
<1>1. Len(c) \in Nat /\ \A n \in 1..Len(c) : c[n] \in Int
  OBVIOUS
<1>2. \A n \in 1..m : w[n] = IF n <= Len(c) THEN c[n] ELSE 0
  OBVIOUS
<1>3. w \in Seq(Int) /\ Len(w) = m
  <2>1. w \in [1..m -> Int]
    BY <1>1
  <2>2. QED
    BY <2>1, FunctionSeq
<1>4. PICK f : AddsUp(f, c) /\ Sum(c) = f[Len(c)]
  BY SumAddsUp
<1>5. PICK g : AddsUp(g, w) /\ Sum(w) = g[Len(w)]
  BY <1>3, SumAddsUp
<1>6. \A n \in 0..Len(c) : f[n] \in Int
  BY <1>4 DEF AddsUp
<1> DEFINE S == {n \in Nat : n <= m => g[n] = IF n <= Len(c) THEN f[n] ELSE f[Len(c)]}
<1>7. 0 \in S
  BY <1>1, <1>4, <1>5 DEF AddsUp
<1>8. ASSUME NEW n \in Nat, n \in S PROVE n + 1 \in S
  <2>1. SUFFICES ASSUME n + 1 <= m
                 PROVE  g[n + 1] = IF n + 1 <= Len(c) THEN f[n + 1] ELSE f[Len(c)]
    OBVIOUS
  <2>2. n + 1 \in 1..m /\ (n + 1) - 1 = n /\ n <= m
    BY <2>1
  <2>3. g[n] = IF n <= Len(c) THEN f[n] ELSE f[Len(c)]
    BY <1>8, <2>2
  <2>4. g[n + 1] = g[n] + w[n + 1]
    BY <1>3, <1>5, <2>2 DEF AddsUp
  <2>5. CASE n + 1 <= Len(c)
    <3>1. n + 1 \in 1..Len(c) /\ w[n + 1] = c[n + 1] /\ n <= Len(c)
      BY <1>1, <1>2, <2>2, <2>5
    <3>2. f[n + 1] = f[n] + c[n + 1]
      BY <1>4, <2>2, <3>1 DEF AddsUp
    <3>3. QED
      BY <2>3, <2>4, <2>5, <3>1, <3>2
  <2>6. CASE ~(n + 1 <= Len(c))
    <3>1. w[n + 1] = 0
      BY <1>2, <2>2, <2>6
    <3>2. g[n] = f[Len(c)]
      <4>1. n = Len(c) \/ n > Len(c)
        BY <1>1, <2>6
      <4>2. QED
        BY <1>1, <2>3, <4>1
    <3>3. f[Len(c)] \in Int
      BY <1>1, <1>6
    <3>4. QED
      BY <2>4, <2>6, <3>1, <3>2, <3>3
  <2>7. QED
    BY <2>5, <2>6
<1>9. \A n \in Nat : n \in S
  <2> HIDE DEF S
  <2> QED
    BY <1>7, <1>8, NatInd
<1>10. g[m] = f[Len(c)]
  BY <1>1, <1>9
<1>11. QED
  BY <1>3, <1>4, <1>5, <1>10

\* How many are in each of m classes adds up to how many there are.
LEMMA SumClasses ==
  ASSUME NEW E, IsFiniteSet(E), NEW m \in Nat, NEW class \in [E -> 1..m],
         NEW w, w = [l \in 1..m |-> Cardinality({p \in E : class[p] = l})]
  PROVE  w \in Seq(Int) /\ Len(w) = m /\ Sum(w) = Cardinality(E)
<1> DEFINE C(l) == {p \in E : class[p] = l}
           U(l) == {p \in E : class[p] <= l}
<1>1. \A l : IsFiniteSet(C(l)) /\ Cardinality(C(l)) \in Nat
  <2>1. \A l : C(l) \in SUBSET E
    OBVIOUS
  <2> HIDE DEF C
  <2>2. QED
    BY <2>1, FS_Subset, FS_CardinalityType
<1>2. \A l : IsFiniteSet(U(l)) /\ Cardinality(U(l)) \in Nat
  <2>1. \A l : U(l) \in SUBSET E
    OBVIOUS
  <2> HIDE DEF U
  <2>2. QED
    BY <2>1, FS_Subset, FS_CardinalityType
<1>3. w \in Seq(Int) /\ Len(w) = m
  <2>1. w = [l \in 1..m |-> Cardinality(C(l))]
    OBVIOUS
  <2> HIDE DEF C
  <2>2. w \in [1..m -> Int]
    BY <1>1, <2>1
  <2>3. QED
    BY <2>2, FunctionSeq
<1>4. PICK g : AddsUp(g, w) /\ Sum(w) = g[Len(w)]
  BY <1>3, SumAddsUp
<1>5. \A p \in E : class[p] \in 1..m
  OBVIOUS
<1>6. Cardinality(U(0)) = 0
  <2>1. U(0) = {}
    BY <1>5
  <2>2. QED
    BY <2>1, FS_EmptySet
<1>7. ASSUME NEW n \in Nat
      PROVE  Cardinality(U(n + 1)) = Cardinality(U(n)) + Cardinality(C(n + 1))
  <2>1. U(n + 1) = U(n) \union C(n + 1) /\ U(n) \cap C(n + 1) = {}
    BY <1>5
  <2>2. Cardinality(U(n) \union C(n + 1)) =
          Cardinality(U(n)) + Cardinality(C(n + 1)) - Cardinality(U(n) \cap C(n + 1))
    <3> HIDE DEF U, C
    <3> QED
      BY <1>1, <1>2, FS_Union
  <2>3. Cardinality(U(n) \cap C(n + 1)) = 0
    BY <2>1, FS_EmptySet
  <2> HIDE DEF U, C
  <2>4. Cardinality(U(n + 1)) = Cardinality(U(n)) + Cardinality(C(n + 1)) - 0
    BY <2>1, <2>2, <2>3, Zenon
  <2>5. Cardinality(U(n)) \in Nat /\ Cardinality(C(n + 1)) \in Nat
    BY <1>1, <1>2
  <2>6. QED
    BY <2>4, <2>5
<1>8. \A n \in 1..m : w[n] = Cardinality(C(n))
  OBVIOUS
<1>9. U(m) = E
  BY <1>5
<1> HIDE DEF C, U
<1> DEFINE S == {n \in Nat : n <= m => g[n] = Cardinality(U(n))}
<1>10. 0 \in S
  BY <1>4, <1>6 DEF AddsUp
<1>11. ASSUME NEW n \in Nat, n \in S PROVE n + 1 \in S
  <2>1. SUFFICES ASSUME n + 1 <= m PROVE g[n + 1] = Cardinality(U(n + 1))
    OBVIOUS
  <2>2. n + 1 \in 1..m /\ (n + 1) - 1 = n /\ g[n] = Cardinality(U(n))
    BY <1>11, <2>1
  <2>3. g[n + 1] = g[n] + w[n + 1]
    BY <1>3, <1>4, <2>2 DEF AddsUp
  <2>4. QED
    BY <1>7, <1>8, <2>2, <2>3
<1>12. \A n \in Nat : n \in S
  <2> HIDE DEF S
  <2> QED
    BY <1>10, <1>11, NatInd
<1>13. g[m] = Cardinality(E)
  BY <1>12, <1>9
<1>14. QED
  BY <1>3, <1>4, <1>13

-----------------------------------------------------------------------------
(* The lock container. *)

LocksOK(L, p) ==
  /\ L \in Seq(Seq(Int)) /\ Len(L) >= 1
  /\ LocksWanted(p) <= Len(L[Len(L)]) /\ Len(L[Len(L)]) <= kMaxNumLocks
Total(L) == Sum(L[Len(L)])
\* Counted, clear's new counters and LocksFor, of the containers L.
CountedIn(L, b, d) == [L EXCEPT ![Len(L)][lock_ind(b) + 1] = @ + d]
Zeroed(L) == [L EXCEPT ![Len(L)] = [l \in DOMAIN @ |-> 0]]
Wider(L, p) ==
  IF Len(L[Len(L)]) >= LocksWanted(p) THEN L
  ELSE Append(L, [l \in 1..LocksWanted(p) |-> IF l <= Len(L[Len(L)]) THEN L[Len(L)][l] ELSE 0])

LEMMA LockCount == kMaxNumLocks \in Nat \ {0}
BY MapAssumption DEF MapAssumption

LEMMA LocksWantedType ==
  ASSUME NEW p \in Nat
  PROVE  /\ LocksWanted(p) \in Nat \ {0} /\ LocksWanted(p) <= kMaxNumLocks
         /\ \A b \in BucketsOf(p) : lock_ind(b) + 1 \in 1..LocksWanted(p)
<1>1. PICK N \in Nat \ {0} : N = hashsize[p]
  BY HashsizeType
<1>2. PICK m \in Nat \ {0} : m = kMaxNumLocks
  BY LockCount
<1>3. LocksWanted(p) = IF N < m THEN N ELSE m
  BY <1>1, <1>2 DEF LocksWanted
<1>4. ASSUME NEW b \in BucketsOf(p) PROVE lock_ind(b) + 1 \in 1..LocksWanted(p)
  <2>1. b \in 0..N - 1 /\ lock_ind(b) = b % m
    BY <1>1, <1>2 DEF BucketsOf, lock_ind
  <2>2. b % m \in 0..m - 1
    BY <2>1, Remainder
  <2>3. b < m => b % m = b
    <3>1. SUFFICES ASSUME b < m PROVE b % m = b
      OBVIOUS
    <3>2. b \in 0..m - 1 /\ b = m * 0 + b
      BY <2>1, <3>1
    <3>3. QED
      BY <3>2, RemainderUnique
  <2>4. QED
    BY <1>3, <2>1, <2>2, <2>3
<1>5. QED
  BY <1>2, <1>3, <1>4

LEMMA Container ==
  ASSUME NEW p, NEW L, LocksOK(L, p)
  PROVE  /\ L \in Seq(Seq(Int)) /\ Len(L) \in Nat /\ Len(L) \in 1..Len(L)
         /\ L[Len(L)] \in Seq(Int)
BY DEF LocksOK

WithCounters(L, w) == [L EXCEPT ![Len(L)] = w]
LEMMA Recounted ==
  ASSUME NEW p, NEW L, LocksOK(L, p), NEW w \in Seq(Int), Len(w) = Len(L[Len(L)])
  PROVE  LocksOK(WithCounters(L, w), p) /\ Total(WithCounters(L, w)) = Sum(w)
<1>1. PICK N, L2 : N \in Nat /\ N = Len(L) /\ N \in 1..N /\ L2 = WithCounters(L, w) /\ L2 = [L EXCEPT ![N] = w]
  BY Container DEF WithCounters
<1>2. L2 \in Seq(Seq(Int)) /\ Len(L2) = N /\ L2[N] = w
  BY <1>1, Container
<1>3. QED
  BY <1>1, <1>2 DEF LocksOK, Total

LEMMA CountedHolds ==
  ASSUME NEW p \in Nat, NEW L, LocksOK(L, p), NEW b \in BucketsOf(p), NEW d \in Int
  PROVE  LocksOK(CountedIn(L, b, d), p) /\ Total(CountedIn(L, b, d)) = Total(L) + d
<1>1. PICK N \in Nat : N = Len(L)
  BY Container
<1>2. PICK c \in Seq(Int) : c = L[N]
  BY <1>1, Container
<1>3. PICK i \in 1..Len(c) : i = lock_ind(b) + 1
  <2>1. LocksWanted(p) \in Nat /\ LocksWanted(p) <= Len(c) /\ Len(c) \in Nat
    BY <1>1, <1>2, LocksWantedType DEF LocksOK
  <2>2. lock_ind(b) + 1 \in 1..LocksWanted(p)
    BY LocksWantedType
  <2>3. QED
    BY <2>1, <2>2
<1>4. PICK w : w = Raised(c, i, d)
  OBVIOUS
<1>5. w \in Seq(Int) /\ Len(w) = Len(c) /\ Sum(w) = Sum(c) + d
  BY <1>4, SumRaised
<1>6. CountedIn(L, b, d) = WithCounters(L, w)
  <2>1. CountedIn(L, b, d) = [L EXCEPT ![N] = [L[N] EXCEPT ![i] = L[N][i] + d]]
    BY <1>1, <1>3 DEF CountedIn
  <2>2. QED
    BY <1>1, <1>2, <1>4, <2>1 DEF WithCounters, Raised
<1>7. QED
  BY <1>1, <1>2, <1>5, <1>6, Recounted DEF Total

LEMMA WiderHolds ==
  ASSUME NEW p \in Nat, NEW L, LocksOK(L, p), NEW q \in Nat
  PROVE  LocksOK(Wider(L, q), q) /\ Total(Wider(L, q)) = Total(L)
<1>1. PICK N \in Nat : N = Len(L) /\ N \in 1..N
  BY Container
<1>2. PICK c \in Seq(Int) : c = L[N]
  BY <1>1, Container
<1>3. PICK m \in Nat : m = LocksWanted(q) /\ m <= kMaxNumLocks
  BY LocksWantedType
<1>4. L \in Seq(Seq(Int)) /\ Len(c) <= kMaxNumLocks /\ Len(c) \in Nat
  BY <1>1, <1>2 DEF LocksOK
<1>5. CASE Len(c) >= m
  <2>1. Wider(L, q) = L
    BY <1>1, <1>2, <1>3, <1>5 DEF Wider
  <2>2. QED
    BY <1>1, <1>2, <1>3, <1>4, <1>5, <2>1 DEF LocksOK
<1>6. CASE ~(Len(c) >= m)
  <2>1. PICK w : w = [l \in 1..m |-> IF l <= Len(c) THEN c[l] ELSE 0]
    OBVIOUS
  <2>2. w \in Seq(Int) /\ Len(w) = m /\ Sum(w) = Sum(c)
    <3>1. m >= Len(c)
      BY <1>4, <1>6
    <3>2. QED
      BY <2>1, <3>1, SumWider
  <2>3. PICK L2 : L2 = Append(L, w)
    OBVIOUS
  <2>4. Wider(L, q) = L2
    BY <1>1, <1>2, <1>3, <1>6, <2>1, <2>3 DEF Wider
  <2>5. L2 \in Seq(Seq(Int)) /\ Len(L2) = N + 1 /\ L2[N + 1] = w
    BY <1>1, <1>4, <2>2, <2>3
  <2>6. LocksOK(L2, q)
    BY <1>3, <2>2, <2>5 DEF LocksOK
  <2>7. Total(L2) = Total(L)
    BY <1>1, <1>2, <2>2, <2>5 DEF Total
  <2>8. QED
    BY <2>4, <2>6, <2>7
<1>7. QED
  BY <1>5, <1>6

\* clear sets every counter to zero.
LEMMA ZeroedHolds ==
  ASSUME NEW p \in Nat, NEW L, LocksOK(L, p)
  PROVE  LocksOK(Zeroed(L), p) /\ Total(Zeroed(L)) = 0
<1>1. PICK N \in Nat : N = Len(L)
  BY Container
<1>2. PICK c \in Seq(Int) : c = L[N]
  BY <1>1, Container
<1>3. PICK w : w = [l \in 1..Len(c) |-> 0]
  OBVIOUS
<1>4. w \in Seq(Int) /\ Len(w) = Len(c) /\ \A l \in 1..Len(w) : w[l] = 0
  <2>1. Len(c) \in Nat /\ w \in [1..Len(c) -> Int]
    BY <1>3
  <2>2. w \in Seq(Int) /\ Len(w) = Len(c)
    BY <2>1, FunctionSeq
  <2>3. QED
    BY <1>3, <2>2
<1>5. Sum(w) = 0
  BY <1>4, SumZeros
<1>6. Zeroed(L) = WithCounters(L, w)
  <2>1. DOMAIN L[Len(L)] = 1..Len(c)
    BY <1>1, <1>2
  <2>2. Zeroed(L) = [L EXCEPT ![Len(L)] = [l \in DOMAIN L[Len(L)] |-> 0]]
    BY DEF Zeroed
  <2>3. QED
    BY <1>3, <2>1, <2>2 DEF WithCounters
<1>7. QED
  BY <1>1, <1>2, <1>4, <1>5, <1>6, Recounted

-----------------------------------------------------------------------------
(* A map: its table and its counters. *)

Sound(T, L) ==
  /\ IsTable(T, Vals) /\ AtHome(T)
  /\ LocksOK(L, T.hp) /\ Total(L) = Cardinality(Elements(T))

\* ValueOf in table T.
ValueIn(T, k) ==
  LET P == {p \in Elements(T) : At(T, p).k = k}
  IN IF P = {} THEN NoValue ELSE At(T, CHOOSE p \in P : TRUE).v
MapOf(T) == [k \in Keys |-> ValueIn(T, k)]

LEMMA ValuePresent ==
  ASSUME NEW T, IsTable(T, Vals), AtHome(T), NEW e \in Stored(T)
  PROVE  e.k \in Keys /\ e.v \in Vals /\ ValueIn(T, e.k) = e.v
<1>1. PICK q \in Elements(T) : e = At(T, q)
  BY DEF Stored
<1>2. e.k \in Keys /\ e.v \in Vals
  BY <1>1, ElementType, ItemType
<1>3. {p \in Elements(T) : At(T, p).k = e.k} = {q}
  BY <1>1 DEF AtHome
<1>4. QED
  BY <1>1, <1>2, <1>3 DEF ValueIn

LEMMA ValueAbsent ==
  ASSUME NEW T, NEW k, \A e \in Stored(T) : e.k # k
  PROVE  ValueIn(T, k) = NoValue
<1>1. {p \in Elements(T) : At(T, p).k = k} = {}
  BY DEF Stored
<1>2. QED
  BY <1>1 DEF ValueIn

LEMMA MapOfType ==
  ASSUME NEW T, IsTable(T, Vals), AtHome(T)
  PROVE  MapOf(T) \in [Keys -> Vals \union {NoValue}]
<1>1. ASSUME NEW k \in Keys PROVE ValueIn(T, k) \in Vals \union {NoValue}
  <2>1. CASE \A e \in Stored(T) : e.k # k
    BY <2>1, ValueAbsent
  <2>2. CASE ~ \A e \in Stored(T) : e.k # k
    <3>1. PICK e \in Stored(T) : e.k = k
      BY <2>2
    <3>2. QED
      BY <3>1, ValuePresent
  <2>3. QED
    BY <2>1, <2>2
<1>2. QED
  BY <1>1 DEF MapOf

LEMMA MapSame ==
  ASSUME NEW T, IsTable(T, Vals), AtHome(T), NEW T2, IsTable(T2, Vals), AtHome(T2),
         Stored(T2) = Stored(T)
  PROVE  MapOf(T2) = MapOf(T)
<1>1. ASSUME NEW k \in Keys PROVE ValueIn(T2, k) = ValueIn(T, k)
  <2>1. CASE \A e \in Stored(T) : e.k # k
    BY <2>1, ValueAbsent
  <2>2. CASE ~ \A e \in Stored(T) : e.k # k
    <3>1. PICK e \in Stored(T) : e.k = k
      BY <2>2
    <3>2. QED
      BY <3>1, ValuePresent
  <2>3. QED
    BY <2>1, <2>2
<1>2. QED
  BY <1>1 DEF MapOf

\* All but the element of key k.
Others(S, k) == {e \in S : e.k # k}

LEMMA MapOthers ==
  ASSUME NEW T, IsTable(T, Vals), AtHome(T), NEW T2, IsTable(T2, Vals), AtHome(T2),
         NEW k, Others(Stored(T2), k) = Others(Stored(T), k), NEW j \in Keys, j # k
  PROVE  MapOf(T2)[j] = MapOf(T)[j]
<1>1. \A e : e.k = j => (e \in Stored(T2) <=> e \in Stored(T))
  BY DEF Others
<1>2. CASE \A e \in Stored(T) : e.k # j
  <2>1. \A e \in Stored(T2) : e.k # j
    BY <1>1, <1>2
  <2>2. QED
    BY <1>2, <2>1, ValueAbsent DEF MapOf
<1>3. CASE ~ \A e \in Stored(T) : e.k # j
  <2>1. PICK e \in Stored(T) : e.k = j
    BY <1>3
  <2>2. e \in Stored(T2)
    BY <1>1, <2>1
  <2>3. QED
    BY <2>1, <2>2, ValuePresent DEF MapOf
<1>4. QED
  BY <1>2, <1>3

\* A key gets a value, or another one.
LEMMA MapSet ==
  ASSUME NEW T, IsTable(T, Vals), AtHome(T), NEW T2, IsTable(T2, Vals), AtHome(T2),
         NEW e, e.k \in Keys, Stored(T2) = Others(Stored(T), e.k) \union {e}
  PROVE  MapOf(T2) = [MapOf(T) EXCEPT ![e.k] = e.v]
<1>1. PICK k \in Keys : k = e.k
  OBVIOUS
<1>2. Others(Stored(T2), k) = Others(Stored(T), k)
  BY <1>1 DEF Others
<1>3. \A j \in Keys : j # k => MapOf(T2)[j] = MapOf(T)[j]
  BY <1>2, MapOthers
<1>4. MapOf(T2)[k] = e.v
  BY <1>1, ValuePresent DEF MapOf
<1>5. QED
  BY <1>1, <1>3, <1>4 DEF MapOf

\* A key loses its value.
LEMMA MapUnset ==
  ASSUME NEW T, IsTable(T, Vals), AtHome(T), NEW T2, IsTable(T2, Vals), AtHome(T2),
         NEW k \in Keys, Stored(T2) = Others(Stored(T), k)
  PROVE  MapOf(T2) = [MapOf(T) EXCEPT ![k] = NoValue]
<1>1. Others(Stored(T2), k) = Others(Stored(T), k)
  BY DEF Others
<1>2. \A j \in Keys : j # k => MapOf(T2)[j] = MapOf(T)[j]
  BY <1>1, MapOthers
<1>3. \A e \in Stored(T2) : e.k # k
  BY DEF Others
<1>4. MapOf(T2)[k] = NoValue
  BY <1>3, ValueAbsent DEF MapOf
<1>5. QED
  BY <1>2, <1>4 DEF MapOf

-----------------------------------------------------------------------------
(* What the operations do to a map, under their locks. *)

KeyCalls == [op : {"apply", "uprase"}, k : Keys, fn : {"keep", "assign", "erase"}, v : Vals]

LEMMA CallTypes ==
  ASSUME NEW c \in Calls
  PROVE  /\ c.op \in {"apply", "uprase"} => c \in KeyCalls
         /\ c.op = "resize" => c.n \in Nat
<1>1. c \in AllCalls
  BY MapAssumption DEF MapAssumption
<1>2. QED
  BY <1>1 DEF AllCalls, KeyCalls

LEMMA KeyAbsent ==
  ASSUME NEW T, NEW L, Sound(T, L), NEW k \in Keys, cuckoo_find(T, k) = {}
  PROVE  MapOf(T)[k] = NoValue
<1>1. \A p \in Elements(T) : At(T, p).k # k
  BY FindMisses DEF Sound
<1>2. \A e \in Stored(T) : e.k # k
  BY <1>1 DEF Stored
<1>3. QED
  BY <1>2, ValueAbsent DEF MapOf

LEMMA KeyPresent ==
  ASSUME NEW T, NEW L, Sound(T, L), NEW p \in Elements(T)
  PROVE  /\ At(T, p).k \in Keys /\ At(T, p).v \in Vals /\ At(T, p).v # NoValue
         /\ MapOf(T)[At(T, p).k] = At(T, p).v
<1>1. At(T, p) \in Stored(T)
  BY DEF Stored
<1>2. NoValue \notin Vals
  BY MapAssumption DEF MapAssumption
<1>3. QED
  BY <1>1, <1>2, ValuePresent DEF MapOf, Sound

\* Visit: the function of a call meets the element of its key.
Visited(c, T, p) ==
  CASE c.fn = "keep" -> T
    [] c.fn = "assign" -> Put(T, p, Elem(c.k, c.v))
    [] c.fn = "erase" -> Put(T, p, Empty)
VisitCount(c, L, p) == IF c.fn = "erase" THEN CountedIn(L, p[1], -1) ELSE L
NewValue(c, old) ==
  CASE c.fn = "keep" -> old [] c.fn = "assign" -> c.v [] c.fn = "erase" -> NoValue

LEMMA VisitHolds ==
  ASSUME NEW T, NEW L, Sound(T, L), NEW c \in KeyCalls,
         NEW p \in Elements(T), At(T, p).k = c.k
  PROVE  /\ Sound(Visited(c, T, p), VisitCount(c, L, p))
         /\ MapOf(Visited(c, T, p)) = [MapOf(T) EXCEPT ![c.k] = NewValue(c, MapOf(T)[c.k])]
<1>1. /\ IsTable(T, Vals) /\ AtHome(T) /\ T.hp \in Nat
      /\ LocksOK(L, T.hp) /\ Total(L) = Cardinality(Elements(T))
  BY DEF Sound, IsTable
<1>2. c.k \in Keys /\ c.v \in Vals
  BY DEF KeyCalls
<1>3. MapOf(T) \in [Keys -> Vals \union {NoValue}]
  BY <1>1, MapOfType
<1>4. \A e \in Stored(T) : e.k = c.k <=> e = At(T, p)
  BY <1>1 DEF Stored, AtHome
<1>5. CASE c.fn = "keep"
  <2>1. Visited(c, T, p) = T /\ VisitCount(c, L, p) = L /\ NewValue(c, MapOf(T)[c.k]) = MapOf(T)[c.k]
    BY <1>5 DEF Visited, VisitCount, NewValue
  <2>2. MapOf(T) = [MapOf(T) EXCEPT ![c.k] = MapOf(T)[c.k]]
    BY <1>3
  <2>3. QED
    BY <2>1, <2>2
<1>6. CASE c.fn = "assign"
  <2>1. PICK e \in Items(Vals) : e = Elem(c.k, c.v) /\ e.k = c.k /\ e.v = c.v
    BY <1>2, ElemType
  <2>2. PICK T2 : T2 = Put(T, p, e)
    OBVIOUS
  <2>3. /\ IsTable(T2, Vals) /\ AtHome(T2) /\ T2.hp = T.hp /\ Elements(T2) = Elements(T)
        /\ Stored(T2) = (Stored(T) \ {At(T, p)}) \union {e}
    BY <1>1, <1>2, <2>1, <2>2, AssignHolds
  <2>4. Visited(c, T, p) = T2 /\ VisitCount(c, L, p) = L /\ NewValue(c, MapOf(T)[c.k]) = c.v
    BY <1>6, <2>1, <2>2 DEF Visited, VisitCount, NewValue
  <2>5. Sound(T2, L)
    BY <1>1, <2>3 DEF Sound
  <2>6. MapOf(T2) = [MapOf(T) EXCEPT ![c.k] = c.v]
    <3>1. Stored(T2) = Others(Stored(T), e.k) \union {e}
      BY <1>4, <2>1, <2>3 DEF Others
    <3>2. QED
      BY <1>1, <1>2, <2>1, <2>3, <3>1, MapSet
  <2>7. QED
    BY <2>4, <2>5, <2>6
<1>7. CASE c.fn = "erase"
  <2>1. PICK T2 : T2 = Put(T, p, Empty)
    OBVIOUS
  <2>2. /\ IsTable(T2, Vals) /\ AtHome(T2) /\ T2.hp = T.hp
        /\ Cardinality(Elements(T2)) = Cardinality(Elements(T)) - 1
        /\ Stored(T2) = Stored(T) \ {At(T, p)}
    BY <1>1, <2>1, EraseHolds
  <2>3. PICK L2 : L2 = CountedIn(L, p[1], -1)
    OBVIOUS
  <2>4. LocksOK(L2, T.hp) /\ Total(L2) = Total(L) + (-1)
    <3>1. p[1] \in BucketsOf(T.hp) /\ -1 \in Int
      BY <1>1, ElementType
    <3>2. QED
      BY <1>1, <2>3, <3>1, CountedHolds
  <2>5. Visited(c, T, p) = T2 /\ VisitCount(c, L, p) = L2 /\ NewValue(c, MapOf(T)[c.k]) = NoValue
    BY <1>7, <2>1, <2>3 DEF Visited, VisitCount, NewValue
  <2>6. Sound(T2, L2)
    <3>1. Cardinality(Elements(T)) \in Nat
      BY <1>1, ElementsFinite
    <3>2. QED
      BY <1>1, <2>2, <2>4, <3>1 DEF Sound
  <2>7. MapOf(T2) = [MapOf(T) EXCEPT ![c.k] = NoValue]
    <3>1. Stored(T2) = Others(Stored(T), c.k)
      BY <1>4, <2>2 DEF Others
    <3>2. QED
      BY <1>1, <1>2, <2>2, <3>1, MapUnset
  <2>8. QED
    BY <2>5, <2>6, <2>7
<1>8. c.fn \in {"keep", "assign", "erase"}
  BY DEF KeyCalls
<1>9. QED
  BY <1>5, <1>6, <1>7, <1>8

\* Add: the call's key was in no bucket, the slot in one of its own is free.
LEMMA AddedHolds ==
  ASSUME NEW T, NEW L, Sound(T, L), NEW c \in KeyCalls, cuckoo_find(T, c.k) = {},
         NEW p \in Positions(T), ~Occupied(T, p), p[1] \in Homes(T.hp, c.k)
  PROVE  /\ Sound(Put(T, p, Elem(c.k, c.v)), CountedIn(L, p[1], 1))
         /\ MapOf(Put(T, p, Elem(c.k, c.v))) = [MapOf(T) EXCEPT ![c.k] = c.v]
<1>1. /\ IsTable(T, Vals) /\ AtHome(T) /\ T.hp \in Nat
      /\ LocksOK(L, T.hp) /\ Total(L) = Cardinality(Elements(T))
  BY DEF Sound, IsTable
<1>2. c.k \in Keys /\ c.v \in Vals
  BY DEF KeyCalls
<1>3. \A q \in Elements(T) : At(T, q).k # c.k
  BY <1>1, <1>2, FindMisses
<1>4. PICK e \in Items(Vals) : e = Elem(c.k, c.v) /\ e.k = c.k /\ e.v = c.v
  BY <1>2, ElemType
<1>5. PICK T2 : T2 = Put(T, p, e)
  OBVIOUS
<1>6. /\ IsTable(T2, Vals) /\ AtHome(T2) /\ T2.hp = T.hp
      /\ Cardinality(Elements(T2)) = Cardinality(Elements(T)) + 1
      /\ Stored(T2) = Stored(T) \union {e}
  BY <1>1, <1>2, <1>3, <1>4, <1>5, AddHolds
<1>7. PICK L2 : L2 = CountedIn(L, p[1], 1)
  OBVIOUS
<1>8. LocksOK(L2, T.hp) /\ Total(L2) = Total(L) + 1
  <2>1. p[1] \in BucketsOf(T.hp) /\ 1 \in Int
    BY <1>1, PositionsAre
  <2>2. QED
    BY <1>1, <1>7, <2>1, CountedHolds
<1>9. Sound(T2, L2)
  BY <1>1, <1>6, <1>8 DEF Sound
<1>10. MapOf(T2) = [MapOf(T) EXCEPT ![c.k] = c.v]
  <2>1. \A d \in Stored(T) : d.k # c.k
    BY <1>3 DEF Stored
  <2>2. Stored(T2) = Others(Stored(T), e.k) \union {e}
    BY <1>4, <1>6, <2>1 DEF Others
  <2>3. QED
    BY <1>1, <1>2, <1>4, <1>6, <2>2, MapSet
<1>11. QED
  BY <1>4, <1>5, <1>7, <1>9, <1>10

LEMMA ClearedHolds ==
  ASSUME NEW T, NEW L, Sound(T, L)
  PROVE  /\ Sound(EmptyTable(T.hp), Zeroed(L))
         /\ MapOf(EmptyTable(T.hp)) = [k \in Keys |-> NoValue]
<1>1. T.hp \in Nat /\ LocksOK(L, T.hp)
  BY DEF Sound, IsTable
<1>2. PICK N : N = EmptyTable(T.hp)
  OBVIOUS
<1>3. IsTable(N, Vals) /\ AtHome(N) /\ N.hp = T.hp /\ Elements(N) = {}
  BY <1>1, <1>2, EmptyTableHolds
<1>4. Sound(N, Zeroed(L))
  BY <1>1, <1>3, ZeroedHolds, FS_EmptySet DEF Sound
<1>5. \A k : ValueIn(N, k) = NoValue
  BY <1>3 DEF ValueIn
<1>6. QED
  BY <1>2, <1>4, <1>5 DEF MapOf

\* Another table of the same elements, the locks grown to its size.
LEMMA ReplacedHolds ==
  ASSUME NEW T, NEW L, Sound(T, L), NEW T2, IsTable(T2, Vals), AtHome(T2), Stored(T2) = Stored(T)
  PROVE  Sound(T2, Wider(L, T2.hp)) /\ MapOf(T2) = MapOf(T)
<1>1. T.hp \in Nat /\ T2.hp \in Nat /\ LocksOK(L, T.hp) /\ IsTable(T, Vals) /\ AtHome(T)
  BY DEF Sound, IsTable
<1>2. Cardinality(Elements(T2)) = Cardinality(Elements(T))
  BY <1>1, StoredCount
<1>3. Total(L) = Cardinality(Elements(T))
  BY DEF Sound
<1>4. QED
  BY <1>1, <1>2, <1>3, WiderHolds, MapSame DEF Sound

-----------------------------------------------------------------------------
(* Cuckoo paths. *)

\* The first m places of a path for key k of a table of hashpower p are known:
\* from one of the key's buckets, each leads on as the item seen there does.
Stops == [bucket : Nat, slot : Slots, hv : Nat]
LeadsOn(path, j, p, k) ==
  /\ path[j].bucket \in BucketsOf(p)
  /\ j = 1 => path[j].bucket \in Homes(p, k)
  /\ j > 1 => path[j].bucket = alt_index(p, partial_key(path[j - 1].hv), path[j - 1].bucket)
PathRight(path, m, p, k) ==
  path \in Seq(Stops) /\ m <= Len(path) /\ \A j \in 1..m : LeadsOn(path, j, p, k)

LEMMA BucketsNat == \A p \in Nat : BucketsOf(p) \subseteq Nat
BY HashsizeType DEF BucketsOf

LEMMA PathStarts ==
  ASSUME NEW s, s.x.code \in Codes, Len(s.x.code) >= 2, NEW p, NEW k
  PROVE  PathRight(Path(s), 0, p, k) /\ Len(Path(s)) >= 1
<1>1. PICK c \in Codes : c = s.x.code /\ Len(c) >= 2
  OBVIOUS
<1>2. PICK m \in Nat : m = Len(c) - 1 /\ m >= 1
  <2>1. Len(c) \in Nat
    BY DEF Codes
  <2>2. Len(c) - 1 \in Nat /\ Len(c) - 1 >= 1
    BY <1>1, <2>1
  <2>3. QED
    BY <2>2
<1>3. PICK path : path = [n \in 1..m |-> [bucket |-> 0, slot |-> c[n + 1], hv |-> 0]]
  OBVIOUS
<1>4. Path(s) = path
  BY <1>1, <1>2, <1>3 DEF Path, depth
<1>5. ASSUME NEW n \in 1..m PROVE c[n + 1] \in Slots
  <2>1. n + 1 \in 2..Len(c)
    BY <1>2
  <2>2. \A i \in 2..Len(c) : c[i] \in Slots
    BY DEF Codes
  <2>3. QED
    BY <2>1, <2>2
<1>6. path \in [1..m -> Stops]
  BY <1>3, <1>5 DEF Stops
<1>7. path \in Seq(Stops) /\ Len(path) = m
  BY <1>6, FunctionSeq
<1>8. QED
  BY <1>2, <1>4, <1>7 DEF PathRight

LEMMA PathGrows ==
  ASSUME NEW T, IsTable(T, Vals), NEW k \in Keys, NEW path, NEW n \in Nat, n \in 1..Len(path),
         PathRight(path, n - 1, T.hp, k), NEW start \in Homes(T.hp, k)
  PROVE  /\ PathRight(SeenAt(T, path, n, PathBucket(T.hp, path, n, start)), n, T.hp, k)
         /\ Len(SeenAt(T, path, n, PathBucket(T.hp, path, n, start))) = Len(path)
<1>1. PICK p \in Nat : p = T.hp
  BY DEF IsTable
<1>2. path \in Seq(Stops) /\ \A j \in 1..n - 1 : LeadsOn(path, j, p, k)
  BY <1>1 DEF PathRight
<1>3. PICK b : b = PathBucket(p, path, n, start)
  OBVIOUS
<1>4. /\ b \in BucketsOf(p) /\ (n = 1 => b \in Homes(p, k))
      /\ (n > 1 => b = alt_index(p, partial_key(path[n - 1].hv), path[n - 1].bucket))
  <2>1. CASE n = 1
    <3>1. b = start
      BY <1>3, <2>1 DEF PathBucket
    <3>2. Homes(p, k) \subseteq BucketsOf(p)
      BY HomeTypes DEF Homes
    <3>3. QED
      BY <1>1, <2>1, <3>1, <3>2
  <2>2. CASE n # 1
    <3>1. b = alt_index(p, partial_key(path[n - 1].hv), path[n - 1].bucket)
      BY <1>3, <2>2 DEF PathBucket
    <3>2. n - 1 \in 1..n - 1 /\ n - 1 \in 1..Len(path)
      BY <1>2, <2>2
    <3>3. path[n - 1].hv \in Nat
      <4>1. path[n - 1] \in Stops
        BY <1>2, <3>2
      <4>2. QED
        BY <4>1 DEF Stops
    <3>4. path[n - 1].bucket \in BucketsOf(p)
      BY <1>2, <3>2 DEF LeadsOn
    <3>5. b \in BucketsOf(p)
      BY <3>1, <3>3, <3>4, PartialKey, AltIndex
    <3>6. QED
      BY <2>2, <3>1, <3>5
  <2>3. QED
    BY <2>1, <2>2
<1>5. PICK e : e = T.slots[b][path[n].slot]
  OBVIOUS
<1>6. PICK hv \in Nat : hv = IF e = Empty THEN 0 ELSE Hash[e.k]
  <2>1. path[n].slot \in Slots
    <3>1. path[n] \in Stops
      BY <1>2
    <3>2. QED
      BY <3>1 DEF Stops
  <2>2. e \in {Empty} \union Items(Vals)
    BY <1>1, <1>4, <1>5, <2>1 DEF IsTable, Slots
  <2>3. e # Empty => Hash[e.k] \in Nat
    <3>1. SUFFICES ASSUME e # Empty PROVE Hash[e.k] \in Nat
      OBVIOUS
    <3>2. e.k \in Keys
      BY <2>2, <3>1, ItemType
    <3>3. QED
      BY <1>1, <3>2, HomeTypes
  <2>4. QED
    BY <2>3
<1>7. PICK stop \in Stops : stop = [bucket |-> b, slot |-> path[n].slot, hv |-> hv]
  <2>1. path[n] \in Stops
    BY <1>2
  <2>2. b \in Nat
    BY <1>4, BucketsNat
  <2>3. QED
    BY <2>1, <2>2 DEF Stops
<1>8. PICK seen : seen = [path EXCEPT ![n] = stop]
  OBVIOUS
<1>9. SeenAt(T, path, n, b) = seen
  <2>1. path[n] \in Stops
    BY <1>2
  <2>2. PICK b0, s0, h0 : path[n] = [bucket |-> b0, slot |-> s0, hv |-> h0]
    BY <2>1 DEF Stops
  <2>3. [[path[n] EXCEPT !.bucket = b] EXCEPT !.hv = hv] = stop
    <3>1. [path[n] EXCEPT !.bucket = b] = [bucket |-> b, slot |-> s0, hv |-> h0]
      BY <2>2
    <3>2. path[n].slot = s0
      BY <2>2
    <3>3. [[bucket |-> b, slot |-> s0, hv |-> h0] EXCEPT !.hv = hv] = [bucket |-> b, slot |-> s0, hv |-> hv]
      OBVIOUS
    <3>4. QED
      BY <1>7, <3>1, <3>2, <3>3
  <2>4. SeenAt(T, path, n, b) = [[path EXCEPT ![n] = [path[n] EXCEPT !.bucket = b]]
                                  EXCEPT ![n] = [[path[n] EXCEPT !.bucket = b] EXCEPT !.hv = hv]]
    BY <1>2, <1>5, <1>6 DEF SeenAt
  <2>5. QED
    BY <1>2, <1>8, <2>3, <2>4
<1>10. /\ seen \in Seq(Stops) /\ Len(seen) = Len(path) /\ seen[n] = stop
       /\ \A j \in 1..n - 1 : seen[j] = path[j]
  BY <1>2, <1>8
<1>11. ASSUME NEW j \in 1..n PROVE LeadsOn(seen, j, p, k)
  <2>1. CASE j = n
    <3>1. n > 1 => n - 1 \in 1..n - 1
      OBVIOUS
    <3>2. QED
      BY <1>4, <1>7, <1>10, <2>1, <3>1 DEF LeadsOn
  <2>2. CASE j # n
    <3>1. j \in 1..n - 1 /\ (j > 1 => j - 1 \in 1..n - 1)
      BY <2>2
    <3>2. QED
      BY <1>2, <1>10, <3>1 DEF LeadsOn
  <2>3. QED
    BY <2>1, <2>2
<1>12. QED
  BY <1>1, <1>3, <1>9, <1>10, <1>11 DEF PathRight

LEMMA PathPlace ==
  ASSUME NEW T, IsTable(T, Vals), NEW k, NEW path, NEW n \in Nat,
         PathRight(path, n, T.hp, k)
  PROVE  \A j \in 1..n :
           Hop(path, j) \in Positions(T) /\ path[j].hv \in Nat
<1> TAKE j \in 1..n
<1>1. j \in 1..Len(path) /\ path \in Seq(Stops)
  BY DEF PathRight
<1>2. path[j] \in Stops /\ path[j].bucket \in BucketsOf(T.hp)
  BY <1>1 DEF PathRight, LeadsOn
<1>3. QED
  BY <1>2, PositionsAre DEF Hop, Stops

\* A hop whose item is still there keeps the map as it was and frees the slot it leaves.
LEMMA HopKeeps ==
  ASSUME NEW T, NEW L, Sound(T, L), NEW k, NEW path, NEW n \in Nat, n > 1,
         PathRight(path, n, T.hp, k), HopValid(T, path, n)
  PROVE  /\ Sound(MoveHop(T, path, n), L) /\ MoveHop(T, path, n).hp = T.hp
         /\ MapOf(MoveHop(T, path, n)) = MapOf(T)
         /\ Hop(path, n - 1) \in Positions(MoveHop(T, path, n))
         /\ ~Occupied(MoveHop(T, path, n), Hop(path, n - 1))
<1>1. IsTable(T, Vals) /\ AtHome(T) /\ Total(L) = Cardinality(Elements(T)) /\ LocksOK(L, T.hp)
  BY DEF Sound
<1>2. n - 1 \in 1..n /\ n \in 1..n
  OBVIOUS
<1>3. PICK i \in 1..n : i = n - 1
  BY <1>2
<1> DEFINE a == Hop(path, n - 1)
           c == Hop(path, n)
<1>4. /\ a \in Positions(T) /\ c \in Positions(T)
      /\ a[1] = path[n - 1].bucket /\ c[1] = path[n].bucket
  <2>1. Hop(path, i) \in Positions(T) /\ Hop(path, n) \in Positions(T)
    BY <1>1, <1>2, PathPlace
  <2>2. a[1] = path[n - 1].bucket /\ c[1] = path[n].bucket
    BY DEF Hop
  <2>3. QED
    BY <1>3, <2>1, <2>2
<1>5. a \in Elements(T) /\ ~Occupied(T, c) /\ Hash[At(T, a).k] = path[n - 1].hv
  BY <1>3, <1>4 DEF HopValid, Elements
<1>6. c[1] = alt_index(T.hp, partial_key(Hash[At(T, a).k]), a[1])
  BY <1>2, <1>4, <1>5 DEF PathRight, LeadsOn
<1>7. PICK T2 : T2 = Put(Put(T, c, At(T, a)), a, Empty)
  OBVIOUS
<1>8. MoveHop(T, path, n) = T2
  BY <1>3, <1>7 DEF MoveHop
<1>9. /\ IsTable(T2, Vals) /\ AtHome(T2) /\ T2.hp = T.hp
      /\ ~Occupied(T2, a) /\ a \in Positions(T2)
      /\ Cardinality(Elements(T2)) = Cardinality(Elements(T))
      /\ Stored(T2) = Stored(T)
  BY <1>1, <1>4, <1>5, <1>6, <1>7, HopHolds
<1>10. Sound(T2, L) /\ MapOf(T2) = MapOf(T)
  BY <1>1, <1>9, MapSame DEF Sound
<1>11. QED
  BY <1>3, <1>8, <1>9, <1>10

-----------------------------------------------------------------------------
(* Tables that are rebuilt in a new map. What the recursive definition of  *)
(* SequentialMap computes cannot be proved here: the theorems assume it of *)
(* the parameter Rebuild, and MCMap evaluates it for small tables.         *)
RebuiltSound == \A p \in Nat, es \in Seq(Items(Vals)) : RebuiltRight(p, es)

\* Elements are moved without a trace, or never moved by what may throw half way.
NothingLost == TrivialTypes \/ (NothrowTypes /\ \A c \in Calls : c.op # "resize")

Reordered(T, order) == [i \in DOMAIN order |-> At(T, order[i])]

LEMMA RebuiltHolds ==
  ASSUME RebuiltSound, NEW T, IsTable(T, Vals), AtHome(T), NEW order \in SetToSeqs(Elements(T)),
         NEW p \in Nat, NEW r, r = Rebuild(EmptyTable(p), Reordered(T, order))
  PROVE  /\ r.end \in {"ok", "livelock"} \union Exceptions
         /\ r.end = "ok" => IsTable(r.T, Vals) /\ AtHome(r.T) /\ Stored(r.T) = Stored(T)
<1>1. PICK N \in Nat : N = Cardinality(Elements(T))
  BY ElementsFinite
<1>2. /\ order \in [1..N -> Elements(T)]
      /\ \A i, j \in 1..N : i # j => order[i] # order[j]
  BY <1>1 DEF SetToSeqs
<1>3. \A q \in Elements(T) : \E i \in 1..N : order[i] = q
  <2>1. order \in Injection(1..N, Elements(T))
    BY <1>2 DEF Injection, IsInjective
  <2>2. IsFiniteSet(Elements(T)) /\ Cardinality(1..N) = Cardinality(Elements(T))
    <3>1. 1 \in Int /\ N \in Int
      OBVIOUS
    <3>2. Cardinality(1..N) = N
      BY <3>1, FS_Interval
    <3>3. QED
      BY <1>1, <3>2, ElementsFinite
  <2>3. order \in Surjection(1..N, Elements(T))
    BY <2>1, <2>2, FS_Injection
  <2>4. QED
    BY <2>3 DEF Surjection
<1>4. PICK es : es = Reordered(T, order)
  OBVIOUS
<1>5. es = [i \in 1..N |-> At(T, order[i])]
  BY <1>2, <1>4 DEF Reordered
<1>6. es \in Seq(Items(Vals)) /\ Len(es) = N
  <2>1. \A i \in 1..N : At(T, order[i]) \in Items(Vals)
    BY <1>2, ElementType
  <2>2. es \in [1..N -> Items(Vals)]
    BY <1>5, <2>1
  <2>3. QED
    BY <2>2, FunctionSeq
<1>7. Distinct(es)
  BY <1>2, <1>5, <1>6 DEF Distinct, AtHome
<1>8. {es[i] : i \in 1..Len(es)} = Stored(T)
  BY <1>2, <1>3, <1>5, <1>6 DEF Stored
<1>9. QED
  BY <1>4, <1>6, <1>7, <1>8 DEF RebuiltSound, RebuiltRight

LEMMA AbandonedSame ==
  ASSUME TrivialTypes, NEW T, IsTable(T, Vals), NEW P
  PROVE  Abandoned(T, P) = T
<1>1. PICK f : f = T.slots
  OBVIOUS
<1>2. f \in [BucketsOf(T.hp) -> [Slots -> {Empty} \union Items(Vals)]] /\ T = [hp |-> T.hp, slots |-> f]
  BY <1>1 DEF IsTable, Slots
<1>3. [b \in DOMAIN f |-> [s \in DOMAIN f[b] |-> IF <<b, s>> \in P THEN f[b][s] ELSE f[b][s]]] = f
  BY <1>2
<1>4. QED
  BY <1>1, <1>2, <1>3 DEF Abandoned, MovedFrom

-----------------------------------------------------------------------------
(* What a thread knows at each place of its call. *)

Fields(l) ==
  l = [pc |-> l.pc, call |-> l.call, answer |-> l.answer, hp |-> l.hp, i1 |-> l.i1, i2 |-> l.i2,
       s |-> l.s, path |-> l.path, n |-> l.n, sum |-> l.sum, left |-> l.left]

OpOf(pc) ==
  CASE pc \in {"uprase", "search", "path", "move", "double"} -> "uprase"
    [] pc \in {"resize", "expand"} -> "resize"
    [] pc \in {"size", "sum"} -> "size"
    [] pc \in {"limit", "store"} -> "limit"
    [] OTHER -> pc
CallPCs == {"apply", "uprase", "search", "path", "move", "double", "resize", "expand",
            "size", "sum", "limit", "store", "clear"}

\* The search and the path belong to the key and to the hashpower that was read.
OnItsWay(l) ==
  /\ l.hp \in Nat /\ l.i1 = I1(l.hp, l.call.k) /\ l.i2 = I2(l.hp, l.call.k)
  /\ l.pc = "search" => IsSearch(l.s, l.hp)
  /\ l.pc \in {"path", "move"} => l.n \in 1..Len(l.path)
  /\ l.pc = "path" => PathRight(l.path, l.n - 1, l.hp, l.call.k)
  /\ l.pc = "move" => PathRight(l.path, l.n, l.hp, l.call.k)

LocalOK(l) ==
  /\ Fields(l)
  /\ \/ l.pc = "idle" /\ l.call = NoCall /\ l.answer = NoAnswer
     \/ l.pc = "done" /\ l.call \in Calls /\ l.answer # NoAnswer
     \/ l.pc = "hung" /\ l.call \in Calls
     \/ l.pc \in CallPCs /\ l.call \in Calls /\ l.call.op = OpOf(l.pc) /\ l.answer = NoAnswer
  /\ l.pc = "double" => l.hp \in Nat
  /\ l.pc \in {"search", "path", "move"} => OnItsWay(l)

Inv ==
  /\ Sound(tbl, all_locks)
  /\ loc = [t \in Threads |-> loc[t]] /\ \A t \in Threads : LocalOK(loc[t])

\* What callers see of a step of one thread: its call and its answer before and
\* after, the map before and after.
Happens(c, m, a, m2) ==
  \/ /\ c.op \in {"apply", "uprase"} /\ m[c.k] # NoValue
     /\ m2 = [m EXCEPT ![c.k] = NewValue(c, m[c.k])] /\ a = Answer("found", m[c.k])
  \/ c.op = "apply" /\ m[c.k] = NoValue /\ m2 = m /\ a = Answer("absent", NoValue)
  \/ /\ c.op = "uprase" /\ m[c.k] = NoValue
     /\ m2 = [m EXCEPT ![c.k] = c.v] /\ a = Answer("inserted", NoValue)
  \/ c.op \in {"uprase", "resize"} /\ m2 = m /\ \E e \in Exceptions : a = Answer(e, NoValue)
  \/ c.op = "resize" /\ m2 = m /\ \E r \in {"resized", "unchanged"} : a = Answer(r, NoValue)
  \/ c.op = "clear" /\ m2 = [k \in Keys |-> NoValue] /\ a = Answer("cleared", NoValue)
  \/ c.op \in {"size", "limit"} /\ m2 = m /\ \E n : a = Number(n)
Seen(l, m, l2, m2) ==
  \/ l2.call = l.call /\ l2.answer = l.answer /\ m2 = m
  \/ l.call = NoCall /\ l2.call \in Calls /\ l2.answer = l.answer /\ m2 = m
  \/ l.answer # NoAnswer /\ l2.call = NoCall /\ l2.answer = NoAnswer /\ m2 = m
  \/ /\ l.call # NoCall /\ l.answer = NoAnswer /\ l2.call = l.call
     /\ Happens(l.call, m, l2.answer, m2)

Good(t) ==
  \E l2 : /\ loc' = [loc EXCEPT ![t] = l2] /\ LocalOK(l2)
          /\ Sound(tbl', all_locks') /\ Seen(loc[t], MapOf(tbl), l2, MapOf(tbl'))

LEMMA CallNotNone == ASSUME NEW c \in Calls PROVE c # NoCall
<1>1. c \in AllCalls
  BY MapAssumption DEF MapAssumption
<1>2. c.op # "none"
  BY <1>1 DEF AllCalls
<1>3. QED
  BY <1>2 DEF NoCall

LEMMA Answers ==
  /\ \A r, v : r # "none" => Answer(r, v) # NoAnswer
  /\ \A n : Number(n) # NoAnswer
<1>1. \A r, v : Answer(r, v).r = r
  BY DEF Answer
<1>2. \A n : Number(n).r = "number"
  BY DEF Number
<1>3. NoAnswer.r = "none"
  BY DEF NoAnswer
<1>4. QED
  BY <1>1, <1>2, <1>3

\* The local variables of a call that is done, and of one that starts.
Done(l, a) == [Idle EXCEPT !.pc = "done", !.call = l.call, !.answer = a, !.left = l.left]
LEMMA DoneOK ==
  ASSUME NEW l, l.call \in Calls, NEW a, a # NoAnswer
  PROVE  LocalOK(Done(l, a)) /\ Done(l, a).call = l.call /\ Done(l, a).answer = a
<1>1. PICK m : m = Done(l, a)
  OBVIOUS
<1>2. m.pc = "done" /\ m.call = l.call /\ m.answer = a /\ Fields(m)
  BY <1>1 DEF Done, Idle, Fields
<1>3. QED
  BY <1>1, <1>2 DEF LocalOK

Started(pc, c, left) == [Idle EXCEPT !.pc = pc, !.call = c, !.left = left]
LEMMA StartedOK ==
  ASSUME NEW c \in Calls, NEW left
  PROVE  /\ LocalOK(Started(c.op, c, left)) /\ Started(c.op, c, left).call = c
         /\ Started(c.op, c, left).answer = NoAnswer
<1>1. PICK m : m = Started(c.op, c, left)
  OBVIOUS
<1>2. m.pc = c.op /\ m.call = c /\ m.answer = NoAnswer /\ Fields(m)
  BY <1>1 DEF Started, Idle, Fields
<1>3. c.op \in {"apply", "uprase", "resize", "limit", "clear", "size"}
  <2>1. c \in AllCalls
    BY MapAssumption DEF MapAssumption
  <2>2. QED
    BY <2>1 DEF AllCalls
<1>4. m.pc \in CallPCs /\ m.call.op = OpOf(m.pc)
  BY <1>2, <1>3 DEF CallPCs, OpOf
<1>5. m.pc \notin {"search", "path", "move", "double"}
  BY <1>2, <1>3
<1>6. QED
  BY <1>1, <1>2, <1>4, <1>5 DEF LocalOK

\* A call that is under way.
LEMMA UnderWay ==
  ASSUME NEW l, LocalOK(l), l.pc \in CallPCs
  PROVE  l.call \in Calls /\ l.call.op = OpOf(l.pc) /\ l.answer = NoAnswer /\ l.call # NoCall
<1>1. l.pc \notin {"idle", "done", "hung"}
  BY DEF CallPCs
<1>2. QED
  BY <1>1, CallNotNone DEF LocalOK

\* A step that ends a call.
LEMMA Ends ==
  ASSUME Inv, NEW t \in Threads, loc[t].pc \in CallPCs, NEW a, a # NoAnswer, Reply(t, a),
         NEW T2, T2 = tbl', NEW L2, L2 = all_locks', Sound(T2, L2),
         Happens(loc[t].call, MapOf(tbl), a, MapOf(T2))
  PROVE  Good(t)
<1>1. PICK l, m : l = loc[t] /\ m = Done(l, a)
  OBVIOUS
<1>2. LocalOK(l)
  BY <1>1 DEF Inv
<1>3. l.call \in Calls /\ l.answer = NoAnswer /\ l.call # NoCall
  BY <1>1, <1>2, UnderWay
<1>4. loc' = [loc EXCEPT ![t] = m]
  BY <1>1 DEF Reply, Go, Done
<1>5. LocalOK(m) /\ m.call = l.call /\ m.answer = a
  BY <1>1, <1>3, DoneOK, Answers
<1>6. Seen(l, MapOf(tbl), m, MapOf(T2))
  BY <1>1, <1>3, <1>5 DEF Seen
<1>7. QED
  BY <1>1, <1>4, <1>5, <1>6 DEF Good

\* A step that callers do not see.
LEMMA Hidden ==
  ASSUME Inv, NEW t \in Threads, NEW l2, Go(t, l2), LocalOK(l2),
         l2.call = loc[t].call, l2.answer = loc[t].answer,
         NEW T2, T2 = tbl', NEW L2, L2 = all_locks', Sound(T2, L2), MapOf(T2) = MapOf(tbl)
  PROVE  Good(t)
<1>1. Seen(loc[t], MapOf(tbl), l2, MapOf(T2))
  BY DEF Seen
<1>2. QED
  BY <1>1 DEF Good, Go

-----------------------------------------------------------------------------
(* One lemma per action: it keeps the map sound, leaves the thread in good *)
(* order, and is a step its callers may see.                               *)

LEMMA Unmoved ==
  ASSUME Inv, UNCHANGED <<tbl, all_locks>>
  PROVE  \E T2, L2 : T2 = tbl' /\ L2 = all_locks' /\ Sound(T2, L2) /\ T2 = tbl
BY DEF Inv

LEMMA BeginGood == ASSUME Inv, NEW t \in Threads, Begin(t) PROVE Good(t)
<1>1. PICK c \in Calls : Go(t, [Idle EXCEPT !.pc = c.op, !.call = c, !.left = loc[t].left - 1])
  BY DEF Begin
<1>2. PICK l, left, m : l = loc[t] /\ left = l.left - 1 /\ m = Started(c.op, c, left)
  OBVIOUS
<1>3. loc' = [loc EXCEPT ![t] = m]
  BY <1>1, <1>2 DEF Go, Started
<1>4. LocalOK(m) /\ m.call = c /\ m.answer = NoAnswer
  BY <1>2, StartedOK
<1>5. l.call = NoCall /\ l.answer = NoAnswer
  <2>1. LocalOK(l) /\ l.pc = "idle"
    BY <1>2 DEF Inv, Begin
  <2>2. QED
    BY <2>1 DEF LocalOK, CallPCs
<1>6. PICK T2, L2 : T2 = tbl' /\ L2 = all_locks' /\ Sound(T2, L2) /\ T2 = tbl
  BY Unmoved DEF Begin
<1>7. Seen(l, MapOf(tbl), m, MapOf(T2))
  BY <1>4, <1>5, <1>6 DEF Seen
<1>8. QED
  BY <1>2, <1>3, <1>4, <1>6, <1>7 DEF Good

LEMMA ReturnGood == ASSUME Inv, NEW t \in Threads, Return(t) PROVE Good(t)
<1>1. PICK l, m : l = loc[t] /\ m = [Idle EXCEPT !.left = l.left]
  OBVIOUS
<1>2. loc' = [loc EXCEPT ![t] = m]
  BY <1>1 DEF Return, Go
<1>3. m.pc = "idle" /\ m.call = NoCall /\ m.answer = NoAnswer /\ Fields(m)
  BY <1>1 DEF Idle, Fields
<1>4. LocalOK(m)
  BY <1>3 DEF LocalOK
<1>5. l.answer # NoAnswer
  <2>1. LocalOK(l) /\ l.pc = "done"
    BY <1>1 DEF Inv, Return
  <2>2. QED
    BY <2>1 DEF LocalOK, CallPCs
<1>6. PICK T2, L2 : T2 = tbl' /\ L2 = all_locks' /\ Sound(T2, L2) /\ T2 = tbl
  BY Unmoved DEF Return
<1>7. Seen(l, MapOf(tbl), m, MapOf(T2))
  BY <1>3, <1>5, <1>6 DEF Seen
<1>8. QED
  BY <1>1, <1>2, <1>4, <1>6, <1>7 DEF Good

\* Visit and Add, in the table T the thread has by then.
LEMMA VisitGood ==
  ASSUME Inv, NEW t \in Threads, loc[t].pc \in CallPCs, loc[t].call \in KeyCalls,
         NEW T, Sound(T, all_locks), MapOf(T) = MapOf(tbl),
         NEW p \in cuckoo_find(T, loc[t].call.k), Visit(t, T, p)
  PROVE  Good(t)
<1>1. PICK c, L, m : c = loc[t].call /\ L = all_locks /\ m = MapOf(T)
  OBVIOUS
<1>2. c \in KeyCalls /\ c.k \in Keys
  BY <1>1 DEF KeyCalls
<1>3. p \in Elements(T) /\ At(T, p).k = c.k
  BY <1>1, <1>2, FindTypes DEF Sound
<1>4. PICK T2, L2 : T2 = tbl' /\ L2 = all_locks'
  OBVIOUS
<1>5. T2 = Visited(c, T, p)
  BY <1>1, <1>4 DEF Visit, Visited
<1>6. L2 = VisitCount(c, L, p)
  BY <1>1, <1>4 DEF Visit, VisitCount, Counted, CountedIn, Current
<1>7. Sound(T2, L2) /\ MapOf(T2) = [m EXCEPT ![c.k] = NewValue(c, m[c.k])]
  BY <1>1, <1>2, <1>3, <1>5, <1>6, VisitHolds
<1>8. m[c.k] = At(T, p).v /\ m[c.k] # NoValue
  BY <1>1, <1>3, KeyPresent
<1>9. PICK a : a = Answer("found", m[c.k]) /\ a # NoAnswer
  BY Answers
<1>10. Reply(t, a)
  BY <1>8, <1>9 DEF Visit, Answered
<1>11. c.op \in {"apply", "uprase"}
  BY <1>2 DEF KeyCalls
<1>12. Happens(c, m, a, MapOf(T2))
  BY <1>7, <1>8, <1>9, <1>11 DEF Happens
<1>13. Happens(loc[t].call, MapOf(tbl), a, MapOf(T2))
  BY <1>1, <1>12
<1>14. QED
  BY <1>4, <1>7, <1>9, <1>10, <1>13, Ends

LEMMA AddGood ==
  ASSUME Inv, NEW t \in Threads, loc[t].pc \in CallPCs,
         loc[t].call \in KeyCalls, loc[t].call.op = "uprase",
         NEW T, Sound(T, all_locks), MapOf(T) = MapOf(tbl), cuckoo_find(T, loc[t].call.k) = {},
         NEW p \in Positions(T), ~Occupied(T, p), p[1] \in Homes(T.hp, loc[t].call.k),
         Add(t, T, p)
  PROVE  Good(t)
<1>1. PICK c, L, m : c = loc[t].call /\ L = all_locks /\ m = MapOf(T)
  OBVIOUS
<1>2. c \in KeyCalls /\ c.k \in Keys
  BY <1>1 DEF KeyCalls
<1>3. PICK T2, L2 : T2 = tbl' /\ L2 = all_locks'
  OBVIOUS
<1>4. T2 = Put(T, p, Elem(c.k, c.v)) /\ L2 = CountedIn(L, p[1], 1)
  BY <1>1, <1>3 DEF Add, Counted, CountedIn, Current
<1>5. Sound(T2, L2) /\ MapOf(T2) = [m EXCEPT ![c.k] = c.v]
  BY <1>1, <1>2, <1>4, AddedHolds
<1>6. m[c.k] = NoValue
  BY <1>1, <1>2, KeyAbsent
<1>7. PICK a : a = Answer("inserted", NoValue) /\ a # NoAnswer
  BY Answers
<1>8. Reply(t, a)
  BY <1>7 DEF Add, Answered
<1>9. Happens(c, m, a, MapOf(T2))
  BY <1>1, <1>5, <1>6, <1>7 DEF Happens
<1>10. Happens(loc[t].call, MapOf(tbl), a, MapOf(T2))
  BY <1>1, <1>9
<1>11. QED
  BY <1>3, <1>5, <1>7, <1>8, <1>10, Ends

\* A call of a key.
LEMMA OfKey ==
  ASSUME Inv, NEW t \in Threads, loc[t].pc \in {"apply", "uprase", "search", "path", "move"}
  PROVE  /\ loc[t].pc \in CallPCs /\ LocalOK(loc[t])
         /\ loc[t].call \in KeyCalls /\ loc[t].call.k \in Keys
         /\ loc[t].call.op = IF loc[t].pc = "apply" THEN "apply" ELSE "uprase"
<1>1. PICK l : l = loc[t]
  OBVIOUS
<1>2. LocalOK(l) /\ l.pc \in CallPCs
  BY <1>1 DEF Inv, CallPCs
<1>3. l.call \in Calls /\ l.call.op = OpOf(l.pc)
  BY <1>2, UnderWay
<1>4. OpOf(l.pc) = IF l.pc = "apply" THEN "apply" ELSE "uprase"
  BY <1>1 DEF OpOf
<1>5. l.call \in KeyCalls
  BY <1>3, <1>4, CallTypes
<1>6. QED
  BY <1>1, <1>2, <1>3, <1>4, <1>5 DEF KeyCalls

LEMMA ApplyGood == ASSUME Inv, NEW t \in Threads, Apply(t) PROVE Good(t)
<1>1. loc[t].pc = "apply"
  BY DEF Apply
<1>2. PICK T, L : T = tbl /\ L = all_locks /\ Sound(T, L)
  BY DEF Inv
<1>3. PICK c : c = loc[t].call /\ c \in KeyCalls /\ c.k \in Keys /\ c.op = "apply"
  BY <1>1, OfKey
<1>4. loc[t].pc \in CallPCs
  BY <1>1, OfKey
<1>5. CASE \E p \in cuckoo_find(tbl, loc[t].call.k) : Visit(t, tbl, p)
  <2>1. PICK p \in cuckoo_find(T, c.k) : Visit(t, T, p)
    BY <1>2, <1>3, <1>5 DEF Visit
  <2>2. QED
    BY <1>2, <1>3, <1>4, <2>1, VisitGood
<1>6. CASE /\ cuckoo_find(tbl, loc[t].call.k) = {} /\ Answered(t, "absent", NoValue)
           /\ UNCHANGED <<tbl, all_locks>>
  <2>1. PICK a : a = Answer("absent", NoValue) /\ a # NoAnswer
    BY Answers
  <2>2. Reply(t, a)
    BY <1>6, <2>1 DEF Answered
  <2>3. PICK T2, L2 : T2 = tbl' /\ L2 = all_locks' /\ Sound(T2, L2) /\ T2 = tbl
    BY <1>6, Unmoved
  <2>4. MapOf(T)[c.k] = NoValue
    BY <1>2, <1>3, <1>6, KeyAbsent
  <2>5. Happens(loc[t].call, MapOf(tbl), a, MapOf(T2))
    BY <1>2, <1>3, <2>1, <2>3, <2>4 DEF Happens
  <2>6. QED
    BY <1>4, <2>1, <2>2, <2>3, <2>5, Ends
<1>7. QED
  BY <1>5, <1>6 DEF Apply

\* The search starts, from both buckets of the key at hashpower p.
Searching(l, p) ==
  [l EXCEPT !.pc = "search", !.hp = p,
            !.i1 = I1(p, l.call.k), !.i2 = I2(p, l.call.k),
            !.s = StartSearch(I1(p, l.call.k), I2(p, l.call.k))]
LEMMA SearchingOK ==
  ASSUME NEW l, LocalOK(l), l.pc \in CallPCs, l.call.op = "uprase", l.call.k \in Keys, NEW p \in Nat
  PROVE  /\ LocalOK(Searching(l, p)) /\ Searching(l, p).call = l.call
         /\ Searching(l, p).answer = l.answer
<1>1. PICK m : m = Searching(l, p)
  OBVIOUS
<1>2. Fields(l) /\ l.call \in Calls /\ l.answer = NoAnswer
  BY UnderWay DEF LocalOK
<1>3. PICK i1 \in BucketsOf(p), i2 \in BucketsOf(p) : i1 = I1(p, l.call.k) /\ i2 = I2(p, l.call.k)
  BY HomeTypes
<1>4. /\ m.pc = "search" /\ m.hp = p /\ m.i1 = i1 /\ m.i2 = i2 /\ m.s = StartSearch(i1, i2)
      /\ m.call = l.call /\ m.answer = l.answer /\ Fields(m)
  BY <1>1, <1>2, <1>3 DEF Searching, Fields
<1>5. IsSearch(m.s, p)
  BY <1>3, <1>4, StartTypes
<1>6. OnItsWay(m)
  BY <1>3, <1>4, <1>5 DEF OnItsWay
<1>7. m.pc \in CallPCs /\ OpOf(m.pc) = "uprase"
  BY <1>4 DEF CallPCs, OpOf
<1>8. QED
  BY <1>1, <1>2, <1>4, <1>6, <1>7 DEF LocalOK

LEMMA InsertGood == ASSUME Inv, NEW t \in Threads, cuckoo_insert(t) PROVE Good(t)
<1>1. loc[t].pc = "uprase"
  BY DEF cuckoo_insert
<1>2. PICK T, L : T = tbl /\ L = all_locks /\ Sound(T, L)
  BY DEF Inv
<1>3. PICK c : c = loc[t].call /\ c \in KeyCalls /\ c.k \in Keys /\ c.op = "uprase"
  BY <1>1, OfKey
<1>4. loc[t].pc \in CallPCs
  BY <1>1, OfKey
<1>5. CASE \E p \in cuckoo_find(tbl, loc[t].call.k) : Visit(t, tbl, p)
  <2>1. PICK p \in cuckoo_find(T, c.k) : Visit(t, T, p)
    BY <1>2, <1>3, <1>5 DEF Visit
  <2>2. QED
    BY <1>2, <1>3, <1>4, <2>1, VisitGood
<1>6. CASE /\ cuckoo_find(tbl, loc[t].call.k) = {}
           /\ \E p \in FreeSlot(tbl, loc[t].call.k) : Add(t, tbl, p)
  <2>1. cuckoo_find(T, c.k) = {} /\ \E p \in FreeSlot(T, c.k) : Add(t, T, p)
    BY <1>2, <1>3, <1>6 DEF Add
  <2>2. PICK p \in FreeSlot(T, c.k) : Add(t, T, p)
    BY <2>1
  <2>3. p \in Positions(T) /\ ~Occupied(T, p) /\ p[1] \in Homes(T.hp, c.k)
    BY <1>2, <1>3, FreeSlotTypes DEF Sound
  <2>4. QED
    BY <1>2, <1>3, <1>4, <2>1, <2>2, <2>3, AddGood
<1>7. CASE /\ Go(t, [loc[t] EXCEPT !.pc = "search", !.hp = tbl.hp,
                       !.i1 = I1(tbl.hp, loc[t].call.k), !.i2 = I2(tbl.hp, loc[t].call.k),
                       !.s = StartSearch(I1(tbl.hp, loc[t].call.k), I2(tbl.hp, loc[t].call.k))])
           /\ UNCHANGED <<tbl, all_locks>>
  <2>1. PICK l, p : l = loc[t] /\ p = T.hp /\ p \in Nat /\ LocalOK(l) /\ l.pc \in CallPCs
    BY <1>1, <1>2, OfKey DEF Sound, IsTable
  <2>2. PICK m : m = Searching(l, p)
    OBVIOUS
  <2>3. Go(t, m)
    BY <1>2, <1>7, <2>1, <2>2 DEF Searching
  <2>4. LocalOK(m) /\ m.call = l.call /\ m.answer = l.answer
    BY <1>3, <2>1, <2>2, SearchingOK
  <2>5. PICK T2, L2 : T2 = tbl' /\ L2 = all_locks' /\ Sound(T2, L2) /\ T2 = tbl
    BY <1>7, Unmoved
  <2>6. QED
    BY <2>1, <2>3, <2>4, <2>5, Hidden
<1>8. QED
  BY <1>5, <1>6, <1>7 DEF cuckoo_insert

\* Back to the locks of the key's buckets.
Retry(l) == [Idle EXCEPT !.pc = "uprase", !.call = l.call, !.left = l.left]
LEMMA RetryOK ==
  ASSUME NEW l, LocalOK(l), l.pc \in CallPCs, l.call.op = "uprase"
  PROVE  LocalOK(Retry(l)) /\ Retry(l).call = l.call /\ Retry(l).answer = l.answer
<1>1. PICK m : m = Retry(l)
  OBVIOUS
<1>2. l.call \in Calls /\ l.answer = NoAnswer
  BY UnderWay
<1>3. m.pc = "uprase" /\ m.call = l.call /\ m.answer = NoAnswer /\ Fields(m)
  BY <1>1 DEF Retry, Idle, Fields
<1>4. m.pc \in CallPCs /\ OpOf(m.pc) = "uprase"
  BY <1>3 DEF CallPCs, OpOf
<1>5. QED
  BY <1>1, <1>2, <1>3, <1>4 DEF LocalOK

\* A step of an insertion that leaves the map alone.
LEMMA Unseen ==
  ASSUME Inv, NEW t \in Threads, NEW l, l = loc[t], NEW m, Go(t, m), LocalOK(m),
         m.call = l.call, m.answer = l.answer, UNCHANGED <<tbl, all_locks>>
  PROVE  Good(t)
<1>1. PICK T2, L2 : T2 = tbl' /\ L2 = all_locks' /\ Sound(T2, L2) /\ T2 = tbl
  BY Unmoved
<1>2. QED
  BY <1>1, Hidden

LEMMA RetryGood ==
  ASSUME Inv, NEW t \in Threads, loc[t].pc \in CallPCs, loc[t].call.op = "uprase",
         Go(t, Again(t)), UNCHANGED <<tbl, all_locks>>
  PROVE  Good(t)
<1>1. PICK l, m : l = loc[t] /\ m = Retry(l) /\ LocalOK(l)
  BY DEF Inv
<1>2. Go(t, m)
  BY <1>1 DEF Again, Retry
<1>3. LocalOK(m) /\ m.call = l.call /\ m.answer = l.answer
  BY <1>1, RetryOK
<1>4. QED
  BY <1>1, <1>2, <1>3, Unseen

\* What an insertion goes on with.
LEMMA SearchOnOK ==
  ASSUME NEW l, LocalOK(l), l.pc = "search", NEW s, IsSearch(s, l.hp),
         NEW m, m = [l EXCEPT !.s = s]
  PROVE  LocalOK(m) /\ m.call = l.call /\ m.answer = l.answer
<1>1. Fields(l) /\ OnItsWay(l) /\ l.pc \in CallPCs
  BY DEF LocalOK, CallPCs
<1>2. l.call \in Calls /\ l.call.op = OpOf(l.pc) /\ l.answer = NoAnswer
  BY <1>1, UnderWay
<1>3. /\ m.pc = "search" /\ m.hp = l.hp /\ m.i1 = l.i1 /\ m.i2 = l.i2 /\ m.s = s
      /\ m.call = l.call /\ m.answer = l.answer /\ Fields(m)
  BY <1>1 DEF Fields
<1>4. OnItsWay(m)
  BY <1>1, <1>3 DEF OnItsWay
<1>5. QED
  BY <1>1, <1>2, <1>3, <1>4 DEF LocalOK

OnPath(l, s, path, n) == [l EXCEPT !.pc = "path", !.s = s, !.path = path, !.n = n]
LEMMA PathOK ==
  ASSUME NEW l, LocalOK(l), l.pc \in {"search", "path"}, NEW s, NEW path, NEW n,
         n \in 1..Len(path), PathRight(path, n - 1, l.hp, l.call.k)
  PROVE  /\ LocalOK(OnPath(l, s, path, n)) /\ OnPath(l, s, path, n).call = l.call
         /\ OnPath(l, s, path, n).answer = l.answer
<1>0. PICK m : m = OnPath(l, s, path, n) /\ m = [l EXCEPT !.pc = "path", !.s = s, !.path = path, !.n = n]
  BY DEF OnPath
<1>1. Fields(l) /\ OnItsWay(l) /\ l.pc \in CallPCs /\ OpOf(l.pc) = "uprase"
  BY DEF LocalOK, CallPCs, OpOf
<1>2. l.call \in Calls /\ l.call.op = OpOf(l.pc) /\ l.answer = NoAnswer
  BY <1>1, UnderWay
<1>3. /\ m.pc = "path" /\ m.hp = l.hp /\ m.i1 = l.i1 /\ m.i2 = l.i2 /\ m.path = path /\ m.n = n
      /\ m.call = l.call /\ m.answer = l.answer /\ Fields(m)
  BY <1>0, <1>1 DEF Fields
<1>4. OnItsWay(m)
  BY <1>1, <1>3 DEF OnItsWay
<1>5. m.pc \in CallPCs /\ OpOf(m.pc) = "uprase"
  BY <1>3 DEF CallPCs, OpOf
<1>6. QED
  BY <1>0, <1>1, <1>2, <1>3, <1>4, <1>5 DEF LocalOK

Moving(l, s, path, n) == [l EXCEPT !.pc = "move", !.path = path, !.s = s, !.n = n]
LEMMA MoveOK ==
  ASSUME NEW l, LocalOK(l), l.pc \in {"path", "move"}, NEW s, NEW path, NEW n,
         n \in 1..Len(path), PathRight(path, n, l.hp, l.call.k)
  PROVE  /\ LocalOK(Moving(l, s, path, n)) /\ Moving(l, s, path, n).call = l.call
         /\ Moving(l, s, path, n).answer = l.answer
<1>0. PICK m : m = Moving(l, s, path, n) /\ m = [l EXCEPT !.pc = "move", !.path = path, !.s = s, !.n = n]
  BY DEF Moving
<1>1. Fields(l) /\ OnItsWay(l) /\ l.pc \in CallPCs /\ OpOf(l.pc) = "uprase"
  BY DEF LocalOK, CallPCs, OpOf
<1>2. l.call \in Calls /\ l.call.op = OpOf(l.pc) /\ l.answer = NoAnswer
  BY <1>1, UnderWay
<1>3. /\ m.pc = "move" /\ m.hp = l.hp /\ m.i1 = l.i1 /\ m.i2 = l.i2 /\ m.path = path /\ m.n = n
      /\ m.call = l.call /\ m.answer = l.answer /\ Fields(m)
  BY <1>0, <1>1 DEF Fields
<1>4. OnItsWay(m)
  BY <1>1, <1>3 DEF OnItsWay
<1>5. m.pc \in CallPCs /\ OpOf(m.pc) = "uprase"
  BY <1>3 DEF CallPCs, OpOf
<1>6. QED
  BY <1>0, <1>1, <1>2, <1>3, <1>4, <1>5 DEF LocalOK

\* The search has failed: the table is to be doubled.
Doubling(l) == [Retry(l) EXCEPT !.pc = "double", !.hp = l.hp]
LEMMA DoublingOK ==
  ASSUME NEW l, LocalOK(l), l.pc \in CallPCs, l.call.op = "uprase", l.hp \in Nat
  PROVE  LocalOK(Doubling(l)) /\ Doubling(l).call = l.call /\ Doubling(l).answer = l.answer
<1>1. PICK m : m = Doubling(l)
  OBVIOUS
<1>2. l.call \in Calls /\ l.answer = NoAnswer
  BY UnderWay
<1>3. m.pc = "double" /\ m.call = l.call /\ m.answer = NoAnswer /\ m.hp = l.hp /\ Fields(m)
  BY <1>1 DEF Doubling, Retry, Idle, Fields
<1>4. m.pc \in CallPCs /\ OpOf(m.pc) = "uprase"
  BY <1>3 DEF CallPCs, OpOf
<1>5. QED
  BY <1>1, <1>2, <1>3, <1>4 DEF LocalOK

LEMMA SearchGood == ASSUME Inv, NEW t \in Threads, SearchStep(t) PROVE Good(t)
<1>1. PICK l : l = loc[t] /\ l.pc = "search" /\ LocalOK(l)
  BY DEF Inv, SearchStep
<1>2. l.pc \in CallPCs /\ l.call.op = "uprase" /\ l.call.k \in Keys
  BY <1>1, OfKey
<1>3. OnItsWay(l) /\ Fields(l)
  BY <1>1 DEF LocalOK
<1>4. UNCHANGED <<tbl, all_locks>>
  BY DEF SearchStep
<1>5. CASE HashpowerChanged(t)
  <2>1. Go(t, Again(t))
    BY <1>5 DEF SearchStep
  <2>2. QED
    BY <1>1, <1>2, <1>4, <2>1, RetryGood
<1>6. CASE ~HashpowerChanged(t)
  <2>1. PICK T : T = tbl /\ IsTable(T, Vals) /\ T.hp = l.hp
    BY <1>1, <1>6 DEF Inv, Sound, HashpowerChanged
  <2>2. PICK s : s = LookAt(T, l.s)
    OBVIOUS
  <2>3. \/ IsSearch(s, l.hp) \/ s.status = "failed"
        \/ s.status = "found" /\ s.x.code \in Codes /\ Len(s.x.code) >= 2
    <3>1. IsSearch(l.s, T.hp)
      BY <1>1, <1>3, <2>1 DEF OnItsWay
    <3>2. QED
      BY <2>1, <2>2, <3>1, LookTypes
  <2>4. CASE IsSearch(s, l.hp)
    <3>1. s.status = "look"
      BY <2>4 DEF IsSearch
    <3>2. PICK m : m = [l EXCEPT !.s = s]
      OBVIOUS
    <3>3. Go(t, m)
      BY <1>1, <1>6, <2>1, <2>2, <3>1, <3>2 DEF SearchStep
    <3>4. LocalOK(m) /\ m.call = l.call /\ m.answer = l.answer
      BY <1>1, <2>4, <3>2, SearchOnOK
    <3>5. QED
      BY <1>1, <1>4, <3>3, <3>4, Unseen
  <2>5. CASE s.status = "failed"
    <3>1. PICK m : m = Doubling(l)
      OBVIOUS
    <3>2. Go(t, m)
      BY <1>1, <1>6, <2>1, <2>2, <2>5, <3>1 DEF SearchStep, Again, Doubling, Retry
    <3>3. LocalOK(m) /\ m.call = l.call /\ m.answer = l.answer
      BY <1>1, <1>2, <1>3, <3>1, DoublingOK DEF OnItsWay
    <3>4. QED
      BY <1>1, <1>4, <3>2, <3>3, Unseen
  <2>6. CASE s.status = "found" /\ s.x.code \in Codes /\ Len(s.x.code) >= 2
    <3>1. PICK path, m : path = Path(s) /\ m = [l EXCEPT !.pc = "path", !.s = s, !.path = path, !.n = 1]
      OBVIOUS
    <3>2. Go(t, m)
      BY <1>1, <1>6, <2>1, <2>2, <2>6, <3>1 DEF SearchStep
    <3>3. PathRight(path, 0, l.hp, l.call.k) /\ Len(path) >= 1
      BY <2>6, <3>1, PathStarts
    <3>4. PICK n \in Nat : n = 1 /\ n \in 1..Len(path) /\ n - 1 = 0
      BY <3>3 DEF PathRight
    <3>5. m = OnPath(l, s, path, n)
      BY <3>1, <3>4 DEF OnPath
    <3>6. PathRight(path, n - 1, l.hp, l.call.k)
      BY <3>3, <3>4
    <3>7. LocalOK(m) /\ m.call = l.call /\ m.answer = l.answer
      BY <1>1, <3>4, <3>5, <3>6, PathOK
    <3>8. QED
      BY <1>1, <1>4, <3>2, <3>7, Unseen
  <2>7. QED
    BY <2>3, <2>4, <2>5, <2>6
<1>7. QED
  BY <1>5, <1>6

LEMMA PathGood == ASSUME Inv, NEW t \in Threads, PathStep(t) PROVE Good(t)
<1>1. PICK l : l = loc[t] /\ l.pc = "path" /\ LocalOK(l)
  BY DEF Inv, PathStep
<1>2. l.pc \in CallPCs /\ l.call.op = "uprase" /\ l.call.k \in Keys
  BY <1>1, OfKey
<1>3. OnItsWay(l) /\ Fields(l)
  BY <1>1 DEF LocalOK
<1>4. UNCHANGED <<tbl, all_locks>>
  BY DEF PathStep
<1>5. CASE HashpowerChanged(t)
  <2>1. Go(t, Again(t))
    BY <1>5 DEF PathStep
  <2>2. QED
    BY <1>1, <1>2, <1>4, <2>1, RetryGood
<1>6. CASE ~HashpowerChanged(t)
  <2>1. PICK T, k : T = tbl /\ IsTable(T, Vals) /\ T.hp = l.hp /\ k = l.call.k /\ k \in Keys
    BY <1>1, <1>2, <1>6 DEF Inv, Sound, HashpowerChanged
  <2>2. PICK path, n : path = l.path /\ n = l.n
    OBVIOUS
  <2>3. n \in Nat /\ n \in 1..Len(path) /\ PathRight(path, n - 1, T.hp, k)
    BY <1>1, <1>3, <2>1, <2>2 DEF OnItsWay
  <2>4. PICK start \in Homes(T.hp, k) : start = StartBucket(l.s, l.i1, l.i2)
    BY <1>3, <2>1 DEF OnItsWay, StartBucket, Homes
  <2>5. PICK b, seen : b = PathBucket(T.hp, path, n, start) /\ seen = SeenAt(T, path, n, b)
    OBVIOUS
  <2>6. PathRight(seen, n, T.hp, k) /\ Len(seen) = Len(path) /\ Len(path) \in Nat
    <3>1. /\ PathRight(SeenAt(T, path, n, PathBucket(T.hp, path, n, start)), n, T.hp, k)
          /\ Len(SeenAt(T, path, n, PathBucket(T.hp, path, n, start))) = Len(path)
      <4>1. IsTable(T, Vals) /\ k \in Keys /\ n \in Nat /\ start \in Homes(T.hp, k)
        BY <2>1, <2>3
      <4>2. n \in 1..Len(path) /\ PathRight(path, n - 1, T.hp, k)
        BY <2>3
      <4>3. QED
        BY <4>1, <4>2, PathGrows
    <3>2. path \in Seq(Stops)
      BY <2>3 DEF PathRight
    <3>3. QED
      BY <2>5, <3>1, <3>2
  <2>7. \/ /\ n < Len(seen) /\ Go(t, [l EXCEPT !.path = seen, !.n = n + 1])
        \/ Go(t, [l EXCEPT !.pc = "move", !.path = seen, !.s = Idle.s])
    BY <1>1, <1>6, <2>1, <2>2, <2>4, <2>5 DEF PathStep
  <2>8. CASE n < Len(seen) /\ Go(t, [l EXCEPT !.path = seen, !.n = n + 1])
    <3>1. PICK n2, m : n2 = n + 1 /\ m = [l EXCEPT !.path = seen, !.n = n2]
      OBVIOUS
    <3>2. n2 \in 1..Len(seen) /\ n2 - 1 = n
      BY <2>3, <2>6, <2>8, <3>1
    <3>3. PathRight(seen, n2 - 1, l.hp, l.call.k)
      BY <2>1, <2>6, <3>2
    <3>4. m = OnPath(l, l.s, seen, n2)
      BY <1>1, <1>3, <3>1 DEF Fields, OnPath
    <3>5. LocalOK(m) /\ m.call = l.call /\ m.answer = l.answer
      BY <1>1, <3>2, <3>3, <3>4, PathOK
    <3>6. QED
      BY <1>1, <1>4, <2>8, <3>1, <3>5, Unseen
  <2>9. CASE Go(t, [l EXCEPT !.pc = "move", !.path = seen, !.s = Idle.s])
    <3>1. PICK s, m : s = Idle.s /\ m = [l EXCEPT !.pc = "move", !.path = seen, !.s = s]
      OBVIOUS
    <3>2. m = Moving(l, s, seen, n)
      BY <1>3, <2>2, <3>1 DEF Fields, Moving
    <3>3. n \in 1..Len(seen) /\ PathRight(seen, n, l.hp, l.call.k)
      BY <2>1, <2>3, <2>6
    <3>4. LocalOK(m) /\ m.call = l.call /\ m.answer = l.answer
      BY <1>1, <3>2, <3>3, MoveOK
    <3>5. QED
      BY <1>1, <1>4, <2>9, <3>1, <3>4, Unseen
  <2>10. QED
    BY <2>7, <2>8, <2>9
<1>7. QED
  BY <1>5, <1>6

\* A hop was not valid any more: a new search.
Restarting(l) ==
  [l EXCEPT !.pc = "search", !.path = <<>>, !.n = 0, !.s = StartSearch(l.i1, l.i2)]
LEMMA RestartingOK ==
  ASSUME NEW l, LocalOK(l), l.pc = "move", l.call.k \in Keys
  PROVE  /\ LocalOK(Restarting(l)) /\ Restarting(l).call = l.call
         /\ Restarting(l).answer = l.answer
<1>1. PICK m : m = Restarting(l)
  OBVIOUS
<1>2. Fields(l) /\ OnItsWay(l) /\ l.pc \in CallPCs /\ OpOf(l.pc) = "uprase"
  BY DEF LocalOK, CallPCs, OpOf
<1>3. l.call \in Calls /\ l.call.op = OpOf(l.pc) /\ l.answer = NoAnswer
  BY <1>2, UnderWay
<1>4. /\ m.pc = "search" /\ m.hp = l.hp /\ m.i1 = l.i1 /\ m.i2 = l.i2 /\ m.s = StartSearch(l.i1, l.i2)
      /\ m.call = l.call /\ m.answer = l.answer /\ Fields(m)
  BY <1>1, <1>2 DEF Restarting, Fields
<1>5. IsSearch(m.s, l.hp)
  <2>1. l.i1 \in BucketsOf(l.hp) /\ l.i2 \in BucketsOf(l.hp)
    BY <1>2, HomeTypes DEF OnItsWay
  <2>2. QED
    BY <1>4, <2>1, StartTypes
<1>6. OnItsWay(m)
  BY <1>2, <1>4, <1>5 DEF OnItsWay
<1>7. m.pc \in CallPCs /\ OpOf(m.pc) = "uprase"
  BY <1>4 DEF CallPCs, OpOf
<1>8. QED
  BY <1>1, <1>2, <1>3, <1>4, <1>6, <1>7 DEF LocalOK

\* The last hop is done, or none was needed: the insertion itself.
LEMMA ArrivedGood ==
  ASSUME Inv, NEW t \in Threads, loc[t].pc = "move",
         NEW T, Sound(T, all_locks), MapOf(T) = MapOf(tbl),
         NEW p \in Positions(T), ~Occupied(T, p), p[1] \in Homes(T.hp, loc[t].call.k),
         Arrived(t, T, p)
  PROVE  Good(t)
<1>1. loc[t].pc \in CallPCs /\ loc[t].call \in KeyCalls /\ loc[t].call.op = "uprase"
  BY OfKey
<1>2. CASE cuckoo_find(T, loc[t].call.k) = {} /\ Add(t, T, p)
  BY <1>1, <1>2, AddGood
<1>3. CASE \E q \in cuckoo_find(T, loc[t].call.k) : Visit(t, T, q)
  <2>1. PICK q \in cuckoo_find(T, loc[t].call.k) : Visit(t, T, q)
    BY <1>3
  <2>2. QED
    BY <1>1, <2>1, VisitGood
<1>4. QED
  BY <1>2, <1>3 DEF Arrived

LEMMA PathShorter ==
  ASSUME NEW path, NEW n \in Nat, NEW m \in Nat, m <= n, NEW p, NEW k, PathRight(path, n, p, k)
  PROVE  PathRight(path, m, p, k)
<1>1. path \in Seq(Stops) /\ n <= Len(path) /\ \A j \in 1..n : LeadsOn(path, j, p, k)
  BY DEF PathRight
<1>2. m <= Len(path) /\ \A j \in 1..m : LeadsOn(path, j, p, k)
  BY <1>1
<1>3. QED
  BY <1>1, <1>2 DEF PathRight

LEMMA MoveGood == ASSUME Inv, NEW t \in Threads, MoveStep(t) PROVE Good(t)
<1>1. PICK l : l = loc[t] /\ l.pc = "move" /\ LocalOK(l)
  BY DEF Inv, MoveStep
<1>2. l.pc \in CallPCs /\ l.call.op = "uprase" /\ l.call.k \in Keys
  BY <1>1, OfKey
<1>3. OnItsWay(l) /\ Fields(l)
  BY <1>1 DEF LocalOK
<1>4. PICK T, L, k, path, n : /\ T = tbl /\ L = all_locks /\ Sound(T, L) /\ k = l.call.k /\ k \in Keys
                              /\ path = l.path /\ n = l.n
  BY <1>2 DEF Inv
<1>5. n \in Nat /\ n \in 1..Len(path) /\ PathRight(path, n, l.hp, k)
  BY <1>1, <1>3, <1>4 DEF OnItsWay
<1>6. CASE HashpowerChanged(t) /\ Go(t, Again(t)) /\ UNCHANGED <<tbl, all_locks>>
  BY <1>1, <1>2, <1>6, RetryGood
<1>7. CASE Restart(t) /\ UNCHANGED <<tbl, all_locks>>
  <2>1. PICK m : m = Restarting(l)
    OBVIOUS
  <2>2. Go(t, m)
    BY <1>1, <1>7, <2>1 DEF Restart, Restarting
  <2>3. LocalOK(m) /\ m.call = l.call /\ m.answer = l.answer
    BY <1>1, <1>2, <2>1, RestartingOK
  <2>4. QED
    BY <1>1, <1>7, <2>2, <2>3, Unseen
<1>8. ASSUME ~HashpowerChanged(t), n > 1, HopValid(T, path, n)
      PROVE  /\ Sound(MoveHop(T, path, n), L) /\ MoveHop(T, path, n).hp = T.hp
             /\ MapOf(MoveHop(T, path, n)) = MapOf(T)
             /\ Hop(path, n - 1) \in Positions(MoveHop(T, path, n))
             /\ ~Occupied(MoveHop(T, path, n), Hop(path, n - 1))
  <2>1. T.hp = l.hp
    BY <1>1, <1>4, <1>8 DEF HashpowerChanged
  <2>2. PathRight(path, n, T.hp, k) /\ Sound(T, L)
    BY <1>4, <1>5, <2>1
  <2>3. QED
    BY <1>5, <1>8, <2>2, HopKeeps
<1>9. CASE /\ ~HashpowerChanged(t) /\ n > 2 /\ HopValid(T, path, n)
           /\ tbl' = MoveHop(T, path, n)
           /\ Go(t, [l EXCEPT !.n = n - 1]) /\ UNCHANGED all_locks
  <2>1. PICK T2, L2 : T2 = MoveHop(T, path, n) /\ T2 = tbl' /\ L2 = all_locks' /\ L2 = L
    BY <1>4, <1>9
  <2>2. n > 1
    BY <1>5, <1>9
  <2>3. Sound(T2, L2) /\ MapOf(T2) = MapOf(tbl)
    BY <1>4, <1>8, <1>9, <2>1, <2>2
  <2>4. PICK n2 \in Nat : n2 = n - 1 /\ n2 <= n
    <3>1. n - 1 \in Nat /\ n - 1 <= n
      BY <1>5, <2>2
    <3>2. QED
      BY <3>1
  <2>5. n2 \in 1..Len(path)
    <3>1. path \in Seq(Stops)
      BY <1>5 DEF PathRight
    <3>2. QED
      BY <1>5, <2>2, <2>4, <3>1
  <2>6. PathRight(path, n2, l.hp, l.call.k)
    BY <1>4, <1>5, <2>4, PathShorter
  <2>7. PICK s, m : s = l.s /\ m = Moving(l, s, path, n2)
    OBVIOUS
  <2>8. LocalOK(m) /\ m.call = l.call /\ m.answer = l.answer
    BY <1>1, <2>5, <2>6, <2>7, MoveOK
  <2>9. Go(t, m)
    <3>1. m = [l EXCEPT !.n = n2]
      BY <1>1, <1>3, <1>4, <2>7 DEF Moving, Fields
    <3>2. QED
      BY <1>9, <2>4, <3>1
  <2>10. QED
    BY <1>1, <2>1, <2>3, <2>8, <2>9, Hidden
<1>10. Hop(path, 1)[1] \in Homes(l.hp, k)
  <2>1. 1 \in 1..n
    BY <1>5
  <2>2. path[1].bucket \in Homes(l.hp, k)
    BY <1>5, <2>1 DEF PathRight, LeadsOn
  <2>3. QED
    BY <2>2 DEF Hop
<1>11. CASE /\ ~HashpowerChanged(t) /\ n = 1 /\ ~Occupied(T, Hop(path, 1))
            /\ Arrived(t, T, Hop(path, 1))
  <2>1. T.hp = l.hp
    BY <1>1, <1>4, <1>11 DEF HashpowerChanged
  <2>2. PICK p : p = Hop(path, 1) /\ p \in Positions(T) /\ ~Occupied(T, p) /\ p[1] \in Homes(T.hp, k)
    <3>1. IsTable(T, Vals) /\ PathRight(path, n, T.hp, k) /\ 1 \in 1..n
      BY <1>4, <1>5, <2>1 DEF Sound
    <3>2. Hop(path, 1) \in Positions(T)
      BY <1>5, <3>1, PathPlace
    <3>3. QED
      BY <1>10, <1>11, <2>1, <3>2
  <2>3. Arrived(t, T, p)
    BY <1>11, <2>2
  <2>4. QED
    BY <1>1, <1>4, <2>2, <2>3, ArrivedGood
<1>12. CASE /\ ~HashpowerChanged(t) /\ n = 2 /\ HopValid(T, path, 2)
            /\ Arrived(t, MoveHop(T, path, 2), Hop(path, 1))
  <2>1. T.hp = l.hp
    BY <1>1, <1>4, <1>12 DEF HashpowerChanged
  <2>2. n > 1 /\ n - 1 = 1 /\ n = 2
    BY <1>12
  <2>3. PICK p, T2 : p = Hop(path, 1) /\ T2 = MoveHop(T, path, 2)
    OBVIOUS
  <2>4. Sound(T2, all_locks) /\ MapOf(T2) = MapOf(tbl) /\ p \in Positions(T2) /\ ~Occupied(T2, p)
        /\ T2.hp = T.hp
    BY <1>4, <1>8, <1>12, <2>2, <2>3
  <2>5. p[1] \in Homes(T2.hp, k)
    BY <1>10, <2>1, <2>3, <2>4
  <2>6. Arrived(t, T2, p)
    BY <1>12, <2>3
  <2>7. QED
    BY <1>1, <1>4, <2>4, <2>5, <2>6, ArrivedGood
<1>13. QED
  <2>1. PICK T0 : T0 = IF n = 1 THEN T ELSE MoveHop(T, path, n)
    OBVIOUS
  <2>2. \/ HashpowerChanged(t) /\ Go(t, Again(t)) /\ UNCHANGED <<tbl, all_locks>>
        \/ Restart(t) /\ UNCHANGED <<tbl, all_locks>>
        \/ /\ ~HashpowerChanged(t) /\ n > 2 /\ HopValid(T, path, n)
           /\ tbl' = T0 /\ Go(t, [l EXCEPT !.n = n - 1]) /\ UNCHANGED all_locks
        \/ /\ ~HashpowerChanged(t)
           /\ IF n = 1 THEN ~Occupied(T, Hop(path, 1)) ELSE n = 2 /\ HopValid(T, path, 2)
           /\ Arrived(t, T0, Hop(path, 1))
    BY <1>1, <1>4, <2>1 DEF MoveStep, Arrived, Add, Visit
  <2>3. n > 2 => n # 1
    BY <1>5
  <2>4. QED
    BY <1>6, <1>7, <1>9, <1>11, <1>12, <2>1, <2>2, <2>3

-----------------------------------------------------------------------------
(* Resizing. *)

LEMMA InvalidIs == ASSUME NEW p, NEW a PROVE Invalid(p, a) \subseteq Exceptions
BY DEF Invalid, Exceptions

\* An expansion that throws, and leaves the table as it was.
LEMMA ThrowGood ==
  ASSUME Inv, NEW t \in Threads, loc[t].pc \in CallPCs, loc[t].call.op \in {"uprase", "resize"},
         NEW e \in Exceptions, Answered(t, e, NoValue), UNCHANGED <<tbl, all_locks>>
  PROVE  Good(t)
<1>1. e # "none"
  BY DEF Exceptions
<1>2. PICK a : a = Answer(e, NoValue) /\ a # NoAnswer
  BY <1>1, Answers
<1>3. Reply(t, a)
  BY <1>2 DEF Answered
<1>4. PICK T2, L2 : T2 = tbl' /\ L2 = all_locks' /\ Sound(T2, L2) /\ T2 = tbl
  BY Unmoved
<1>5. Happens(loc[t].call, MapOf(tbl), a, MapOf(T2))
  BY <1>2, <1>4 DEF Happens
<1>6. QED
  BY <1>2, <1>3, <1>4, <1>5, Ends

\* The thread goes on with local variables m once the table is replaced.
LEMMA ReplacedGood ==
  ASSUME Inv, NEW t \in Threads, NEW m, Go(t, m), LocalOK(m),
         \A M : Seen(loc[t], M, m, M),
         NEW T2, T2 = tbl', IsTable(T2, Vals), AtHome(T2), Stored(T2) = Stored(tbl),
         all_locks' = LocksFor(T2.hp)
  PROVE  Good(t)
<1>1. PICK T, L, L2 : T = tbl /\ L = all_locks /\ Sound(T, L) /\ L2 = all_locks'
  BY DEF Inv
<1>2. L2 = Wider(L, T2.hp)
  BY <1>1 DEF LocksFor, Wider, Current
<1>3. Sound(T2, L2) /\ MapOf(T2) = MapOf(T)
  BY <1>1, <1>2, ReplacedHolds
<1>4. Seen(loc[t], MapOf(tbl), m, MapOf(T2))
  BY <1>1, <1>3
<1>5. QED
  BY <1>1, <1>3, <1>4 DEF Good, Go

LEMMA HungGood ==
  ASSUME Inv, NEW t \in Threads, loc[t].pc \in CallPCs,
         Go(t, [loc[t] EXCEPT !.pc = "hung"]), UNCHANGED <<tbl, all_locks>>
  PROVE  Good(t)
<1>1. PICK l, m : l = loc[t] /\ m = [l EXCEPT !.pc = "hung"] /\ LocalOK(l)
  BY DEF Inv
<1>2. l.call \in Calls /\ Fields(l)
  BY <1>1, UnderWay DEF LocalOK
<1>3. m.pc = "hung" /\ m.call = l.call /\ m.answer = l.answer /\ Fields(m)
  BY <1>1, <1>2 DEF Fields
<1>4. LocalOK(m)
  BY <1>2, <1>3 DEF LocalOK
<1>5. QED
  BY <1>1, <1>3, <1>4, Unseen

LEMMA ExpandSimpleGood ==
  ASSUME RebuiltSound, TrivialTypes, Inv, NEW t \in Threads,
         loc[t].pc \in CallPCs, loc[t].call.op \in {"uprase", "resize"},
         NEW p \in Nat, NEW automatic, NEW m, LocalOK(m), \A M : Seen(loc[t], M, m, M),
         cuckoo_expand_simple(t, p, automatic, m)
  PROVE  Good(t)
<1>1. PICK T : T = tbl /\ IsTable(T, Vals) /\ AtHome(T)
  BY DEF Inv, Sound
<1>2. CASE Throw(t, tbl, Invalid(p, automatic))
  <2>1. PICK e \in Invalid(p, automatic) :
          Answered(t, e, NoValue) /\ tbl' = tbl /\ UNCHANGED all_locks
    BY <1>2 DEF Throw
  <2>2. e \in Exceptions
    BY InvalidIs
  <2>3. QED
    BY <2>1, <2>2, ThrowGood
<1>3. ASSUME NEW order \in SetToSeqs(Elements(T)),
             Replace(t, order, Rebuild(EmptyTable(p), Reordered(T, order)), m)
      PROVE  Good(t)
  <2>1. PICK r : r = Rebuild(EmptyTable(p), Reordered(T, order))
    OBVIOUS
  <2>2. /\ r.end \in {"ok", "livelock"} \union Exceptions
        /\ r.end = "ok" => IsTable(r.T, Vals) /\ AtHome(r.T) /\ Stored(r.T) = Stored(T)
    BY <1>1, <2>1, RebuiltHolds
  <2>3. Replace(t, order, r, m)
    BY <1>3, <2>1
  <2>4. CASE r.end = "ok"
    <3>1. PICK T2 : T2 = r.T
      OBVIOUS
    <3>2. tbl' = T2 /\ all_locks' = LocksFor(T2.hp) /\ Go(t, m)
      BY <2>3, <2>4, <3>1 DEF Replace
    <3>3. IsTable(T2, Vals) /\ AtHome(T2) /\ Stored(T2) = Stored(tbl)
      BY <1>1, <2>2, <2>4, <3>1
    <3>4. QED
      BY <3>2, <3>3, ReplacedGood
  <2>5. CASE r.end = "livelock"
    <3>1. Go(t, [loc[t] EXCEPT !.pc = "hung"]) /\ UNCHANGED <<tbl, all_locks>>
      BY <2>3, <2>5 DEF Replace
    <3>2. QED
      BY <3>1, HungGood
  <2>6. CASE r.end \in Exceptions
    <3>1. r.end # "ok" /\ r.end # "livelock"
      BY <2>6 DEF Exceptions
    <3>2. PICK e, P : e \in Exceptions /\ e = r.end /\ P = {order[i] : i \in 1..r.n}
      BY <2>6
    <3>3. Throw(t, Abandoned(tbl, P), {e})
      BY <2>3, <3>1, <3>2 DEF Replace
    <3>4. Abandoned(tbl, P) = tbl
      BY <1>1, AbandonedSame
    <3>5. Answered(t, e, NoValue) /\ UNCHANGED <<tbl, all_locks>>
      BY <3>3, <3>4 DEF Throw
    <3>6. QED
      BY <3>2, <3>5, ThrowGood
  <2>7. QED
    BY <2>2, <2>4, <2>5, <2>6
<1>4. QED
  BY <1>1, <1>2, <1>3 DEF cuckoo_expand_simple, Reordered

LEMMA FastDoubleGood ==
  ASSUME RebuiltSound, NothingLost, Inv, NEW t \in Threads, cuckoo_fast_double(t)
  PROVE  Good(t)
<1>1. PICK l, m : l = loc[t] /\ l.pc = "double" /\ LocalOK(l) /\ m = Retry(l)
  BY DEF Inv, cuckoo_fast_double
<1>2. /\ l.pc \in CallPCs /\ l.call.op = "uprase" /\ l.hp \in Nat
      /\ l.call \in Calls /\ l.answer = NoAnswer
  <2>1. l.pc \in CallPCs /\ OpOf(l.pc) = "uprase" /\ l.hp \in Nat
    BY <1>1 DEF CallPCs, OpOf, LocalOK
  <2>2. QED
    BY <1>1, <2>1, UnderWay
<1>3. LocalOK(m) /\ m.call = l.call /\ m.answer = l.answer
  BY <1>1, <1>2, RetryOK
<1>4. \A M : Seen(loc[t], M, m, M)
  BY <1>1, <1>3 DEF Seen
<1>5. Again(t) = m
  BY <1>1 DEF Again, Retry
<1>6. PICK p \in Nat : p = l.hp + 1
  BY <1>2
<1>7. CASE ~NothrowTypes /\ cuckoo_expand_simple(t, loc[t].hp + 1, TRUE, Again(t))
  <2>1. TrivialTypes
    BY <1>7 DEF NothingLost
  <2>2. cuckoo_expand_simple(t, p, TRUE, m)
    BY <1>1, <1>5, <1>6, <1>7
  <2>3. QED
    BY <1>1, <1>2, <1>3, <1>4, <2>1, <2>2, ExpandSimpleGood
<1>8. CASE Throw(t, tbl, Invalid(loc[t].hp + 1, TRUE))
  <2>1. PICK e \in Invalid(p, TRUE) :
          Answered(t, e, NoValue) /\ tbl' = tbl /\ UNCHANGED all_locks
    BY <1>1, <1>6, <1>8 DEF Throw
  <2>2. e \in Exceptions
    BY InvalidIs
  <2>3. QED
    BY <1>1, <1>2, <2>1, <2>2, ThrowGood
<1>9. CASE Go(t, Again(t)) /\ UNCHANGED <<tbl, all_locks>>
  BY <1>1, <1>2, <1>9, RetryGood
<1>10. CASE /\ ~HashpowerChanged(t) /\ tbl' = DoubleTable(tbl)
            /\ all_locks' = LocksFor(loc[t].hp + 1) /\ Go(t, Again(t))
  <2>1. PICK T : T = tbl /\ IsTable(T, Vals) /\ AtHome(T) /\ T.hp = l.hp
    BY <1>1, <1>10 DEF Inv, Sound, HashpowerChanged
  <2>2. PICK T2 : T2 = DoubleTable(T)
    OBVIOUS
  <2>3. IsTable(T2, Vals) /\ AtHome(T2) /\ T2.hp = p /\ Stored(T2) = Stored(T)
    BY <1>6, <2>1, <2>2, DoubleHolds
  <2>4. T2 = tbl' /\ all_locks' = LocksFor(T2.hp) /\ Go(t, m)
    BY <1>1, <1>5, <1>6, <1>10, <2>1, <2>2, <2>3
  <2>5. QED
    BY <1>3, <1>4, <2>1, <2>3, <2>4, ReplacedGood
<1>11. QED
  BY <1>7, <1>8, <1>9, <1>10 DEF cuckoo_fast_double

LEMMA ExpandGood ==
  ASSUME RebuiltSound, NothingLost, Inv, NEW t \in Threads, Expand(t)
  PROVE  Good(t)
<1>1. PICK l, a : l = loc[t] /\ l.pc = "expand" /\ LocalOK(l) /\ a = Answer("resized", NoValue)
  BY DEF Inv, Expand
<1>2. /\ l.pc \in CallPCs /\ l.call.op = "resize" /\ l.call \in Calls /\ l.answer = NoAnswer
      /\ l.call # NoCall
  <2>1. l.pc \in CallPCs /\ OpOf(l.pc) = "resize"
    BY <1>1 DEF CallPCs, OpOf
  <2>2. QED
    BY <1>1, <2>1, UnderWay
<1>3. PICK m : m = Done(l, a)
  OBVIOUS
<1>4. LocalOK(m) /\ m.call = l.call /\ m.answer = a
  BY <1>1, <1>2, <1>3, Answers, DoneOK
<1>5. \A M : Seen(loc[t], M, m, M)
  BY <1>1, <1>2, <1>4 DEF Seen, Happens
<1>6. Target(l.call) \in Nat
  <2>1. l.call.n \in Nat
    BY <1>2, CallTypes
  <2>2. QED
    BY <2>1, ReserveType DEF Target
<1>7. cuckoo_expand_simple(t, Target(l.call), FALSE, m)
  BY <1>1, <1>3 DEF Expand, Done
<1>8. TrivialTypes
  BY <1>2 DEF NothingLost
<1>9. QED
  BY <1>1, <1>2, <1>4, <1>5, <1>6, <1>7, <1>8, ExpandSimpleGood

LEMMA RehashGood == ASSUME Inv, NEW t \in Threads, cuckoo_rehash(t) PROVE Good(t)
<1>1. PICK l : l = loc[t] /\ l.pc = "resize" /\ LocalOK(l)
  BY DEF Inv, cuckoo_rehash
<1>2. l.pc \in CallPCs /\ l.call.op = "resize" /\ l.call \in Calls /\ l.answer = NoAnswer
  <2>1. l.pc \in CallPCs /\ OpOf(l.pc) = "resize"
    BY <1>1 DEF CallPCs, OpOf
  <2>2. QED
    BY <1>1, <2>1, UnderWay
<1>3. UNCHANGED <<tbl, all_locks>>
  BY DEF cuckoo_rehash
<1>4. CASE Answered(t, "unchanged", NoValue)
  <2>1. PICK a : a = Answer("unchanged", NoValue) /\ a # NoAnswer
    BY Answers
  <2>2. Reply(t, a)
    BY <1>4, <2>1 DEF Answered
  <2>3. PICK T2, L2 : T2 = tbl' /\ L2 = all_locks' /\ Sound(T2, L2) /\ T2 = tbl
    BY <1>3, Unmoved
  <2>4. Happens(loc[t].call, MapOf(tbl), a, MapOf(T2))
    BY <1>1, <1>2, <2>1, <2>3 DEF Happens
  <2>5. QED
    BY <1>1, <1>2, <2>1, <2>2, <2>3, <2>4, Ends
<1>5. CASE Go(t, [loc[t] EXCEPT !.pc = "expand"])
  <2>1. PICK m : m = [l EXCEPT !.pc = "expand"]
    OBVIOUS
  <2>2. m.pc = "expand" /\ m.call = l.call /\ m.answer = l.answer /\ Fields(m)
    BY <1>1, <2>1 DEF LocalOK, Fields
  <2>3. m.pc \in CallPCs /\ OpOf(m.pc) = "resize"
    BY <2>2 DEF CallPCs, OpOf
  <2>4. LocalOK(m)
    BY <1>2, <2>2, <2>3 DEF LocalOK
  <2>5. QED
    BY <1>1, <1>3, <1>5, <2>1, <2>2, <2>4, Unseen
<1>6. QED
  BY <1>4, <1>5 DEF cuckoo_rehash

LEMMA ClearGood == ASSUME Inv, NEW t \in Threads, cuckoo_clear(t) PROVE Good(t)
<1>1. PICK l : l = loc[t] /\ l.pc = "clear" /\ LocalOK(l)
  BY DEF Inv, cuckoo_clear
<1>2. l.pc \in CallPCs /\ l.call.op = "clear"
  <2>1. l.pc \in CallPCs /\ OpOf(l.pc) = "clear"
    BY <1>1 DEF CallPCs, OpOf
  <2>2. QED
    BY <1>1, <2>1, UnderWay
<1>3. PICK T, L : T = tbl /\ L = all_locks /\ Sound(T, L)
  BY DEF Inv
<1>4. PICK T2, L2 : T2 = tbl' /\ L2 = all_locks'
  OBVIOUS
<1>5. T2 = EmptyTable(T.hp) /\ L2 = Zeroed(L)
  BY <1>3, <1>4 DEF cuckoo_clear, Zeroed, Current
<1>6. Sound(T2, L2) /\ MapOf(T2) = [k \in Keys |-> NoValue]
  BY <1>3, <1>5, ClearedHolds
<1>7. PICK a : a = Answer("cleared", NoValue) /\ a # NoAnswer
  BY Answers
<1>8. Reply(t, a)
  BY <1>7 DEF cuckoo_clear, Answered
<1>9. Happens(loc[t].call, MapOf(tbl), a, MapOf(T2))
  BY <1>1, <1>2, <1>6, <1>7 DEF Happens
<1>10. QED
  BY <1>1, <1>2, <1>4, <1>6, <1>7, <1>8, <1>9, Ends

\* A call of size or maximum_hashpower goes on, or answers with a number.
LEMMA NumberGood ==
  ASSUME Inv, NEW t \in Threads, loc[t].pc \in CallPCs, loc[t].call.op \in {"size", "limit"},
         NEW n, Reply(t, Number(n)), UNCHANGED <<tbl, all_locks>>
  PROVE  Good(t)
<1>1. PICK a : a = Number(n) /\ a # NoAnswer
  BY Answers
<1>2. PICK T2, L2 : T2 = tbl' /\ L2 = all_locks' /\ Sound(T2, L2) /\ T2 = tbl
  BY Unmoved
<1>3. Happens(loc[t].call, MapOf(tbl), a, MapOf(T2))
  BY <1>1, <1>2 DEF Happens
<1>4. QED
  BY <1>1, <1>2, <1>3, Ends

LEMMA SumStepGood ==
  ASSUME Inv, NEW t \in Threads, BeginSize(t) \/ SizeStep(t)
  PROVE  Good(t)
<1>1. PICK l : l = loc[t] /\ l.pc \in {"size", "sum"} /\ LocalOK(l)
  BY DEF Inv, BeginSize, SizeStep
<1>2. l.pc \in CallPCs /\ l.call.op = "size" /\ l.call \in Calls /\ l.answer = NoAnswer
  <2>1. l.pc \in CallPCs /\ OpOf(l.pc) = "size"
    BY <1>1 DEF CallPCs, OpOf
  <2>2. QED
    BY <1>1, <2>1, UnderWay
<1>3. UNCHANGED <<tbl, all_locks>>
  BY DEF BeginSize, SizeStep
<1>4. ASSUME NEW m, m.pc = "sum", m.call = l.call, m.answer = l.answer, Fields(m), Go(t, m)
      PROVE  Good(t)
  <2>1. m.pc \in CallPCs /\ OpOf(m.pc) = "size"
    BY <1>4 DEF CallPCs, OpOf
  <2>2. LocalOK(m)
    BY <1>2, <1>4, <2>1 DEF LocalOK
  <2>3. QED
    BY <1>1, <1>3, <1>4, <2>2, Unseen
<1>5. CASE BeginSize(t)
  <2>1. PICK p, m : p = Current /\ m = [l EXCEPT !.pc = "sum", !.hp = p, !.n = 1]
    OBVIOUS
  <2>2. Go(t, m)
    BY <1>1, <1>5, <2>1 DEF BeginSize
  <2>3. m.pc = "sum" /\ m.call = l.call /\ m.answer = l.answer /\ Fields(m)
    BY <1>1, <2>1 DEF LocalOK, Fields
  <2>4. QED
    BY <1>4, <2>2, <2>3
<1>6. CASE SizeStep(t)
  <2>1. PICK c, n : c = all_locks[l.hp] /\ n = l.n
    OBVIOUS
  <2>2. \/ Go(t, [l EXCEPT !.sum = l.sum + c[n], !.n = n + 1])
        \/ Reply(t, Number(l.sum))
    <3>1. Fields(l)
      BY <1>1 DEF LocalOK
    <3>2. [l EXCEPT !.sum = @ + c[n], !.n = n + 1] = [l EXCEPT !.sum = l.sum + c[n], !.n = n + 1]
      OBVIOUS
    <3>3. QED
      BY <1>1, <1>6, <2>1, <3>2 DEF SizeStep
  <2>3. CASE Go(t, [l EXCEPT !.sum = l.sum + c[n], !.n = n + 1])
    <3>1. PICK sum, n2, m : sum = l.sum + c[n] /\ n2 = n + 1 /\ m = [l EXCEPT !.sum = sum, !.n = n2]
      OBVIOUS
    <3>2. l.pc = "sum"
      BY <1>1, <1>6 DEF SizeStep
    <3>3. m.pc = "sum" /\ m.call = l.call /\ m.answer = l.answer /\ Fields(m)
      BY <1>1, <3>1, <3>2 DEF LocalOK, Fields
    <3>4. QED
      BY <1>4, <2>3, <3>1, <3>3
  <2>4. CASE Reply(t, Number(l.sum))
    BY <1>1, <1>2, <1>3, <2>4, NumberGood
  <2>5. QED
    BY <2>2, <2>3, <2>4
<1>7. QED
  BY <1>5, <1>6

LEMMA LimitGood ==
  ASSUME Inv, NEW t \in Threads, LimitCheck(t) \/ LimitStore(t)
  PROVE  Good(t)
<1>1. PICK l : l = loc[t] /\ l.pc \in {"limit", "store"} /\ LocalOK(l)
  BY DEF Inv, LimitCheck, LimitStore
<1>2. l.pc \in CallPCs /\ l.call.op = "limit" /\ l.call \in Calls /\ l.answer = NoAnswer
  <2>1. l.pc \in CallPCs /\ OpOf(l.pc) = "limit"
    BY <1>1 DEF CallPCs, OpOf
  <2>2. QED
    BY <1>1, <2>1, UnderWay
<1>3. UNCHANGED <<tbl, all_locks>>
  BY DEF LimitCheck, LimitStore
<1>4. CASE Reply(t, Number(0)) \/ Reply(t, Number(1))
  BY <1>1, <1>2, <1>3, <1>4, NumberGood
<1>5. CASE Go(t, [loc[t] EXCEPT !.pc = "store"])
  <2>1. PICK m : m = [l EXCEPT !.pc = "store"]
    OBVIOUS
  <2>2. m.pc = "store" /\ m.call = l.call /\ m.answer = l.answer /\ Fields(m)
    BY <1>1, <2>1 DEF LocalOK, Fields
  <2>3. m.pc \in CallPCs /\ OpOf(m.pc) = "limit"
    BY <2>2 DEF CallPCs, OpOf
  <2>4. LocalOK(m)
    BY <1>2, <2>2, <2>3 DEF LocalOK
  <2>5. QED
    BY <1>1, <1>3, <1>5, <2>1, <2>2, <2>4, Unseen
<1>6. QED
  BY <1>4, <1>5 DEF LimitCheck, LimitStore

LEMMA StepGood ==
  ASSUME RebuiltSound, NothingLost, Inv, NEW t \in Threads, Step(t)
  PROVE  Good(t)
BY BeginGood, ReturnGood, ApplyGood, InsertGood, SearchGood, PathGood, MoveGood, FastDoubleGood,
   ExpandGood, RehashGood, ClearGood, SumStepGood, LimitGood DEF Step, Locked, Unlocked

-----------------------------------------------------------------------------
(* The invariant. *)

LEMMA InitSound == ASSUME Init PROVE Inv
<1>1. PICK T, L, p : /\ T = tbl /\ L = all_locks /\ p = T.hp /\ p \in Nat
                     /\ IsTable(T, Vals) /\ AtHome(T)
  BY MapAssumption DEF Init, MapAssumption, IsTable
<1>2. PICK E, m : /\ E = Elements(T) /\ IsFiniteSet(E) /\ m = LocksWanted(p) /\ m \in Nat \ {0}
                  /\ m <= kMaxNumLocks
  BY <1>1, ElementsFinite, LocksWantedType
<1>3. PICK class : class = [q \in E |-> lock_ind(q[1]) + 1]
  OBVIOUS
<1>4. class \in [E -> 1..m]
  <2>1. \A q \in E : lock_ind(q[1]) + 1 \in 1..m
    BY <1>1, <1>2, ElementType, LocksWantedType
  <2>2. QED
    BY <1>3, <2>1
<1>5. PICK w : w = [l \in 1..m |-> Cardinality({q \in E : class[q] = l})]
  OBVIOUS
<1>6. w \in Seq(Int) /\ Len(w) = m /\ Sum(w) = Cardinality(E)
  BY <1>2, <1>4, <1>5, SumClasses
<1>7. L = <<w>>
  <2>1. L = <<[l \in 1..m |-> Cardinality({q \in E : lock_ind(q[1]) + 1 = l})]>>
    BY <1>1, <1>2 DEF Init
  <2>2. \A l : {q \in E : class[q] = l} = {q \in E : lock_ind(q[1]) + 1 = l}
    BY <1>3
  <2>3. QED
    BY <1>5, <2>1, <2>2
<1>8. L \in Seq(Seq(Int)) /\ Len(L) = 1 /\ L[Len(L)] = w
  BY <1>6, <1>7
<1>9. Sound(T, L)
  BY <1>1, <1>2, <1>6, <1>8 DEF Sound, LocksOK, Total
<1>10. ASSUME NEW t \in Threads PROVE LocalOK(loc[t])
  <2>1. PICK l : l = loc[t]
    OBVIOUS
  <2>2. l.pc = "idle" /\ l.call = NoCall /\ l.answer = NoAnswer /\ Fields(l)
    BY <2>1 DEF Init, Idle, Fields
  <2>3. QED
    BY <2>1, <2>2 DEF LocalOK
<1>11. loc = [t \in Threads |-> loc[t]]
  BY DEF Init
<1>12. QED
  BY <1>1, <1>9, <1>10, <1>11 DEF Inv

LEMMA GoodKeeps == ASSUME Inv, NEW t \in Threads, Good(t) PROVE Inv'
<1>1. PICK l2 : loc' = [loc EXCEPT ![t] = l2] /\ LocalOK(l2) /\ Sound(tbl', all_locks')
  BY DEF Good
<1>2. loc = [u \in Threads |-> loc[u]] /\ \A u \in Threads : LocalOK(loc[u])
  BY DEF Inv
<1>3. loc' = [u \in Threads |-> loc'[u]]
  BY <1>1, <1>2
<1>4. \A u \in Threads : LocalOK(loc'[u])
  <2>1. TAKE u \in Threads
  <2>2. loc'[u] = IF u = t THEN l2 ELSE loc[u]
    BY <1>1, <1>2
  <2>3. QED
    BY <1>1, <1>2, <2>2
<1>5. QED
  BY <1>1, <1>3, <1>4 DEF Inv

LEMMA InvKept == ASSUME RebuiltSound, NothingLost, Inv, [Next]_vars PROVE Inv'
<1>1. CASE UNCHANGED vars
  BY <1>1 DEF vars, Inv
<1>2. ASSUME NEW t \in Threads, Step(t) PROVE Inv'
  BY <1>2, StepGood, GoodKeeps
<1>3. QED
  BY <1>1, <1>2 DEF Next

\* Whatever the threads do, the map is sound and each of them is in good order.
THEOREM InvCorrect == RebuiltSound /\ NothingLost => (Spec => []Inv)
<1> SUFFICES ASSUME RebuiltSound, NothingLost PROVE Spec => []Inv
  OBVIOUS
<1>1. Init => Inv
  BY InitSound
<1>2. Inv /\ [Next]_vars => Inv'
  BY InvKept
<1>3. QED
  BY <1>1, <1>2, PTL DEF Spec

\* A key is stored at most once, in one of its two buckets, whatever searches,
\* hops, insertions and resizes of other threads come between two sections.
THEOREM HomesCorrect == RebuiltSound /\ NothingLost => (Spec => []UniqueHome)
<1>1. Inv => UniqueHome
  BY DEF Inv, Sound, UniqueHome
<1>2. QED
  BY <1>1, InvCorrect, PTL

\* The counters of the current lock container add up to the elements stored.
THEOREM SizeCorrect == RebuiltSound /\ NothingLost => (Spec => []SizeExact)
<1>1. Inv => SizeExact
  BY DEF Inv, Sound, SizeExact, size, Current, Total
<1>2. QED
  BY <1>1, InvCorrect, PTL

\* The table has its shape and a counter for each of its buckets.
THEOREM ShapeCorrect == RebuiltSound /\ NothingLost => (Spec => []TypeOK)
<1>1. Inv => TypeOK
  <2> SUFFICES ASSUME Inv PROVE TypeOK
    OBVIOUS
  <2>1. PICK p, L : p = tbl.hp /\ p \in Nat /\ L = all_locks /\ LocksOK(L, p) /\ IsTable(tbl, Vals)
    BY DEF Inv, Sound, IsTable
  <2>2. PICK N, c : N = Len(L) /\ c = L[N] /\ c \in Seq(Int)
    BY <2>1, Container
  <2>3. \A b \in BucketsOf(p) : lock_ind(b) + 1 \in DOMAIN c
    <3>1. LocksWanted(p) \in Nat /\ \A b \in BucketsOf(p) : lock_ind(b) + 1 \in 1..LocksWanted(p)
      BY <2>1, LocksWantedType
    <3>2. LocksWanted(p) <= Len(c) /\ Len(c) \in Nat
      BY <2>1, <2>2 DEF LocksOK
    <3>3. QED
      BY <2>2, <3>1, <3>2
  <2>4. QED
    BY <2>1, <2>2, <2>3 DEF TypeOK, Current, LocksOK
<1>2. QED
  BY <1>1, InvCorrect, PTL

-----------------------------------------------------------------------------
(* The refinement of AtomicMap. *)

LEMMA MapShown ==
  /\ [k \in Keys |-> ValueOf(k)] = MapOf(tbl)
  /\ [k \in Keys |-> ValueOf(k)]' = MapOf(tbl')
BY DEF MapOf, ValueIn, ValueOf

LEMMA GoodIsAtomic ==
  ASSUME Inv, NEW t \in Threads, Good(t)
  PROVE  [Atomic!Next]_Atomic!vars
<1>1. PICK l2 : loc' = [loc EXCEPT ![t] = l2] /\ Seen(loc[t], MapOf(tbl), l2, MapOf(tbl'))
  BY DEF Good
<1>2. loc = [u \in Threads |-> loc[u]] /\ MapOf(tbl) \in [Keys -> Vals \union {NoValue}]
  BY MapOfType DEF Inv, Sound
<1>3. PICK call, answer, map, map2 :
        /\ call = [u \in Threads |-> loc[u].call] /\ answer = [u \in Threads |-> loc[u].answer]
        /\ map = MapOf(tbl) /\ map2 = MapOf(tbl')
  OBVIOUS
<1>4. /\ [u \in Threads |-> loc[u].call]' = [call EXCEPT ![t] = l2.call]
      /\ [u \in Threads |-> loc[u].answer]' = [answer EXCEPT ![t] = l2.answer]
  BY <1>1, <1>2, <1>3
<1>5. call[t] = loc[t].call /\ answer[t] = loc[t].answer
  BY <1>3
<1>6. Seen(loc[t], map, l2, map2)
  BY <1>1, <1>3
<1>7. CASE l2.call = loc[t].call /\ l2.answer = loc[t].answer /\ map2 = map
  <2>1. UNCHANGED Atomic!vars
    BY <1>3, <1>4, <1>5, <1>7, MapShown DEF Atomic!vars
  <2>2. QED
    BY <2>1
<1>8. CASE /\ loc[t].call = NoCall /\ l2.call \in Calls
           /\ l2.answer = loc[t].answer /\ map2 = map
  <2>1. Atomic!Invoke(t)
    BY <1>3, <1>4, <1>5, <1>8, MapShown DEF Atomic!Invoke
  <2>2. QED
    BY <2>1 DEF Atomic!Next
<1>9. CASE /\ loc[t].answer # NoAnswer /\ l2.call = NoCall /\ l2.answer = NoAnswer
           /\ map2 = map
  <2>1. Atomic!Return(t)
    BY <1>3, <1>4, <1>5, <1>9, MapShown DEF Atomic!Return
  <2>2. QED
    BY <2>1 DEF Atomic!Next
<1>10. CASE /\ loc[t].call # NoCall /\ loc[t].answer = NoAnswer /\ l2.call = loc[t].call
            /\ Happens(loc[t].call, map, l2.answer, map2)
  <2>1. Atomic!Effect(t)
    <3>1. [u \in Threads |-> loc[u].call]' = call
      BY <1>3, <1>4, <1>5, <1>10
    <3>2. PICK c, a : c = loc[t].call /\ a = l2.answer /\ Happens(c, map, a, map2)
      BY <1>10
    <3>3. /\ [answer EXCEPT ![t] = a][t] = a /\ call[t] = c /\ c # NoCall /\ answer[t] = NoAnswer
          /\ [u \in Threads |-> loc[u].answer]' = [answer EXCEPT ![t] = a]
          /\ [k \in Keys |-> ValueOf(k)] = map /\ [k \in Keys |-> ValueOf(k)]' = map2
      BY <1>3, <1>4, <1>5, <1>10, <3>2, MapShown
    <3>4. /\ \A r, v : Atomic!Answer(r, v) = Answer(r, v)
          /\ \A o : Atomic!Applied(c, o) = NewValue(c, o)
          /\ Atomic!Exceptions = Exceptions
      BY DEF Atomic!Answer, Answer, Atomic!Applied, NewValue, Atomic!Exceptions, Exceptions
    <3>5. CASE c.op \in {"size", "limit"} /\ map2 = map /\ \E n : a = Number(n)
      <4>1. a.r = "number" /\ a = [r |-> "number", n |-> a.n]
        BY <3>5 DEF Number
      <4>2. QED
        BY <1>3, <3>1, <3>3, <3>5, <4>1 DEF Atomic!Effect
    <3>6. CASE /\ c.op \in {"apply", "uprase"} /\ map[c.k] # NoValue
               /\ map2 = [map EXCEPT ![c.k] = NewValue(c, map[c.k])]
               /\ a = Answer("found", map[c.k])
      <4>1. /\ map2 = [map EXCEPT ![c.k] = Atomic!Applied(c, map[c.k])]
            /\ a = Atomic!Answer("found", map[c.k])
        BY <3>4, <3>6
      <4>2. QED
        BY <1>3, <3>1, <3>3, <3>6, <4>1 DEF Atomic!Effect
    <3>7. CASE c.op = "apply" /\ map[c.k] = NoValue /\ map2 = map /\ a = Answer("absent", NoValue)
      BY <1>3, <3>1, <3>3, <3>4, <3>7 DEF Atomic!Effect
    <3>8. CASE /\ c.op = "uprase" /\ map[c.k] = NoValue
               /\ map2 = [map EXCEPT ![c.k] = c.v] /\ a = Answer("inserted", NoValue)
      BY <1>3, <3>1, <3>3, <3>4, <3>8 DEF Atomic!Effect
    <3>9. CASE /\ c.op \in {"uprase", "resize"} /\ map2 = map
               /\ \E e \in Exceptions : a = Answer(e, NoValue)
      <4>1. PICK e \in Atomic!Exceptions : a = Atomic!Answer(e, NoValue)
        BY <3>4, <3>9
      <4>2. [u \in Threads |-> loc[u].answer]' = [[u \in Threads |-> loc[u].answer] EXCEPT ![t] = Atomic!Answer(e, NoValue)]
        BY <1>3, <3>3, <4>1
      <4>3. UNCHANGED [k \in Keys |-> ValueOf(k)]
        BY <3>3, <3>9
      <4>4. QED
        BY <1>3, <3>1, <3>3, <3>9, <4>2, <4>3 DEF Atomic!Effect
    <3>10. CASE /\ c.op = "resize" /\ map2 = map
               /\ \E r \in {"resized", "unchanged"} : a = Answer(r, NoValue)
      BY <1>3, <3>1, <3>3, <3>4, <3>10 DEF Atomic!Effect
    <3>11. CASE c.op = "clear" /\ map2 = [k \in Keys |-> NoValue] /\ a = Answer("cleared", NoValue)
      BY <1>3, <3>1, <3>3, <3>4, <3>11 DEF Atomic!Effect
    <3>12. QED
      BY <3>2, <3>5, <3>6, <3>7, <3>8, <3>9, <3>10, <3>11 DEF Happens
  <2>2. QED
    BY <2>1 DEF Atomic!Next
<1>11. QED
  BY <1>6, <1>7, <1>8, <1>9, <1>10 DEF Seen

\* Every call takes effect at one instant between its start and its return,
\* though it may search, hop and resize in many steps, among those of others.
THEOREM AtomicCorrect == RebuiltSound /\ NothingLost => (Spec => AtomicCalls)
<1> SUFFICES ASSUME RebuiltSound, NothingLost PROVE Spec => AtomicCalls
  OBVIOUS
<1>1. Init => Atomic!Init
  <2> SUFFICES ASSUME Init PROVE Atomic!Init
    OBVIOUS
  <2>1. MapOf(tbl) \in [Keys -> Vals \union {NoValue}]
    BY InitSound, MapOfType DEF Inv, Sound
  <2>2. \A t \in Threads : loc[t].call = NoCall /\ loc[t].answer = NoAnswer
    BY DEF Init, Idle
  <2>3. QED
    BY <2>1, <2>2, MapShown DEF Atomic!Init
<1>2. Inv /\ [Next]_vars => [Atomic!Next]_Atomic!vars
  <2> SUFFICES ASSUME Inv, [Next]_vars PROVE [Atomic!Next]_Atomic!vars
    OBVIOUS
  <2>1. CASE UNCHANGED vars
    <3>1. UNCHANGED Atomic!vars
      BY <2>1, MapShown DEF vars, Atomic!vars
    <3>2. QED
      BY <3>1
  <2>2. ASSUME NEW t \in Threads, Step(t) PROVE [Atomic!Next]_Atomic!vars
    BY <2>2, StepGood, GoodIsAtomic
  <2>3. QED
    BY <2>1, <2>2 DEF Next
<1>3. QED
  BY <1>1, <1>2, InvCorrect, PTL DEF Spec, AtomicCalls, Atomic!Spec
=============================================================================
