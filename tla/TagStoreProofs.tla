---------------------------- MODULE TagStoreProofs ----------------------------
(***************************************************************************)
(* Theorems about the tag stores, for every table: the two halves of a tag *)
(* write and the lookups by arithmetic of SingleTable, the sizes of the    *)
(* filter's arrays (FilterSizes), and the block Bloom filter (SimdBlock).  *)
(***************************************************************************)
EXTENDS SingleTable, FilterSizes, SimdBlock,
        FiniteSetTheorems, WellFoundedInduction, TLAPS

-----------------------------------------------------------------------------
(* Powers of two and induction on natural numbers, by sets. *)

LEMMA LeastNat ==
  ASSUME NEW S \in SUBSET Nat, S # {}
  PROVE  \E m \in S : \A n \in S : m <= n
<1>1. PICK m \in S : \A n \in S : ~ (<<n, m>> \in OpToRel(<, Nat))
  BY NatLessThanWellFounded, WFMin, Zenon
<1>2. ASSUME NEW n \in S PROVE m <= n
  <2>1. ~ (<<n, m>> \in {ss \in Nat \X Nat : ss[1] < ss[2]})
    BY <1>1 DEF OpToRel
  <2>2. QED
    BY <2>1
<1>3. QED
  BY <1>2

LEMMA NatInd ==
  ASSUME NEW S, 0 \in S, \A n \in Nat : n \in S => n + 1 \in S
  PROVE  \A n \in Nat : n \in S
<1>1. SUFFICES ASSUME Nat \ S # {} PROVE FALSE
  OBVIOUS
<1>2. PICK m \in Nat \ S : \A n \in Nat \ S : m <= n
  BY <1>1, LeastNat
<1>3. m - 1 \in Nat /\ m - 1 \in S
  BY <1>2
<1>4. (m - 1) + 1 \in S
  BY <1>3
<1>5. QED
  BY <1>2, <1>4

LEMMA PowerType ==
  ASSUME NEW n \in Nat
  PROVE  2^n \in Nat /\ 2^n >= 1
<1>1. IsFiniteSet(1 .. n) /\ Cardinality(1 .. n) = n
  BY FS_Interval
<1>2. IsFiniteSet(SUBSET (1 .. n)) /\ Cardinality(SUBSET (1 .. n)) = 2^n
  BY <1>1, FS_SUBSET
<1>3. Cardinality(SUBSET (1 .. n)) \in Nat /\ Cardinality(SUBSET (1 .. n)) # 0
  BY <1>2, FS_CardinalityType, FS_EmptySet
<1>4. QED
  BY <1>2, <1>3

\* A number more doubles the number of subsets.
LEMMA PowerDoubles ==
  ASSUME NEW n \in Nat
  PROVE  2^(n + 1) = 2 * 2^n
<1> DEFINE Old == SUBSET (1 .. n)
           New == {S \in SUBSET (1 .. n + 1) : n + 1 \in S}
           f == [S \in Old |-> S \cup {n + 1}]
<1>1. \A m \in Nat : /\ IsFiniteSet(SUBSET (1 .. m))
                     /\ Cardinality(SUBSET (1 .. m)) = 2^m
  <2>1. ASSUME NEW m \in Nat
        PROVE  IsFiniteSet(SUBSET (1 .. m)) /\ Cardinality(SUBSET (1 .. m)) = 2^m
    <3>1. IsFiniteSet(1 .. m) /\ Cardinality(1 .. m) = m
      BY FS_Interval
    <3>2. QED
      BY <3>1, FS_SUBSET
  <2>2. QED
    BY <2>1
<1>2. ExistsBijection(Old, New)
  <2>1. f \in [Old -> New]
    OBVIOUS
  <2>2. ASSUME NEW S \in Old, NEW T \in Old, f[S] = f[T] PROVE S = T
    BY <2>2
  <2>3. ASSUME NEW T \in New PROVE \E S \in Old : f[S] = T
    <3>1. T \ {n + 1} \in Old /\ f[T \ {n + 1}] = T
      OBVIOUS
    <3>2. QED
      BY <3>1
  <2> HIDE DEF f, Old, New
  <2>4. f \in Injection(Old, New)
    BY <2>1, <2>2 DEF Injection, IsInjective
  <2>5. f \in Surjection(Old, New)
    BY <2>1, <2>3 DEF Surjection
  <2>6. f \in Bijection(Old, New)
    BY <2>4, <2>5 DEF Bijection
  <2>7. QED
    BY <2>6 DEF ExistsBijection
<1>3. IsFiniteSet(Old) /\ Cardinality(Old) = 2^n
  BY <1>1
<1>4. IsFiniteSet(New) /\ Cardinality(New) = 2^n
  <2> HIDE DEF Old, New
  <2> QED
    BY <1>2, <1>3, FS_Bijection
<1>5. Cardinality(Old \cap New) = 0
  <2>1. Old \cap New = {}
    OBVIOUS
  <2>2. QED
    BY <2>1, FS_EmptySet
<1>6. SUBSET (1 .. n + 1) = Old \cup New
  OBVIOUS
<1>7. Cardinality(Old \cup New) = 2^n + 2^n - 0
  <2> HIDE DEF Old, New
  <2> QED
    BY <1>3, <1>4, <1>5, FS_Union
<1>8. Cardinality(SUBSET (1 .. n + 1)) = 2^(n + 1)
  BY <1>1
<1>9. 2^(n + 1) = 2^n + 2^n - 0
  <2> HIDE DEF Old, New
  <2> QED
    BY <1>6, <1>7, <1>8
<1>10. 2^n \in Nat
  BY PowerType
<1>11. QED
  BY <1>9, <1>10

LEMMA PowerGrows ==
  ASSUME NEW m \in Nat, NEW n \in Nat, m <= n
  PROVE  2^m <= 2^n
<1> DEFINE S == {d \in Nat : 2^m <= 2^(m + d)}
<1>1. 0 \in S
  BY PowerType
<1>2. ASSUME NEW d \in Nat, d \in S PROVE d + 1 \in S
  <2>1. m + d \in Nat /\ (m + d) + 1 = m + (d + 1)
    OBVIOUS
  <2>2. 2^(m + (d + 1)) = 2 * 2^(m + d) /\ 2^(m + d) \in Nat /\ 2^m \in Nat
    BY <2>1, PowerDoubles, PowerType
  <2>3. 2^m <= 2^(m + d)
    BY <1>2
  <2>4. QED
    BY <2>2, <2>3
<1>3. \A d \in Nat : d \in S
  <2> HIDE DEF S
  <2> QED
    BY <1>1, <1>2, NatInd
<1>4. n - m \in Nat /\ m + (n - m) = n
  OBVIOUS
<1>5. 2^m <= 2^(m + (n - m))
  BY <1>3, <1>4
<1>6. QED
  BY <1>4, <1>5

-----------------------------------------------------------------------------
(* The value of a word. It is a fold over the word's positions in the order  *)
(* CHOOSE takes them; f holds the folds of all parts of S.                   *)

Any(s) == CHOOSE x \in s : TRUE
Folding(f, S) ==
  \A s \in SUBSET S : f[s] = IF s = {} THEN 0 ELSE 2^Any(s) + f[s \ {Any(s)}]
FoldsOver(f, S) == f \in [SUBSET S -> Nat] /\ Folding(f, S)

LEMMA Smaller ==
  ASSUME NEW s, IsFiniteSet(s), NEW n \in Nat, NEW x \in s, Cardinality(s) <= n + 1
  PROVE  IsFiniteSet(s \ {x}) /\ Cardinality(s \ {x}) <= n
<1>1. Cardinality(s) \in Nat
  BY FS_CardinalityType
<1>2. IsFiniteSet(s \ {x}) /\ Cardinality(s \ {x}) = Cardinality(s) - 1
  BY FS_RemoveElement
<1>3. QED
  BY <1>1, <1>2

LEMMA FoldsExist ==
  ASSUME NEW S \in SUBSET Nat, IsFiniteSet(S)
  PROVE  \E f : FoldsOver(f, S)
<1> DEFINE Next1(g) == [s \in SUBSET S |-> IF s = {} THEN 0 ELSE 2^Any(s) + g[s \ {Any(s)}]]
           Upto(n, g) == /\ g \in [SUBSET S -> Nat]
                         /\ \A s \in SUBSET S : Cardinality(s) <= n => g[s] = Next1(g)[s]
           I == {n \in Nat : \E g : Upto(n, g)}
<1>1. \A s \in SUBSET S : IsFiniteSet(s) /\ Cardinality(s) \in Nat
  BY FS_Subset, FS_CardinalityType
<1>2. \A s \in SUBSET S : s # {} => Any(s) \in s /\ 2^Any(s) \in Nat /\ s \ {Any(s)} \in SUBSET S
  BY PowerType DEF Any
<1>3. ASSUME NEW g \in [SUBSET S -> Nat] PROVE Next1(g) \in [SUBSET S -> Nat]
  BY <1>2
<1>4. 0 \in I
  <2>1. PICK g : g = [s \in SUBSET S |-> 0]
    OBVIOUS
  <2>2. \A s \in SUBSET S : Cardinality(s) <= 0 => s = {}
    BY <1>1, FS_EmptySet
  <2>3. Upto(0, g)
    BY <2>1, <2>2
  <2>4. QED
    BY <2>3
<1>5. ASSUME NEW n \in Nat, n \in I PROVE n + 1 \in I
  <2>1. PICK g : Upto(n, g)
    BY <1>5
  <2>2. PICK h : h = Next1(g)
    OBVIOUS
  <2>3. h \in [SUBSET S -> Nat]
    BY <1>3, <2>1, <2>2
  <2>4. ASSUME NEW s \in SUBSET S, Cardinality(s) <= n + 1 PROVE h[s] = Next1(h)[s]
    <3>1. CASE s = {}
      BY <2>2, <3>1
    <3>2. CASE s # {}
      <4>1. s \ {Any(s)} \in SUBSET S /\ Cardinality(s \ {Any(s)}) <= n
        BY <1>1, <1>2, <2>4, <3>2, Smaller
      <4>2. g[s \ {Any(s)}] = h[s \ {Any(s)}]
        BY <2>1, <2>2, <4>1
      <4>3. h[s] = 2^Any(s) + g[s \ {Any(s)}]
        BY <2>2, <3>2
      <4>4. QED
        BY <3>2, <4>2, <4>3
    <3>3. QED
      BY <3>1, <3>2
  <2>5. Upto(n + 1, h)
    BY <2>3, <2>4
  <2>6. QED
    <3> HIDE DEF Upto
    <3> QED
      BY <2>5
<1>6. \A n \in Nat : n \in I
  <2> HIDE DEF I
  <2> QED
    BY <1>4, <1>5, NatInd
<1>7. Cardinality(S) \in Nat
  BY FS_CardinalityType
<1>8. PICK g : Upto(Cardinality(S), g)
  BY <1>6, <1>7
<1>9. \A s \in SUBSET S : Cardinality(s) <= Cardinality(S)
  BY FS_Subset
<1>10. FoldsOver(g, S)
  BY <1>8, <1>9 DEF FoldsOver, Folding
<1>11. QED
  BY <1>10

\* The folds of two words agree where they overlap; the values of g may be of
\* any kind.
LEMMA FoldsAgree ==
  ASSUME NEW S \in SUBSET Nat, IsFiniteSet(S), NEW T \in SUBSET S, NEW f, FoldsOver(f, S),
         NEW g, Folding(g, T)
  PROVE  \A s \in SUBSET T : g[s] = f[s]
<1> DEFINE I == {n \in Nat : \A s \in SUBSET T : Cardinality(s) <= n => g[s] = f[s]}
<1>1. \A s \in SUBSET T : IsFiniteSet(s) /\ Cardinality(s) \in Nat
  BY FS_Subset, FS_CardinalityType
<1>2. \A s \in SUBSET T : s \in SUBSET S
  OBVIOUS
<1>3. 0 \in I
  <2>1. \A s \in SUBSET T : Cardinality(s) <= 0 => s = {}
    BY <1>1, FS_EmptySet
  <2>2. f[{}] = 0 /\ g[{}] = 0
    BY DEF FoldsOver, Folding
  <2>3. QED
    BY <2>1, <2>2
<1>4. ASSUME NEW n \in Nat, n \in I PROVE n + 1 \in I
  <2>1. SUFFICES ASSUME NEW s \in SUBSET T, Cardinality(s) <= n + 1 PROVE g[s] = f[s]
    OBVIOUS
  <2>0. CASE s = {}
    BY <2>0 DEF FoldsOver, Folding
  <2>8. SUFFICES ASSUME s # {} PROVE g[s] = f[s]
    BY <2>0
  <2>2. Any(s) \in s
    BY <2>8 DEF Any
  <2>3. s \ {Any(s)} \in SUBSET T /\ Cardinality(s \ {Any(s)}) <= n
    BY <1>1, <2>1, <2>2, Smaller
  <2>4. g[s \ {Any(s)}] = f[s \ {Any(s)}]
    BY <1>4, <2>3
  <2>5. g[s] = 2^Any(s) + g[s \ {Any(s)}]
    BY <2>8 DEF Folding
  <2>6. f[s] = 2^Any(s) + f[s \ {Any(s)}]
    BY <1>2, <2>8 DEF FoldsOver, Folding
  <2>7. QED
    BY <2>4, <2>5, <2>6
<1>5. \A n \in Nat : n \in I
  <2> HIDE DEF I
  <2> QED
    BY <1>3, <1>4, NatInd
<1>6. QED
  BY <1>1, <1>5

LEMMA ValueIsFold ==
  ASSUME NEW S \in SUBSET Nat, IsFiniteSet(S), NEW f, FoldsOver(f, S), NEW T \in SUBSET S
  PROVE  Value(T) = f[T]
<1> DEFINE Eq(g) == g = [s \in SUBSET T |->
                          IF s = {} THEN 0
                          ELSE LET x == CHOOSE y \in s : TRUE IN 2^x + g[s \ {x}]]
<1>1. Value(T) = (CHOOSE g : Eq(g))[T]
  BY DEF Value, MapThenSumSet, MapThenFoldSet
<1>2. \E g : Eq(g)
  <2>1. PICK g : FoldsOver(g, T)
    BY FoldsExist, FS_Subset
  <2>2. Eq(g)
    BY <2>1 DEF FoldsOver, Folding, Any
  <2>3. QED
    BY <2>2
<1>3. PICK g : g = (CHOOSE h : Eq(h)) /\ Eq(g)
  <2> HIDE DEF Eq
  <2> QED
    BY <1>2
<1>4. Folding(g, T)
  BY <1>3 DEF Folding, Any
<1>5. \A s \in SUBSET T : g[s] = f[s]
  <2> HIDE DEF Eq
  <2> QED
    BY <1>4, FoldsAgree
<1>6. QED
  <2> HIDE DEF Eq
  <2> QED
    BY <1>1, <1>3, <1>5

LEMMA ValueEmpty == Value({}) = 0
<1>1. IsFiniteSet({}) /\ {} \in SUBSET Nat
  BY FS_EmptySet
<1>2. PICK f : FoldsOver(f, {})
  BY <1>1, FoldsExist
<1>3. Value({}) = f[{}]
  BY <1>1, <1>2, ValueIsFold
<1>4. QED
  BY <1>2, <1>3 DEF FoldsOver, Folding

\* Whichever position comes first.
LEMMA ValueAdds ==
  ASSUME NEW S \in SUBSET Nat, IsFiniteSet(S), NEW x \in S
  PROVE  /\ Value(S) \in Nat /\ Value(S \ {x}) \in Nat
         /\ Value(S) = 2^x + Value(S \ {x})
<1>1. PICK f : FoldsOver(f, S)
  BY FoldsExist
<1>2. \A s \in SUBSET S : IsFiniteSet(s) /\ Cardinality(s) \in Nat
  BY FS_Subset, FS_CardinalityType
<1>3. \A s \in SUBSET S : f[s] \in Nat
  BY <1>1 DEF FoldsOver
<1> DEFINE I == {n \in Nat : \A s \in SUBSET S, y \in S :
                   y \in s /\ Cardinality(s) <= n => f[s] = 2^y + f[s \ {y}]}
<1>4. 0 \in I
  <2>1. \A s \in SUBSET S : Cardinality(s) <= 0 => s = {}
    BY <1>2, FS_EmptySet
  <2>2. QED
    BY <2>1
<1>5. ASSUME NEW n \in Nat, n \in I PROVE n + 1 \in I
  <2>1. SUFFICES ASSUME NEW s \in SUBSET S, NEW y \in S, y \in s, Cardinality(s) <= n + 1
                 PROVE  f[s] = 2^y + f[s \ {y}]
    OBVIOUS
  <2>2. PICK z : z = Any(s) /\ z \in s
    BY <2>1 DEF Any
  <2>3. f[s] = 2^z + f[s \ {z}]
    BY <1>1, <2>1, <2>2 DEF FoldsOver, Folding
  <2>4. CASE y = z
    BY <2>3, <2>4
  <2>5. CASE y # z
    <3>1. /\ s \ {z} \in SUBSET S /\ y \in s \ {z} /\ Cardinality(s \ {z}) <= n
          /\ s \ {y} \in SUBSET S /\ z \in s \ {y} /\ Cardinality(s \ {y}) <= n
      BY <1>2, <2>1, <2>2, <2>5, Smaller
    <3>2. f[s \ {z}] = 2^y + f[(s \ {z}) \ {y}]
      BY <1>5, <3>1
    <3>3. f[s \ {y}] = 2^z + f[(s \ {y}) \ {z}]
      BY <1>5, <2>2, <3>1
    <3>4. (s \ {z}) \ {y} = (s \ {y}) \ {z}
      OBVIOUS
    <3>5. 2^y \in Nat /\ 2^z \in Nat /\ f[(s \ {y}) \ {z}] \in Nat
      BY <1>3, <2>1, <2>2, PowerType
    <3>6. QED
      BY <2>3, <3>2, <3>3, <3>4, <3>5
  <2>6. QED
    BY <2>4, <2>5
<1>6. \A n \in Nat : n \in I
  <2> HIDE DEF I
  <2> QED
    BY <1>4, <1>5, NatInd
<1>7. f[S] = 2^x + f[S \ {x}]
  <2>1. Cardinality(S) \in Nat /\ Cardinality(S) \in I
    BY <1>2, <1>6
  <2>2. QED
    BY <2>1
<1>8. Value(S) = f[S] /\ Value(S \ {x}) = f[S \ {x}]
  BY <1>1, ValueIsFold
<1>9. QED
  BY <1>3, <1>7, <1>8

LEMMA ValueZero ==
  ASSUME NEW S \in SUBSET Nat, IsFiniteSet(S)
  PROVE  Value(S) \in Nat /\ (Value(S) = 0 <=> S = {})
<1>1. CASE S = {}
  BY <1>1, ValueEmpty
<1>2. CASE S # {}
  <2>1. PICK x \in S : TRUE
    BY <1>2
  <2>2. Value(S) \in Nat /\ Value(S \ {x}) \in Nat /\ Value(S) = 2^x + Value(S \ {x})
    BY ValueAdds
  <2>3. 2^x \in Nat /\ 2^x >= 1
    BY PowerType
  <2>4. QED
    BY <1>2, <2>2, <2>3
<1>3. QED
  BY <1>1, <1>2

\* The word whose lowest n bits are ones is 2^n - 1.
LEMMA ValueOfOnes ==
  ASSUME NEW n \in Nat
  PROVE  Value(0 .. n - 1) + 1 = 2^n
<1> DEFINE I == {m \in Nat : Value(0 .. m - 1) + 1 = 2^m}
<1>1. 0 \in I
  <2>1. 0 .. 0 - 1 = {} /\ 2^0 = 1
    OBVIOUS
  <2>2. QED
    BY <2>1, ValueEmpty
<1>2. ASSUME NEW m \in Nat, m \in I PROVE m + 1 \in I
  <2>1. /\ 0 .. (m + 1) - 1 \in SUBSET Nat /\ IsFiniteSet(0 .. (m + 1) - 1)
        /\ m \in 0 .. (m + 1) - 1 /\ (0 .. (m + 1) - 1) \ {m} = 0 .. m - 1
    BY FS_Interval
  <2>2. /\ Value(0 .. (m + 1) - 1) \in Nat /\ Value(0 .. m - 1) \in Nat
        /\ Value(0 .. (m + 1) - 1) = 2^m + Value(0 .. m - 1)
    BY <2>1, ValueAdds
  <2>3. 2^(m + 1) = 2 * 2^m /\ 2^m \in Nat
    BY PowerDoubles, PowerType
  <2>4. Value(0 .. m - 1) + 1 = 2^m
    BY <1>2
  <2>5. QED
    BY <2>2, <2>3, <2>4
<1>3. \A m \in Nat : m \in I
  <2> HIDE DEF I
  <2> QED
    BY <1>1, <1>2, NatInd
<1>4. QED
  BY <1>3

-----------------------------------------------------------------------------
(* Lookups by arithmetic on the whole bucket. *)

LaneBits(x, j) == Shr(x, j * bits_per_tag) \cap 0 .. bits_per_tag - 1

LEMMA LaneZero ==
  ASSUME bits_per_tag \in Nat, NEW x, NEW j
  PROVE  Lane(x, j) \in Nat /\ (Lane(x, j) = 0 <=> LaneBits(x, j) = {})
<1>1. LaneBits(x, j) \in SUBSET Nat /\ IsFiniteSet(LaneBits(x, j))
  <2>1. LaneBits(x, j) \in SUBSET (0 .. bits_per_tag - 1) /\ IsFiniteSet(0 .. bits_per_tag - 1)
    BY FS_Interval DEF LaneBits
  <2>2. QED
    BY <2>1, FS_Subset
<1>2. Lane(x, j) = Value(LaneBits(x, j))
  BY DEF Lane, LaneBits
<1>3. QED
  BY <1>1, <1>2, ValueZero

\* Half of the values of a lane, its top bit.
LEMMA TopOfLane ==
  ASSUME bits_per_tag \in {4, 8, 12, 16}
  PROVE  \E top \in Nat : /\ top >= 2 /\ 2^(bits_per_tag - 1) = top /\ 2^bits_per_tag = 2 * top
                          /\ \A a \in Int : /\ a \in {-2, -1} => a % (2 * top) >= top
                                            /\ a \in 0 .. top - 1 => a % (2 * top) < top
<1>1. CASE bits_per_tag = 4
  <2>1. 2^3 = 8 /\ 2^4 = 16 /\ bits_per_tag - 1 = 3
    BY <1>1
  <2>2. QED
    BY <1>1, <2>1
<1>2. CASE bits_per_tag = 8
  <2>1. 2^7 = 128 /\ 2^8 = 256 /\ bits_per_tag - 1 = 7
    BY <1>2
  <2>2. QED
    BY <1>2, <2>1
<1>3. CASE bits_per_tag = 12
  <2>1. 2^11 = 2048 /\ 2^12 = 4096 /\ bits_per_tag - 1 = 11
    BY <1>3
  <2>2. QED
    BY <1>3, <2>1
<1>4. CASE bits_per_tag = 16
  <2>1. 2^15 = 32768 /\ 2^16 = 65536 /\ bits_per_tag - 1 = 15
    BY <1>4
  <2>2. QED
    BY <1>4, <2>1
<1>5. QED
  BY <1>1, <1>2, <1>3, <1>4

\* A borrow comes from a lane that is zero, so it makes no difference.
LEMMA HasZeroRight ==
  ASSUME bits_per_tag \in {4, 8, 12, 16}, NEW x
  PROVE  haszero(x) <=> \E j \in Slots : LaneBits(x, j) = {}
<1> DEFINE borrow(j) == IF j > 0 /\ Borrows(x, j - 1) THEN 1 ELSE 0
           less(j) == Lane(x, j) - 1 - borrow(j)
<1>1. PICK top \in Nat :
        /\ top >= 2 /\ 2^(bits_per_tag - 1) = top /\ 2^bits_per_tag = 2 * top
        /\ \A a \in Int : /\ a \in {-2, -1} => a % (2 * top) >= top
                          /\ a \in 0 .. top - 1 => a % (2 * top) < top
  BY TopOfLane
<1>2. \A j : Lane(x, j) \in Nat /\ (Lane(x, j) = 0 <=> LaneBits(x, j) = {})
  BY LaneZero
<1>3. haszero(x) <=> \E j \in Slots : less(j) % (2 * top) >= top /\ Lane(x, j) < top
  BY <1>1 DEF haszero
<1>4. \A j \in Slots : /\ borrow(j) \in {0, 1} /\ less(j) \in Int
                       /\ borrow(j) = 1 => \E k \in Slots : Lane(x, k) = 0
  <2>1. \A j \in Slots : j > 0 /\ Borrows(x, j - 1) => \E k \in Slots : Lane(x, k) = 0
    BY DEF Borrows, Slots
  <2>2. \A j \in Slots : borrow(j) \in {0, 1}
    OBVIOUS
  <2>3. QED
    BY <1>2, <2>1, <2>2
<1> HIDE DEF borrow
<1>5. ASSUME NEW j \in Slots, less(j) % (2 * top) >= top, Lane(x, j) < top
      PROVE  \E k \in Slots : LaneBits(x, k) = {}
  <2>1. less(j) \notin 0 .. top - 1
    BY <1>1, <1>4, <1>5
  <2>2. Lane(x, j) = 0 \/ borrow(j) = 1
    BY <1>2, <1>4, <1>5, <2>1
  <2>3. QED
    BY <1>2, <1>4, <2>2
<1>6. ASSUME NEW j \in Slots, LaneBits(x, j) = {}
      PROVE  less(j) % (2 * top) >= top /\ Lane(x, j) < top
  <2>1. Lane(x, j) = 0
    BY <1>2, <1>6
  <2>2. less(j) \in {-2, -1}
    BY <1>4, <2>1
  <2>3. QED
    BY <1>1, <1>4, <2>1, <2>2
<1>7. QED
  BY <1>3, <1>5, <1>6

\* The lanes of x ^ (1..1 * tag) are zero where those of x are the tag.
LEMMA HasValueRight ==
  ASSUME bits_per_tag \in {4, 8, 12, 16}, NEW x \in SUBSET Int,
         NEW tag \in SUBSET (0 .. bits_per_tag - 1)
  PROVE  hasvalue(x, tag) <=> \E j \in Slots : LaneBits(x, j) = tag
<1> DEFINE ones == UNION {Shl(tag, j * bits_per_tag) : j \in Slots}
           y == (x \ ones) \cup (ones \ x)
<1>1. hasvalue(x, tag) <=> haszero(y)
  BY DEF hasvalue
<1>2. ASSUME NEW j \in Slots, NEW k \in 0 .. bits_per_tag - 1
      PROVE  k + j * bits_per_tag \in ones <=> k \in tag
  <2>1. \A i \in Slots : \A l \in tag : l + i * bits_per_tag = k + j * bits_per_tag => l = k
    <3>1. SUFFICES ASSUME NEW i \in Slots, NEW l \in 0 .. bits_per_tag - 1,
                          l + i * bits_per_tag = k + j * bits_per_tag
                   PROVE  l = k
      OBVIOUS
    <3>2. i \in {0, 1, 2, 3} /\ j \in {0, 1, 2, 3} /\ bits_per_tag \in Nat
      BY DEF Slots
    <3>3. QED
      BY <3>1, <3>2
  <2>2. k + j * bits_per_tag \in ones <=>
           \E i \in Slots : \E l \in tag : l + i * bits_per_tag = k + j * bits_per_tag
    BY DEF Shl
  <2>3. QED
    BY <2>1, <2>2
<1>3. ASSUME NEW j \in Slots, NEW z \in SUBSET Int, NEW k \in 0 .. bits_per_tag - 1
      PROVE  k \in LaneBits(z, j) <=> k + j * bits_per_tag \in z
  <2>1. j * bits_per_tag \in Nat
    BY DEF Slots
  <2>2. PICK m \in Nat : m = j * bits_per_tag
    BY <2>1
  <2>3. k \in LaneBits(z, j) <=> \E b \in z : b >= m /\ k = b - m
    BY <2>2 DEF LaneBits, Shr
  <2>4. QED
    BY <2>2, <2>3
<1>4. y \in SUBSET Int
  <2>1. ASSUME NEW j \in Slots PROVE Shl(tag, j * bits_per_tag) \in SUBSET Int
    <3>1. PICK m \in Nat : m = j * bits_per_tag
      BY DEF Slots
    <3>2. QED
      BY <3>1 DEF Shl
  <2>2. ones \in SUBSET Int
    BY <2>1
  <2> HIDE DEF ones
  <2>3. QED
    BY <2>2
<1>5. ASSUME NEW j \in Slots PROVE LaneBits(y, j) = {} <=> LaneBits(x, j) = tag
  <2> HIDE DEF ones
  <2>1. ASSUME NEW k \in 0 .. bits_per_tag - 1
        PROVE  k \in LaneBits(y, j) <=> ~(k \in LaneBits(x, j) <=> k \in tag)
    <3>1. k \in LaneBits(y, j) <=> k + j * bits_per_tag \in y
      BY <1>3, <1>4
    <3>2. k \in LaneBits(x, j) <=> k + j * bits_per_tag \in x
      BY <1>3
    <3>3. QED
      BY <1>2, <3>1, <3>2
  <2>2. LaneBits(y, j) \subseteq 0 .. bits_per_tag - 1 /\ LaneBits(x, j) \subseteq 0 .. bits_per_tag - 1
    BY DEF LaneBits
  <2> HIDE DEF y
  <2>3. QED
    BY <2>1, <2>2
<1>6. haszero(y) <=> \E j \in Slots : LaneBits(y, j) = {}
  BY HasZeroRight
<1>7. QED
  BY <1>1, <1>5, <1>6

-----------------------------------------------------------------------------
(* The table under its threads: what is true whatever the width of a tag. *)

Busy(t) == thread[t] # Idle

TableTyped ==
  /\ bits_per_tag \in Widths
  /\ bits_ \in [Indices -> SUBSET (0 .. 63)]
  /\ counters_ \in [Indices -> 0 .. 3]
  /\ thread \in [Threads -> Plans \cup {Idle}]

\* The counter of a bucket is odd while one thread, and no second one, is at work
\* on it.
Owned ==
  /\ \A t, u \in Threads : Busy(t) /\ Busy(u) /\ thread[t].i = thread[u].i => t = u
  /\ \A i \in Indices : counters_[i] % 2 = 1 <=> \E t \in Threads : Busy(t) /\ thread[t].i = i

FirstSlot(i, tag, j) == ReadTag(i, j) = tag /\ \A k \in Slots : k < j => ReadTag(i, k) # tag

\* The slot a thread is about to write is still the one it chose, and what it is
\* about to write there is a tag of that slot or a zero.
Writable(i, j, tag) ==
  \E h \in Hashes :
     \/ /\ tag = TagHash(bits_per_tag, h)[j]
        /\ FirstSlot(i, Free, j) \/ \A k \in Slots : ReadTag(i, k) # Free
     \/ /\ tag = Free
        /\ \E k \in Slots : FirstSlot(i, TagHash(bits_per_tag, h)[k], j)

LEMMA WidthType ==
  ASSUME bits_per_tag \in Widths
  PROVE  bits_per_tag \in {2, 4, 8, 12, 16}
BY TableAssumption

LEMMA TagHashType ==
  ASSUME NEW w \in {2, 4, 8, 12, 16}, NEW h, NEW j \in Slots
  PROVE  TagHash(w, h)[j] \in SUBSET (0 .. w - 1) /\ TagHash(w, h)[j] # {}
<1>1. {0} \in SUBSET (0 .. w - 1)
  OBVIOUS
<1>2. TagHash(w, h)[j] = IF Shr(h, 16 + j * w) \cap 0 .. w - 1 = {} THEN {0}
                         ELSE Shr(h, 16 + j * w) \cap 0 .. w - 1
  BY DEF TagHash
<1>3. QED
  BY <1>1, <1>2

LEMMA ReadTagIsLane ==
  ASSUME NEW i, NEW j
  PROVE  ReadTag(i, j) = LaneBits(bits_[i], j)
BY DEF ReadTag, LaneBits

\* The slot CHOOSE takes is the first with that tag.
LEMMA FirstIsFirst ==
  ASSUME NEW i, NEW tag, \E j \in Slots : ReadTag(i, j) = tag
  PROVE  First(i, tag) \in Slots /\ FirstSlot(i, tag, First(i, tag))
<1> DEFINE S == {j \in Slots : ReadTag(i, j) = tag}
<1>1. S \in SUBSET Nat /\ S # {}
  BY DEF Slots
<1>2. PICK m \in S : \A n \in S : m <= n
  <2> HIDE DEF S
  <2> QED
    BY <1>1, LeastNat
<1>3. \E j \in Slots : ReadTag(i, j) = tag /\ \A k \in Slots : ReadTag(i, k) = tag => j <= k
  BY <1>2
<1>4. /\ First(i, tag) \in Slots /\ ReadTag(i, First(i, tag)) = tag
      /\ \A k \in Slots : ReadTag(i, k) = tag => First(i, tag) <= k
  BY <1>3 DEF First
<1>5. ASSUME NEW k \in Slots, k < First(i, tag) PROVE ReadTag(i, k) # tag
  BY <1>4, <1>5 DEF Slots
<1>6. QED
  BY <1>4, <1>5 DEF FirstSlot

\* A bucket with less than four tags has a free slot, and one with four has none.
LEMMA RoomMeansFree ==
  ASSUME NEW i
  PROVE  NumTagsInBucket(i) < 4 <=> \E j \in Slots : ReadTag(i, j) = Free
<1> DEFINE S == {j \in Slots : ReadTag(i, j) # Free}
<1>1. IsFiniteSet(Slots) /\ Cardinality(Slots) = 4
  <2>1. \A n \in Nat : IsFiniteSet(0 .. n) /\ Cardinality(0 .. n) = n + 1
    BY FS_Interval
  <2>2. PICK n \in Nat : n = 3
    OBVIOUS
  <2>3. Slots = 0 .. n
    BY <2>2 DEF Slots
  <2>4. IsFiniteSet(Slots)
    BY <2>1, <2>3
  <2>5. Cardinality(Slots) = n + 1
    BY <2>1, <2>3
  <2>6. QED
    BY <2>2, <2>4, <2>5
<1>2. S \in SUBSET Slots
  OBVIOUS
<1>3. Cardinality(S) \in Nat /\ Cardinality(S) <= 4 /\ (Cardinality(S) = 4 => S = Slots)
  <2> HIDE DEF S
  <2>1. IsFiniteSet(S)
    BY <1>1, <1>2, FS_Subset
  <2>2. QED
    BY <1>1, <1>2, <2>1, FS_Subset, FS_CardinalityType
<1>4. S = Slots => Cardinality(S) = 4
  <2> HIDE DEF S
  <2> QED
    BY <1>1
<1>5. NumTagsInBucket(i) = Cardinality(S)
  BY DEF NumTagsInBucket
<1>6. S = Slots <=> ~ \E j \in Slots : ReadTag(i, j) = Free
  OBVIOUS
<1>7. QED
  <2> HIDE DEF S
  <2> QED
    BY <1>3, <1>4, <1>5, <1>6

\* What a thread chooses to write.
LEMMA BeginStep ==
  ASSUME TableTyped, NEW t \in Threads, Begin(t)
  PROVE  \E i \in Indices, j \in Slots, tag \in SUBSET (0 .. 15) :
            /\ thread[t] = Idle /\ thread' = [thread EXCEPT ![t] = Plan(i, j, tag)]
            /\ counters_[i] % 2 = 0 /\ counters_' = [counters_ EXCEPT ![i] = (@ + 1) % 4]
            /\ bits_' = bits_ /\ Writable(i, j, tag)
            /\ tag \in SUBSET (0 .. bits_per_tag - 1)
<1>1. PICK i \in Indices, h \in Hashes :
        \/ \E kickout \in BOOLEAN : InsertTagToBucket(t, i, h, kickout)
        \/ DeleteTagFromBucket(t, i, h)
  BY DEF Begin
<1>2. thread[t] = Idle /\ bits_' = bits_
  BY DEF Begin
<1>3. counters_[i] % 2 = 0 /\ counters_' = [counters_ EXCEPT ![i] = (@ + 1) % 4]
  BY <1>1 DEF InsertTagToBucket, DeleteTagFromBucket, increment_odd, Bump
<1>4. bits_per_tag \in {2, 4, 8, 12, 16}
  BY WidthType DEF TableTyped
<1>5. SUBSET (0 .. bits_per_tag - 1) \subseteq SUBSET (0 .. 15)
  BY <1>4
<1>6. \A j \in Slots : TagHash(bits_per_tag, h)[j] \in SUBSET (0 .. bits_per_tag - 1)
  BY <1>4, TagHashType
<1>7. CASE \E kickout \in BOOLEAN : InsertTagToBucket(t, i, h, kickout)
  <2>0. PICK kickout \in BOOLEAN : InsertTagToBucket(t, i, h, kickout)
    BY <1>7
  <2>1. PICK j \in InsertSlots(i, kickout) :
          thread' = [thread EXCEPT ![t] = Plan(i, j, TagHash(bits_per_tag, h)[j])]
    BY <2>0 DEF InsertTagToBucket
  <2>2. /\ j \in Slots
        /\ FirstSlot(i, Free, j) \/ \A k \in Slots : ReadTag(i, k) # Free
    <3>1. CASE NumTagsInBucket(i) < 4
      BY <2>1, <3>1, RoomMeansFree, FirstIsFirst DEF InsertSlots
    <3>2. CASE ~ (NumTagsInBucket(i) < 4)
      BY <2>1, <3>2, RoomMeansFree DEF InsertSlots
    <3>3. QED
      BY <3>1, <3>2
  <2>3. Writable(i, j, TagHash(bits_per_tag, h)[j])
    BY <2>2 DEF Writable
  <2>4. TagHash(bits_per_tag, h)[j] \in SUBSET (0 .. 15)
    BY <1>5, <1>6, <2>2
  <2>5. QED
    BY <1>2, <1>3, <1>6, <2>1, <2>2, <2>3, <2>4
<1>8. CASE DeleteTagFromBucket(t, i, h)
  <2>1. PICK k \in Slots :
          /\ \E l \in Slots : ReadTag(i, l) = TagHash(bits_per_tag, h)[k]
          /\ thread' = [thread EXCEPT ![t] = Plan(i, First(i, TagHash(bits_per_tag, h)[k]), Free)]
    BY <1>8 DEF DeleteTagFromBucket
  <2> DEFINE j == First(i, TagHash(bits_per_tag, h)[k])
  <2>2. j \in Slots /\ FirstSlot(i, TagHash(bits_per_tag, h)[k], j)
    BY <2>1, FirstIsFirst
  <2>3. Writable(i, j, Free)
    BY <2>2 DEF Writable
  <2>4. Free \in SUBSET (0 .. 15) /\ Free \in SUBSET (0 .. bits_per_tag - 1)
    BY DEF Free
  <2> HIDE DEF j
  <2>5. thread' = [thread EXCEPT ![t] = Plan(i, j, Free)]
    BY <2>1 DEF j
  <2>6. QED
    BY <1>2, <1>3, <2>2, <2>3, <2>4, <2>5
<1>9. QED
  BY <1>1, <1>7, <1>8

LEMMA TableInit ==
  ASSUME Init
  PROVE  TableTyped /\ Owned
<1>1. TableTyped
  BY DEF Init, TableTyped
<1>2. Owned
  BY DEF Init, Owned, Busy
<1>3. QED
  BY <1>1, <1>2

LEMMA ReadPlan ==
  ASSUME NEW p \in Plans, NEW word \in SUBSET (0 .. 63)
  PROVE  [[p EXCEPT !.read = TRUE] EXCEPT !.word = word] \in Plans
BY DEF Plans

\* The plan of a busy thread, a record.
LEMMA BusyPlan ==
  ASSUME TableTyped, NEW t \in Threads, Busy(t)
  PROVE  /\ thread[t] \in Plans /\ thread[t].i \in Indices /\ thread[t].j \in Slots
         /\ thread[t].tag \in SUBSET (0 .. 15) /\ thread[t].word \in SUBSET (0 .. 63)
BY DEF TableTyped, Busy, Plans

LEMMA TableTypedStep ==
  ASSUME TableTyped, [Next]_vars
  PROVE  TableTyped'
<1>1. CASE UNCHANGED vars
  BY <1>1 DEF vars, TableTyped
<1>2. ASSUME NEW t \in Threads, Begin(t), UNCHANGED bits_per_tag PROVE TableTyped'
  <2>1. PICK i \in Indices, j \in Slots, tag \in SUBSET (0 .. 15) :
            /\ thread' = [thread EXCEPT ![t] = Plan(i, j, tag)]
            /\ counters_' = [counters_ EXCEPT ![i] = (@ + 1) % 4] /\ bits_' = bits_
    BY <1>2, BeginStep
  <2>2. Plan(i, j, tag) \in Plans
    BY DEF Plan, Plans
  <2>3. thread' \in [Threads -> Plans \cup {Idle}]
    BY <2>1, <2>2 DEF TableTyped
  <2>4. counters_' \in [Indices -> 0 .. 3]
    BY <2>1 DEF TableTyped
  <2>5. QED
    BY <1>2, <2>1, <2>3, <2>4 DEF TableTyped
<1>3. ASSUME NEW t \in Threads, LoadWord(t), UNCHANGED bits_per_tag PROVE TableTyped'
  <2>1. Busy(t) /\ bits_' = bits_ /\ counters_' = counters_
    BY <1>3 DEF LoadWord, Busy
  <2>2. PICK word \in SUBSET (0 .. 63) :
          thread' = [thread EXCEPT ![t].read = TRUE, ![t].word = word]
    <3>1. bits_[thread[t].i] \cap Word(thread[t].j) \in SUBSET (0 .. 63)
      BY <2>1, BusyPlan DEF TableTyped
    <3>2. QED
      BY <1>3, <3>1 DEF LoadWord
  <2>3. [[thread[t] EXCEPT !.read = TRUE] EXCEPT !.word = word] \in Plans
    BY <2>1, BusyPlan, ReadPlan
  <2>4. thread' \in [Threads -> Plans \cup {Idle}]
    BY <2>2, <2>3 DEF TableTyped
  <2>5. QED
    BY <1>3, <2>1, <2>4 DEF TableTyped
<1>4. ASSUME NEW t \in Threads, StoreWord(t), UNCHANGED bits_per_tag PROVE TableTyped'
  <2>1. Busy(t)
    BY <1>4 DEF StoreWord, Busy
  <2> DEFINE w == thread[t]
             new == NewWord(w.word, w.j, w.tag)
  <2>2. /\ w.i \in Indices /\ w.j \in Slots /\ w.tag \in SUBSET (0 .. 15)
        /\ w.word \in SUBSET (0 .. 63)
    BY <2>1, BusyPlan
  <2>3. bits_per_tag \in {2, 4, 8, 12, 16}
    BY WidthType DEF TableTyped
  <2>4. Shl(w.tag \cap 0 .. bits_per_tag - 1, w.j * bits_per_tag) \in SUBSET (0 .. 63)
    <3>1. SUFFICES ASSUME NEW k \in 0 .. bits_per_tag - 1 PROVE k + w.j * bits_per_tag \in 0 .. 63
      BY DEF Shl
    <3>2. w.j \in {0, 1, 2, 3}
      BY <2>2 DEF Slots
    <3>3. QED
      BY <2>3, <3>2
  <2>5. new \in SUBSET (0 .. 63)
    BY <2>2, <2>4 DEF NewWord
  <2>6. /\ bits_' = [bits_ EXCEPT ![w.i] = (@ \ Word(w.j)) \cup new]
        /\ counters_' = [counters_ EXCEPT ![w.i] = (@ + 1) % 4]
        /\ thread' = [thread EXCEPT ![t] = Idle]
    BY <1>4 DEF StoreWord, increment_even, Bump
  <2> HIDE DEF new, w
  <2>7. bits_' \in [Indices -> SUBSET (0 .. 63)]
    BY <2>2, <2>5, <2>6 DEF TableTyped
  <2>8. counters_' \in [Indices -> 0 .. 3]
    BY <2>2, <2>6 DEF TableTyped
  <2>9. thread' \in [Threads -> Plans \cup {Idle}]
    BY <2>6 DEF TableTyped
  <2>10. QED
    BY <1>4, <2>7, <2>8, <2>9 DEF TableTyped
<1>5. QED
  BY <1>1, <1>2, <1>3, <1>4 DEF Next

LEMMA OwnedStep ==
  ASSUME TableTyped, Owned, [Next]_vars
  PROVE  Owned'
<1>1. CASE UNCHANGED vars
  BY <1>1 DEF vars, Owned, Busy
<1>2. ASSUME NEW t \in Threads, Begin(t) PROVE Owned'
  <2>1. PICK i \in Indices, j \in Slots, tag \in SUBSET (0 .. 15) :
            /\ thread[t] = Idle /\ thread' = [thread EXCEPT ![t] = Plan(i, j, tag)]
            /\ counters_[i] % 2 = 0 /\ counters_' = [counters_ EXCEPT ![i] = (@ + 1) % 4]
    BY <1>2, BeginStep
  <2>2. Plan(i, j, tag) \in Plans /\ Plan(i, j, tag).i = i /\ Plan(i, j, tag) # Idle
    <3>1. Plan(i, j, tag) \in Plans /\ Plan(i, j, tag).i = i
      BY DEF Plan, Plans
    <3>2. QED
      BY <3>1, TableAssumption
  <2>3. /\ thread'[t] = Plan(i, j, tag)
        /\ \A u \in Threads \ {t} : thread'[u] = thread[u]
    BY <2>1 DEF TableTyped
  <2>4. \A u \in Threads : Busy(u) => thread[u].i # i
    BY <2>1 DEF Owned
  <2>5. counters_'[i] % 2 = 1 /\ \A k \in Indices \ {i} : counters_'[k] = counters_[k]
    BY <2>1 DEF TableTyped
  <2>6. QED
    BY <2>1, <2>2, <2>3, <2>4, <2>5 DEF Owned, Busy
<1>3. ASSUME NEW t \in Threads, LoadWord(t) PROVE Owned'
  <2>1. Busy(t) /\ counters_' = counters_
    BY <1>3 DEF LoadWord, Busy
  <2>2. PICK word \in SUBSET (0 .. 63) :
          thread' = [thread EXCEPT ![t].read = TRUE, ![t].word = word]
    <3>1. bits_[thread[t].i] \cap Word(thread[t].j) \in SUBSET (0 .. 63)
      BY <2>1, BusyPlan DEF TableTyped
    <3>2. QED
      BY <1>3, <3>1 DEF LoadWord
  <2>3. /\ thread'[t].i = thread[t].i
        /\ \A u \in Threads \ {t} : thread'[u] = thread[u]
    BY <2>1, <2>2, BusyPlan DEF TableTyped, Plans
  <2>4. thread'[t] # Idle
    <3>1. [[thread[t] EXCEPT !.read = TRUE] EXCEPT !.word = word] \in Plans
      BY <2>1, BusyPlan, ReadPlan
    <3>2. thread'[t] = [[thread[t] EXCEPT !.read = TRUE] EXCEPT !.word = word]
      BY <2>2 DEF TableTyped
    <3>3. QED
      BY <3>1, <3>2, TableAssumption
  <2>5. QED
    BY <2>1, <2>3, <2>4 DEF Owned, Busy
<1>4. ASSUME NEW t \in Threads, StoreWord(t) PROVE Owned'
  <2>1. Busy(t)
    BY <1>4 DEF StoreWord, Busy
  <2>2. PICK i \in Indices : i = thread[t].i
    BY <2>1, BusyPlan
  <2>3. /\ thread' = [thread EXCEPT ![t] = Idle]
        /\ counters_' = [counters_ EXCEPT ![i] = (@ + 1) % 4]
    BY <1>4, <2>2 DEF StoreWord, increment_even, Bump
  <2>4. thread'[t] = Idle /\ \A u \in Threads \ {t} : thread'[u] = thread[u]
    BY <2>3 DEF TableTyped
  <2>5. counters_[i] % 2 = 1 /\ \A u \in Threads \ {t} : Busy(u) => thread[u].i # i
    BY <2>1, <2>2 DEF Owned
  <2>6. counters_'[i] % 2 = 0 /\ \A k \in Indices \ {i} : counters_'[k] = counters_[k]
    BY <2>3, <2>5 DEF TableTyped
  <2>7. QED
    BY <2>1, <2>2, <2>4, <2>5, <2>6 DEF Owned, Busy
<1>5. QED
  BY <1>1, <1>2, <1>3, <1>4 DEF Next

\* The types of the table's state, and that a bucket's counter is odd exactly
\* while one thread owns it: no second thread is ever between the two halves of a
\* write to the same bucket (cuckoofilter.h's increment_odd and increment_even).
THEOREM TableOwned == Spec => [](TableTyped /\ Owned)
<1>1. Init => TableTyped /\ Owned
  BY TableInit
<1>2. (TableTyped /\ Owned) /\ [Next]_vars => (TableTyped /\ Owned)'
  BY TableTypedStep, OwnedStep
<1>3. QED
  BY <1>1, <1>2, PTL DEF Spec

\* The test for a tag by arithmetic finds it exactly when a slot holds it: for
\* tags of 4, 8, 12 and 16 bits, the zero of a free slot as well, whatever the
\* bits of the bucket (bitsutil.h, singletable.h:144-200).
THEOREM FindsExactlyHolds == Spec => []FindsExactly
<1>1. TableTyped => FindsExactly
  <2>1. SUFFICES ASSUME TableTyped, NEW i \in Indices,
                        NEW tag \in {Free} \cup {TagHash(bits_per_tag, h)[j] : h \in Hashes, j \in Slots}
                 PROVE  FindTagInBucket(i, tag) <=> \E j \in Slots : ReadTag(i, j) = tag
    BY DEF FindsExactly
  <2>2. bits_per_tag \in {2, 4, 8, 12, 16}
    BY <2>1, WidthType DEF TableTyped
  <2>3. tag \in SUBSET (0 .. bits_per_tag - 1)
    BY <2>1, <2>2, TagHashType DEF Free
  <2>4. bits_[i] \in SUBSET Int
    BY <2>1 DEF TableTyped
  <2>5. CASE bits_per_tag = 2
    BY <2>5 DEF FindTagInBucket
  <2>6. CASE bits_per_tag # 2
    <3>1. hasvalue(bits_[i], tag) <=> \E j \in Slots : LaneBits(bits_[i], j) = tag
      BY <2>2, <2>3, <2>4, <2>6, HasValueRight
    <3>2. QED
      BY <2>6, <3>1, ReadTagIsLane DEF FindTagInBucket
  <2>7. QED
    BY <2>5, <2>6
<1>2. QED
  BY <1>1, TableOwned, PTL

-----------------------------------------------------------------------------
(* Writes of a tag, for every width that clears the slot first: 4, 8, 12 and *)
(* 16 bits, not 2.                                                           *)

NoTwoBits == 2 \notin Widths

SlotBits(j) == j * bits_per_tag .. (j + 1) * bits_per_tag - 1

LEMMA ClearingWidth ==
  ASSUME NoTwoBits, bits_per_tag \in Widths
  PROVE  bits_per_tag \in {4, 8, 12, 16}
BY TableAssumption DEF NoTwoBits

\* The word a write reads covers the slot.
LEMMA SlotInWord ==
  ASSUME bits_per_tag \in {4, 8, 12, 16}, NEW j \in Slots
  PROVE  SlotBits(j) \subseteq Word(j)
<1>1. j \in {0, 1, 2, 3}
  BY DEF Slots
<1>2. CASE bits_per_tag = 4
  BY <1>1, <1>2 DEF SlotBits, Word
<1>3. CASE bits_per_tag = 8
  BY <1>1, <1>3 DEF SlotBits, Word
<1>4. CASE bits_per_tag = 12
  BY <1>1, <1>4 DEF SlotBits, Word
<1>5. CASE bits_per_tag = 16
  BY <1>1, <1>5 DEF SlotBits, Word
<1>6. QED
  BY <1>2, <1>3, <1>4, <1>5

\* A bit of lane k, where it lies in the bucket.
LEMMA LaneBit ==
  ASSUME bits_per_tag \in Nat, NEW k \in Slots, NEW z \in SUBSET Int,
         NEW b \in 0 .. bits_per_tag - 1
  PROVE  b \in LaneBits(z, k) <=> b + k * bits_per_tag \in z
<1>1. PICK m \in Nat : m = k * bits_per_tag
  BY DEF Slots
<1>2. b \in LaneBits(z, k) <=> \E c \in z : c >= m /\ b = c - m
  BY <1>1 DEF LaneBits, Shr
<1>3. QED
  BY <1>1, <1>2

\* A bucket x after a tag was written to its slot j.
Written(x, j, tag) == (x \ Word(j)) \cup NewWord(x \cap Word(j), j, tag)

\* A word read from the bucket, changed and written back, changes the slot to the
\* tag and no other slot, though the word holds a part of a neighbour as well.
LEMMA WriteSlot ==
  ASSUME bits_per_tag \in {4, 8, 12, 16}, NEW x \in SUBSET (0 .. 63), NEW j \in Slots,
         NEW tag \in SUBSET (0 .. bits_per_tag - 1)
  PROVE  /\ LaneBits(Written(x, j, tag), j) = tag
         /\ \A k \in Slots \ {j} : LaneBits(Written(x, j, tag), k) = LaneBits(x, k)
<1> DEFINE put == Shl(tag, j * bits_per_tag)
           y == Written(x, j, tag)
<1>1. bits_per_tag \in Nat /\ j \in {0, 1, 2, 3}
  BY DEF Slots
<1>2. y = (x \ SlotBits(j)) \cup put
  <2>1. NewWord(x \cap Word(j), j, tag) = ((x \cap Word(j)) \ SlotBits(j)) \cup put
    <3>1. tag \cap 0 .. bits_per_tag - 1 = tag
      OBVIOUS
    <3>2. QED
      BY <3>1 DEF NewWord, SlotBits
  <2>2. SlotBits(j) \subseteq Word(j)
    BY SlotInWord
  <2> HIDE DEF put
  <2>3. QED
    BY <2>1, <2>2 DEF Written
<1> HIDE DEF y
<1>3. put \in SUBSET Int /\ x \in SUBSET Int
  <2>1. PICK m \in Nat : m = j * bits_per_tag
    BY <1>1
  <2>2. QED
    BY <2>1 DEF Shl
<1>4. y \in SUBSET Int
  <2> HIDE DEF put
  <2> QED
    BY <1>2, <1>3
<1>5. ASSUME NEW k \in Slots, NEW b \in 0 .. bits_per_tag - 1
      PROVE  /\ b + k * bits_per_tag \in SlotBits(j) <=> k = j
             /\ b + k * bits_per_tag \in put <=> k = j /\ b \in tag
  <2>1. k \in {0, 1, 2, 3}
    BY DEF Slots
  <2>2. b + k * bits_per_tag \in SlotBits(j) <=> k = j
    BY <1>1, <2>1 DEF SlotBits
  <2>3. \A c \in 0 .. bits_per_tag - 1 :
          c + j * bits_per_tag = b + k * bits_per_tag <=> k = j /\ b = c
    BY <1>1, <2>1
  <2>4. b + k * bits_per_tag \in put <=> \E c \in tag : c + j * bits_per_tag = b + k * bits_per_tag
    BY DEF Shl
  <2>5. QED
    BY <2>2, <2>3, <2>4
<1> HIDE DEF put
<1>10. \A z \in SUBSET Int, k \in Slots, b \in 0 .. bits_per_tag - 1 :
          b \in LaneBits(z, k) <=> b + k * bits_per_tag \in z
  BY <1>1, LaneBit
<1>6. ASSUME NEW k \in Slots, NEW b \in 0 .. bits_per_tag - 1
      PROVE  b \in LaneBits(y, k) <=> IF k = j THEN b \in tag ELSE b \in LaneBits(x, k)
  <2>1. b \in LaneBits(y, k) <=> b + k * bits_per_tag \in y
    BY <1>4, <1>10, Zenon
  <2>2. b \in LaneBits(x, k) <=> b + k * bits_per_tag \in x
    BY <1>3, <1>10, Zenon
  <2>3. b + k * bits_per_tag \in y <=>
          b + k * bits_per_tag \in put \/ (b + k * bits_per_tag \in x /\ b + k * bits_per_tag \notin SlotBits(j))
    BY <1>2
  <2>4. QED
    BY <1>5, <2>1, <2>2, <2>3
<1>7. \A z, k : LaneBits(z, k) \subseteq 0 .. bits_per_tag - 1
  BY DEF LaneBits
<1>8. LaneBits(y, j) = tag
  <2>1. \A b \in 0 .. bits_per_tag - 1 : b \in LaneBits(y, j) <=> b \in tag
    BY <1>6
  <2>2. LaneBits(y, j) \subseteq 0 .. bits_per_tag - 1 /\ tag \subseteq 0 .. bits_per_tag - 1
    BY <1>7
  <2>3. QED
    BY <2>1, <2>2
<1>9. ASSUME NEW k \in Slots \ {j} PROVE LaneBits(y, k) = LaneBits(x, k)
  BY <1>6, <1>7
<1>11. QED
  BY <1>8, <1>9 DEF y

\* The word a thread has read is still what the bucket holds there, and its choice
\* of slot and tag is still a right one.
Fresh(t) ==
  /\ thread[t].read => thread[t].word = bits_[thread[t].i] \cap Word(thread[t].j)
  /\ Writable(thread[t].i, thread[t].j, thread[t].tag)
  /\ thread[t].tag \in SUBSET (0 .. bits_per_tag - 1)

PlansFresh == \A t \in Threads : Busy(t) => Fresh(t)

TagsKnown == \A i \in Indices, j \in Slots :
  ReadTag(i, j) \in {Free} \cup {TagHash(bits_per_tag, h)[j] : h \in Hashes}

WriteInv == TableTyped /\ Owned /\ PlansFresh /\ TagsKnown

\* The second half of a write: one slot of one bucket changes.
LEMMA StoreStep ==
  ASSUME NoTwoBits, TableTyped, PlansFresh, NEW t \in Threads, StoreWord(t), UNCHANGED bits_per_tag
  PROVE  \E i \in Indices, j \in Slots, tag \in SUBSET (0 .. 15) :
            /\ thread[t].i = i /\ thread[t].j = j /\ thread[t].tag = tag
            /\ Busy(t) /\ Writable(i, j, tag)
            /\ thread' = [thread EXCEPT ![t] = Idle]
            /\ \A k \in Indices \ {i} : bits_'[k] = bits_[k]
            /\ \A k \in Indices, l \in Slots :
                  ReadTag(k, l)' = IF k = i /\ l = j THEN tag ELSE ReadTag(k, l)
<1>1. Busy(t) /\ thread[t].read
  BY DEF StoreWord, Busy
<1>2. PICK i \in Indices, j \in Slots, tag \in SUBSET (0 .. 15) :
        thread[t].i = i /\ thread[t].j = j /\ thread[t].tag = tag
  BY <1>1, BusyPlan
<1>3. /\ thread[t].word = bits_[i] \cap Word(j)
      /\ Writable(i, j, tag) /\ tag \in SUBSET (0 .. bits_per_tag - 1)
  BY <1>1, <1>2 DEF PlansFresh, Fresh
<1>4. /\ thread' = [thread EXCEPT ![t] = Idle]
      /\ bits_' = [bits_ EXCEPT ![i] = (@ \ Word(j)) \cup NewWord(bits_[i] \cap Word(j), j, tag)]
  BY <1>2, <1>3 DEF StoreWord
<1>5. \A k \in Indices \ {i} : bits_'[k] = bits_[k]
  BY <1>4 DEF TableTyped
<1>6. bits_'[i] = (bits_[i] \ Word(j)) \cup NewWord(bits_[i] \cap Word(j), j, tag)
  BY <1>4 DEF TableTyped
<1>7. bits_per_tag \in {4, 8, 12, 16}
  BY ClearingWidth DEF TableTyped
<1>8. bits_[i] \in SUBSET (0 .. 63)
  BY DEF TableTyped
<1>9. /\ LaneBits(bits_'[i], j) = tag
      /\ \A l \in Slots \ {j} : LaneBits(bits_'[i], l) = LaneBits(bits_[i], l)
  <2>1. bits_'[i] = Written(bits_[i], j, tag)
    BY <1>6 DEF Written
  <2>2. QED
    BY <1>3, <1>7, <1>8, <2>1, WriteSlot
<1>10. \A k \in Indices, l \in Slots : ReadTag(k, l)' = LaneBits(bits_'[k], l)
  BY DEF ReadTag, LaneBits
<1>11. \A k \in Indices, l \in Slots :
          ReadTag(k, l)' = IF k = i /\ l = j THEN tag ELSE ReadTag(k, l)
  BY <1>5, <1>9, <1>10, ReadTagIsLane
<1>12. QED
  BY <1>1, <1>2, <1>3, <1>4, <1>5, <1>11

\* What a plan promises rests on the bits of its own bucket.
LEMMA FreshStays ==
  ASSUME NEW t \in Threads, TableTyped, Busy(t), Fresh(t), thread'[t] = thread[t],
         bits_'[thread[t].i] = bits_[thread[t].i], bits_per_tag' = bits_per_tag
  PROVE  Fresh(t)'
<1>1. PICK i \in Indices, j \in Slots, tag \in SUBSET (0 .. 15) :
        thread[t].i = i /\ thread[t].j = j /\ thread[t].tag = tag
  BY BusyPlan
<1>2. \A l \in Slots : ReadTag(i, l)' = ReadTag(i, l)
  BY <1>1 DEF ReadTag
<1>3. Writable(i, j, tag)' = Writable(i, j, tag)
  BY <1>2 DEF Writable, FirstSlot
<1>4. Word(j)' = Word(j)
  BY DEF Word
<1>5. QED
  BY <1>1, <1>3, <1>4 DEF Fresh

LEMMA WriteInvInit ==
  ASSUME Init
  PROVE  WriteInv
<1>1. PlansFresh
  BY DEF Init, PlansFresh, Busy
<1>2. \A i \in Indices, j \in Slots : ReadTag(i, j) = Free
  BY DEF Init, ReadTag, Shr, Free
<1>3. QED
  BY <1>1, <1>2, TableInit DEF WriteInv, TagsKnown

LEMMA WriteInvStep ==
  ASSUME NoTwoBits, WriteInv, [Next]_vars
  PROVE  WriteInv'
<1> USE DEF WriteInv
<1>1. TableTyped' /\ Owned'
  BY TableTypedStep, OwnedStep
<1>2. CASE UNCHANGED vars
  <2>1. \A i, j : ReadTag(i, j)' = ReadTag(i, j)
    BY <1>2 DEF ReadTag, vars
  <2>2. TagsKnown'
    BY <1>2, <2>1 DEF TagsKnown, vars
  <2>3. ASSUME NEW t \in Threads, Busy(t)' PROVE Fresh(t)'
    <3>1. Busy(t) /\ Fresh(t)
      BY <1>2, <2>3 DEF PlansFresh, Busy, vars
    <3>2. QED
      BY <1>2, <3>1, FreshStays DEF vars
  <2>4. QED
    BY <1>1, <2>2, <2>3 DEF PlansFresh
<1>3. ASSUME NEW t \in Threads, Begin(t), bits_per_tag' = bits_per_tag PROVE WriteInv'
  <2>1. PICK i \in Indices, j \in Slots, tag \in SUBSET (0 .. 15) :
            /\ thread' = [thread EXCEPT ![t] = Plan(i, j, tag)]
            /\ bits_' = bits_ /\ Writable(i, j, tag)
            /\ tag \in SUBSET (0 .. bits_per_tag - 1)
    BY <1>3, BeginStep
  <2>2. \A k, l : ReadTag(k, l)' = ReadTag(k, l)
    BY <1>3, <2>1 DEF ReadTag
  <2>3. TagsKnown'
    BY <1>3, <2>2 DEF TagsKnown
  <2>4. /\ thread'[t] = Plan(i, j, tag)
        /\ \A u \in Threads \ {t} : thread'[u] = thread[u]
    BY <2>1 DEF TableTyped
  <2>5. Fresh(t)'
    <3>1. /\ thread'[t].i = i /\ thread'[t].j = j /\ thread'[t].tag = tag
          /\ thread'[t].read = FALSE
      BY <2>4 DEF Plan
    <3>2. Writable(i, j, tag)'
      BY <1>3, <2>1, <2>2 DEF Writable, FirstSlot
    <3>3. QED
      BY <1>3, <2>1, <3>1, <3>2 DEF Fresh
  <2>6. ASSUME NEW u \in Threads \ {t}, Busy(u)' PROVE Fresh(u)'
    <3>1. Busy(u) /\ Fresh(u)
      BY <2>4, <2>6 DEF PlansFresh, Busy
    <3>2. QED
      BY <1>3, <2>1, <2>4, <3>1, FreshStays
  <2>7. QED
    BY <1>1, <2>3, <2>5, <2>6 DEF PlansFresh
<1>4. ASSUME NEW t \in Threads, LoadWord(t), bits_per_tag' = bits_per_tag PROVE WriteInv'
  <2>1. /\ Busy(t) /\ bits_' = bits_
        /\ thread' = [thread EXCEPT ![t].read = TRUE,
                                    ![t].word = bits_[thread[t].i] \cap Word(thread[t].j)]
    BY <1>4 DEF LoadWord, Busy
  <2>2. \A k, l : ReadTag(k, l)' = ReadTag(k, l)
    BY <1>4, <2>1 DEF ReadTag
  <2>3. TagsKnown'
    BY <1>4, <2>2 DEF TagsKnown
  <2>4. PICK i \in Indices, j \in Slots, tag \in SUBSET (0 .. 15) :
          thread[t].i = i /\ thread[t].j = j /\ thread[t].tag = tag
    BY <2>1, BusyPlan
  <2>5. /\ thread'[t].i = i /\ thread'[t].j = j /\ thread'[t].tag = tag
        /\ thread'[t].word = bits_[i] \cap Word(j)
        /\ \A u \in Threads \ {t} : thread'[u] = thread[u]
    BY <2>1, <2>4, BusyPlan DEF TableTyped, Plans
  <2>6. Fresh(t)'
    <3>1. Writable(i, j, tag) /\ tag \in SUBSET (0 .. bits_per_tag - 1)
      BY <2>1, <2>4 DEF PlansFresh, Fresh
    <3>2. Writable(i, j, tag)'
      BY <1>4, <2>2, <3>1 DEF Writable, FirstSlot
    <3>3. Word(j)' = Word(j)
      BY <1>4 DEF Word
    <3>4. QED
      BY <1>4, <2>1, <2>5, <3>1, <3>2, <3>3 DEF Fresh
  <2>7. ASSUME NEW u \in Threads \ {t}, Busy(u)' PROVE Fresh(u)'
    <3>1. Busy(u) /\ Fresh(u)
      BY <2>5, <2>7 DEF PlansFresh, Busy
    <3>2. QED
      BY <1>4, <2>1, <2>5, <3>1, FreshStays
  <2>8. QED
    BY <1>1, <2>3, <2>6, <2>7 DEF PlansFresh
<1>5. ASSUME NEW t \in Threads, StoreWord(t), bits_per_tag' = bits_per_tag PROVE WriteInv'
  <2>1. PICK i \in Indices, j \in Slots, tag \in SUBSET (0 .. 15) :
            /\ thread[t].i = i
            /\ Busy(t) /\ Writable(i, j, tag)
            /\ thread' = [thread EXCEPT ![t] = Idle]
            /\ \A k \in Indices \ {i} : bits_'[k] = bits_[k]
            /\ \A k \in Indices, l \in Slots :
                  ReadTag(k, l)' = IF k = i /\ l = j THEN tag ELSE ReadTag(k, l)
    BY <1>5, StoreStep
  <2>2. tag \in {Free} \cup {TagHash(bits_per_tag, h)[j] : h \in Hashes}
    BY <2>1 DEF Writable
  <2>3. TagsKnown'
    BY <1>5, <2>1, <2>2 DEF TagsKnown
  <2>4. thread'[t] = Idle /\ \A u \in Threads \ {t} : thread'[u] = thread[u]
    BY <2>1 DEF TableTyped
  <2>5. ASSUME NEW u \in Threads, Busy(u)' PROVE Fresh(u)'
    <3>1. u # t /\ Busy(u) /\ Fresh(u)
      BY <2>4, <2>5 DEF PlansFresh, Busy
    <3>2. thread[u].i \in Indices \ {i}
      BY <2>1, <3>1, BusyPlan DEF Owned
    <3>3. QED
      BY <1>5, <2>1, <2>4, <3>1, <3>2, FreshStays
  <2>6. QED
    BY <1>1, <2>3, <2>5 DEF PlansFresh
<1>6. QED
  BY <1>2, <1>3, <1>4, <1>5 DEF Next

\* What the writes keep: the table's types and owners, that a word read is still
\* what the bucket holds and a chosen slot still the right one, and that a slot's
\* tag is one a key can have there. With tags of 2 bits it fails: the slot is not
\* cleared before the write (singletable.h:109-111).
THEOREM WritesKeepTable == ASSUME NoTwoBits PROVE Spec => []WriteInv
<1>1. Init => WriteInv
  BY WriteInvInit
<1>2. WriteInv /\ [Next]_vars => WriteInv'
  BY WriteInvStep
<1>3. QED
  BY <1>1, <1>2, PTL DEF Spec

\* SingleTable's own type invariant follows: a set tag is one a key can have in that
\* slot, and a bucket's counter is odd exactly while one thread is at work on it.
THEOREM TableTypeOK == ASSUME NoTwoBits PROVE Spec => []TypeOK
<1>1. WriteInv => TypeOK
  <2> SUFFICES ASSUME WriteInv PROVE TypeOK
    OBVIOUS
  <2>1. ASSUME NEW i \in Indices
        PROVE  Cardinality({t \in Threads : thread[t] # Idle /\ thread[t].i = i}) = counters_[i] % 2
    <3> DEFINE owners == {t \in Threads : thread[t] # Idle /\ thread[t].i = i}
    <3>1. CASE owners = {}
      <4>1. counters_[i] % 2 # 1 /\ counters_[i] \in 0 .. 3
        BY <3>1 DEF WriteInv, Owned, Busy, TableTyped
      <4>2. counters_[i] % 2 = 0
        BY <4>1
      <4>3. QED
        BY <3>1, <4>2, FS_EmptySet
    <3>2. CASE owners # {}
      <4>1. PICK t \in owners : TRUE
        BY <3>2
      <4>2. owners = {t} /\ counters_[i] % 2 = 1
        BY <4>1 DEF WriteInv, Owned, Busy
      <4>3. QED
        BY <4>2, FS_Singleton
    <3>3. QED
      BY <3>1, <3>2
  <2>2. QED
    BY <2>1 DEF WriteInv, TagsKnown, TypeOK
<1>2. QED
  BY <1>1, WritesKeepTable, PTL

\* When WriteTag returns, the slot holds the tag, be it a new one, one that replaces
\* another or the zero that frees the slot, with any number of other threads at
\* work on other buckets (singletable.h:105-142).
THEOREM WritesLandHolds == ASSUME NoTwoBits PROVE Spec => WritesLand
<1>1. WriteInv /\ [Next]_vars =>
        [\A t \in Threads : thread[t] # Idle /\ thread'[t] = Idle =>
            ReadTags'[thread[t].i][thread[t].j] = thread[t].tag]_vars
  <2>1. SUFFICES ASSUME WriteInv, Next, NEW t \in Threads, thread[t] # Idle, thread'[t] = Idle
                 PROVE  ReadTags'[thread[t].i][thread[t].j] = thread[t].tag
    OBVIOUS
  <2>2. TableTyped /\ Busy(t)
    BY <2>1 DEF WriteInv, Busy
  <2>3. PICK u \in Threads : Begin(u) \/ LoadWord(u) \/ StoreWord(u)
    BY <2>1 DEF Next
  <2>4. u = t /\ StoreWord(t)
    <3>1. CASE Begin(u)
      <4>1. thread[u] = Idle /\ \A v \in Threads \ {u} : thread'[v] = thread[v]
        BY <2>2, <3>1, BeginStep DEF TableTyped
      <4>2. QED
        BY <2>1, <4>1
    <3>2. CASE LoadWord(u)
      <4>1. TableTyped'
        BY <2>1, TableTypedStep DEF WriteInv
      <4>2. Busy(u) /\ \A v \in Threads \ {u} : thread'[v] = thread[v]
        BY <2>2, <3>2 DEF LoadWord, TableTyped, Busy
      <4>3. u = t
        BY <2>1, <4>2
      <4>4. thread'[t] = [[thread[t] EXCEPT !.read = TRUE] EXCEPT
                              !.word = bits_[thread[t].i] \cap Word(thread[t].j)]
        BY <2>2, <3>2, <4>3 DEF LoadWord, TableTyped
      <4>5. bits_[thread[t].i] \cap Word(thread[t].j) \in SUBSET (0 .. 63)
        BY <2>2, BusyPlan DEF TableTyped
      <4>6. thread'[t] \in Plans
        BY <2>2, <4>4, <4>5, BusyPlan DEF Plans
      <4>7. QED
        BY <2>1, <4>6, TableAssumption
    <3>3. CASE StoreWord(u)
      <4>1. \A v \in Threads \ {u} : thread'[v] = thread[v]
        BY <2>2, <3>3 DEF StoreWord, TableTyped
      <4>2. QED
        BY <2>1, <3>3, <4>1
    <3>4. QED
      BY <2>3, <3>1, <3>2, <3>3
  <2>5. PICK i \in Indices, j \in Slots, tag \in SUBSET (0 .. 15) :
          /\ thread[t].i = i /\ thread[t].j = j /\ thread[t].tag = tag
          /\ ReadTag(i, j)' = tag
    BY <2>1, <2>4, StoreStep DEF WriteInv, Next
  <2>6. ReadTags'[i][j] = ReadTag(i, j)'
    BY DEF ReadTags
  <2>7. QED
    BY <2>5, <2>6
<1>2. QED
  BY <1>1, WritesKeepTable, PTL DEF Spec, WritesLand

\* The two halves of a write refine one write of one slot: reading the word does
\* not show, and writing it back puts the tag into the first free slot (any, if
\* none is free) or frees the first slot that holds it, and changes nothing else,
\* though neighbours share the word (singletable.h:105-142, 202-230).
THEOREM WritesAreAtomicHolds == ASSUME NoTwoBits PROVE Spec => WritesAreAtomic
<1>1. Init => Array!Init
  <2>1. SUFFICES ASSUME Init PROVE Array!Init
    OBVIOUS
  <2>2. \A i \in Indices, j \in Slots : ReadTag(i, j) = Free
    BY <2>1 DEF Init, ReadTag, Shr, Free
  <2>3. QED
    BY <2>2 DEF Array!Init, ReadTags
<1>2. WriteInv /\ [Next]_vars => [Array!Next]_ReadTags
  <2>1. SUFFICES ASSUME WriteInv, [Next]_vars PROVE [Array!Next]_ReadTags
    OBVIOUS
  <2>2. ASSUME UNCHANGED <<bits_, bits_per_tag>> PROVE UNCHANGED ReadTags
    BY <2>2 DEF ReadTags, ReadTag
  <2>3. CASE UNCHANGED vars
    BY <2>2, <2>3 DEF vars
  <2>4. ASSUME NEW t \in Threads, Begin(t), UNCHANGED bits_per_tag PROVE UNCHANGED ReadTags
    BY <2>2, <2>4 DEF Begin
  <2>5. ASSUME NEW t \in Threads, LoadWord(t), UNCHANGED bits_per_tag PROVE UNCHANGED ReadTags
    BY <2>2, <2>5 DEF LoadWord
  <2>6. ASSUME NEW t \in Threads, StoreWord(t), UNCHANGED bits_per_tag PROVE Array!Next
    <3>1. PICK i \in Indices, j \in Slots, tag \in SUBSET (0 .. 15) :
            /\ Writable(i, j, tag)
            /\ \A k \in Indices, l \in Slots :
                  ReadTag(k, l)' = IF k = i /\ l = j THEN tag ELSE ReadTag(k, l)
      BY <2>1, <2>6, StoreStep DEF WriteInv
    <3>2. Array!Write(i, j, tag)
      <4>1. ReadTags' = [k \in Indices |-> [l \in Slots |-> ReadTag(k, l)']]
        BY DEF ReadTags
      <4>2. ReadTags' = [k \in Indices |->
                           [l \in Slots |-> IF k = i /\ l = j THEN tag ELSE ReadTag(k, l)]]
        BY <3>1, <4>1
      <4>3. [ReadTags EXCEPT ![i][j] = tag] =
              [k \in Indices |-> [l \in Slots |-> IF k = i /\ l = j THEN tag ELSE ReadTag(k, l)]]
        BY DEF ReadTags
      <4>4. QED
        BY <4>2, <4>3 DEF Array!Write
    <3>3. \A k \in Slots : ReadTags[i][k] = ReadTag(i, k)
      BY DEF ReadTags
    <3>4. \A any : FirstSlot(i, any, j) => Array!FirstWith(i, any, j)
      BY <3>3 DEF FirstSlot, Array!FirstWith
    <3>5. PICK h \in Hashes :
            \/ /\ tag = TagHash(bits_per_tag, h)[j]
               /\ FirstSlot(i, Free, j) \/ \A k \in Slots : ReadTag(i, k) # Free
            \/ /\ tag = Free
               /\ \E k \in Slots : FirstSlot(i, TagHash(bits_per_tag, h)[k], j)
      BY <3>1 DEF Writable
    <3>6. TagHash(bits_per_tag, h) \in TagSets
      BY <2>1 DEF TagSets, WriteInv, TableTyped
    <3>7. CASE /\ tag = TagHash(bits_per_tag, h)[j]
               /\ FirstSlot(i, Free, j) \/ \A k \in Slots : ReadTag(i, k) # Free
      <4>1. Array!Insert(i, TagHash(bits_per_tag, h))
        BY <3>2, <3>3, <3>4, <3>7 DEF Array!Insert
      <4>2. QED
        BY <3>6, <4>1 DEF Array!Next
    <3>8. CASE tag = Free /\ \E k \in Slots : FirstSlot(i, TagHash(bits_per_tag, h)[k], j)
      <4>1. PICK k \in Slots : FirstSlot(i, TagHash(bits_per_tag, h)[k], j)
        BY <3>8
      <4>2. Array!Delete(i, TagHash(bits_per_tag, h)[k])
        BY <3>2, <3>4, <3>8, <4>1 DEF Array!Delete
      <4>3. QED
        BY <3>6, <4>2 DEF Array!Next
    <3>9. QED
      BY <3>5, <3>7, <3>8
  <2>7. QED
    BY <2>1, <2>3, <2>4, <2>5, <2>6 DEF Next
<1>3. QED
  BY <1>1, <1>2, WritesKeepTable, PTL DEF Spec, WritesAreAtomic, Array!Spec

-----------------------------------------------------------------------------
(* The block Bloom filter. *)

\* A bucket holds the bits of the masks of the keys that were added to it, and no
\* others.
KeysOf(b) == {k \in added : bucket_idx(k) = b}
BlockInv ==
  /\ log_heap_space \in LogHeapSpaces /\ added \in SUBSET Keys
  /\ directory_ = [b \in 0 .. directory_mask_ |-> UNION {Mask(k) : k \in KeysOf(b)}]

LEMMA BucketInDirectory ==
  ASSUME log_heap_space \in LogHeapSpaces, NEW key \in Keys
  PROVE  bucket_idx(key) \in 0 .. directory_mask_
<1>1. log_heap_space \in Nat /\ hasher_[key] \in Nat
  BY HasherAssumption
<1>2. log_num_buckets_ \in Nat
  <2> DEFINE n == log_heap_space - LOG_BUCKET_BYTE_SIZE
  <2>1. n \in Int
    BY <1>1 DEF LOG_BUCKET_BYTE_SIZE
  <2> HIDE DEF n
  <2>2. \E m \in {1, n} : \A k \in {1, n} : m >= k
    BY <2>1
  <2>3. Max({1, n}) \in {1, n} /\ \A k \in {1, n} : Max({1, n}) >= k
    BY <2>2 DEF Max
  <2>4. QED
    BY <2>1, <2>3 DEF log_num_buckets_, n
<1>3. PICK m \in Nat : m = 2^log_num_buckets_ /\ m >= 1
  BY <1>2, PowerType
<1>4. directory_mask_ = m - 1 /\ bucket_idx(key) = hasher_[key] % (m - 1 + 1)
  BY <1>3 DEF directory_mask_, bucket_idx
<1>5. bucket_idx(key) = hasher_[key] % m
  BY <1>3, <1>4
<1>6. QED
  BY <1>1, <1>3, <1>4, <1>5

\* A key that was added is found, whatever was added since, and a key none of whose
\* bits another key of its bucket has set is not (simd-block.h:124-150).
THEOREM FindsWhatWasAddedHolds == BlockSpec => []FindsWhatWasAdded
<1>1. BlockInit => BlockInv
  BY DEF BlockInit, BlockInv, KeysOf
<1>2. BlockInv /\ [BlockNext]_block => BlockInv'
  <2>1. SUFFICES ASSUME BlockInv, [BlockNext]_block PROVE BlockInv'
    OBVIOUS
  <2>2. CASE UNCHANGED block
    <3>1. /\ log_num_buckets_' = log_num_buckets_ /\ directory_mask_' = directory_mask_
      BY <2>2 DEF block, log_num_buckets_, directory_mask_
    <3>2. \A k : bucket_idx(k)' = bucket_idx(k) /\ Mask(k)' = Mask(k)
      BY <3>1 DEF bucket_idx, Mask
    <3>3. QED
      BY <2>1, <2>2, <3>1, <3>2 DEF BlockInv, KeysOf, block
  <2>3. ASSUME NEW key \in Keys, Add(key) PROVE BlockInv'
    <3>1. log_heap_space' = log_heap_space /\ added' = added \cup {key}
      BY <2>3 DEF Add
    <3>2. /\ log_num_buckets_' = log_num_buckets_ /\ directory_mask_' = directory_mask_
      BY <3>1 DEF log_num_buckets_, directory_mask_
    <3>3. \A k : bucket_idx(k)' = bucket_idx(k) /\ Mask(k)' = Mask(k)
      BY <3>2 DEF bucket_idx, Mask
    <3>4. bucket_idx(key) \in 0 .. directory_mask_
      BY <2>1, BucketInDirectory DEF BlockInv
    <3>5. \A b : KeysOf(b)' = KeysOf(b) \cup {k \in {key} : bucket_idx(k) = b}
      BY <3>1, <3>3 DEF KeysOf
    <3>6. ASSUME NEW b \in 0 .. directory_mask_
          PROVE  directory_'[b] = UNION {Mask(k)' : k \in KeysOf(b)'}
      <4>1. UNION {Mask(k)' : k \in KeysOf(b)'} = UNION {Mask(k) : k \in KeysOf(b)'}
        BY <3>3
      <4>2. directory_[b] = UNION {Mask(k) : k \in KeysOf(b)}
        BY <2>1 DEF BlockInv
      <4>3. CASE bucket_idx(key) = b
        <5>1. KeysOf(b)' = KeysOf(b) \cup {key}
          BY <3>5, <4>3
        <5>2. directory_'[b] = directory_[b] \cup Mask(key)
          BY <2>1, <2>3, <4>3 DEF Add, BlockInv
        <5>3. QED
          BY <4>1, <4>2, <5>1, <5>2
      <4>4. CASE bucket_idx(key) # b
        <5>1. KeysOf(b)' = KeysOf(b)
          BY <3>5, <4>4
        <5>2. directory_'[b] = directory_[b]
          BY <2>1, <2>3, <4>4 DEF Add, BlockInv
        <5>3. QED
          BY <4>1, <4>2, <5>1, <5>2
      <4>5. QED
        BY <4>3, <4>4
    <3>7. directory_' = [b \in 0 .. directory_mask_ |-> directory_'[b]]
      BY <2>1, <2>3 DEF Add, BlockInv
    <3>8. directory_' = [b \in 0 .. directory_mask_ |-> UNION {Mask(k)' : k \in KeysOf(b)'}]
      BY <3>6, <3>7
    <3>9. QED
      BY <2>1, <3>1, <3>2, <3>8 DEF BlockInv
  <2>4. QED
    BY <2>1, <2>2, <2>3 DEF BlockNext
<1>3. BlockInv => FindsWhatWasAdded
  <2>1. SUFFICES ASSUME BlockInv, NEW key \in Keys
                 PROVE  /\ key \in added => Find(key)
                        /\ Find(key) => \A bit \in Mask(key) :
                             \E k \in added : bucket_idx(k) = bucket_idx(key) /\ bit \in Mask(k)
    BY DEF FindsWhatWasAdded
  <2>2. bucket_idx(key) \in 0 .. directory_mask_
    BY <2>1, BucketInDirectory DEF BlockInv
  <2>3. directory_[bucket_idx(key)] = UNION {Mask(k) : k \in KeysOf(bucket_idx(key))}
    BY <2>1, <2>2 DEF BlockInv
  <2>4. QED
    BY <2>3 DEF Find, KeysOf
<1>4. QED
  BY <1>1, <1>2, <1>3, PTL DEF BlockSpec

-----------------------------------------------------------------------------
(* The sizes of the filter's arrays. *)

\* The n highest places of a word of m + 1 are all ones.
Filled(word, n, m) == word \in SUBSET (0 .. m) /\ \A k \in 0 .. m : k > m - n => k \in word

\* Shifting a word's highest bits down fills as many places again.
LEMMA SmearDoubles ==
  ASSUME NEW m \in Nat, NEW n \in Nat \ {0}, NEW word, Filled(word, n, m)
  PROVE  Filled(Smear(word, n), n + n, m)
<1>1. word \in SUBSET (0 .. m)
  BY DEF Filled
<1>2. Smear(word, n) \in SUBSET (0 .. m)
  <2>1. ASSUME NEW b \in word, b >= n PROVE b - n \in 0 .. m
    BY <1>1, <2>1
  <2>2. QED
    BY <1>1, <2>1 DEF Smear
<1>3. ASSUME NEW k \in 0 .. m, k > m - (n + n) PROVE k \in Smear(word, n)
  <2>1. CASE k > m - n
    BY <2>1 DEF Smear, Filled
  <2>2. CASE ~ (k > m - n)
    <3>1. k + n \in 0 .. m /\ k + n > m - n /\ k + n >= n /\ k = (k + n) - n
      BY <1>3, <2>2
    <3>2. k + n \in word
      BY <3>1 DEF Filled
    <3>3. QED
      BY <3>1, <3>2 DEF Smear
  <2>3. QED
    BY <2>1, <2>2
<1>4. QED
  BY <1>2, <1>3 DEF Filled

LEMMA SmallDivisions ==
  ASSUME NEW n \in Nat, NEW d \in Nat \ {0}
  PROVE  (n < d => n \div d = 0) /\ (d <= n /\ n < 2 * d => n \div d = 1)
<1>1. n \div d \in Int /\ d * (n \div d) <= n /\ n < d * (n \div d) + d
  OBVIOUS
<1>2. QED
  BY <1>1

\* The bits of a number between two powers of two.
LEMMA OnesBelow ==
  ASSUME NEW n \in Nat, NEW m \in Places, 2^m <= n, n < 2^(m + 1)
  PROVE  Ones(n) \in SUBSET (0 .. m) /\ m \in Ones(n)
<1>1. m \in Nat /\ WordSize \in Nat
  BY SizesAssumption DEF Places
<1>2. m \in Ones(n)
  <2>1. PICK d \in Nat \ {0} : d = 2^m
    BY <1>1, PowerType
  <2>2. n < 2 * d
    BY <1>1, <2>1, PowerDoubles
  <2>3. n \div d = 1
    BY <2>1, <2>2, SmallDivisions
  <2>4. QED
    BY <2>1, <2>3 DEF Ones
<1>3. ASSUME NEW k \in Ones(n) PROVE k \in 0 .. m
  <2>1. k \in Nat /\ (n \div 2^k) % 2 = 1
    BY <1>1 DEF Ones, Places
  <2>2. SUFFICES ASSUME k >= m + 1 PROVE FALSE
    BY <1>1, <2>1
  <2>3. PICK d \in Nat \ {0} : d = 2^k
    BY <2>1, PowerType
  <2>4. 2^(m + 1) \in Nat /\ 2^(m + 1) <= d
    BY <1>1, <2>1, <2>2, <2>3, PowerGrows, PowerType
  <2>5. n \div d = 0
    BY <2>3, <2>4, SmallDivisions
  <2>6. QED
    BY <2>1, <2>3, <2>5
<1>4. QED
  BY <1>2, <1>3

\* upperpower2 is the least power of two that is no smaller.
LEMMA UpperPower ==
  ASSUME NEW x \in Nat, x >= 1, NEW room \in Places, x <= 2^room
  PROVE  \E p \in 0 .. room :
            upperpower2(x) = 2^p /\ x <= 2^p /\ (p = 0 \/ 2^(p - 1) < x)
<1>1. room \in Nat /\ WordSize \in Nat /\ room <= 63 /\ room <= WordSize - 1
  BY SizesAssumption DEF Places
<1> DEFINE S == {p \in Nat : x <= 2^p}
<1>2. PICK p \in S : \A n \in S : p <= n
  <2>1. S \in SUBSET Nat /\ S # {}
    BY <1>1
  <2> HIDE DEF S
  <2>2. QED
    BY <2>1, LeastNat
<1>3. p \in 0 .. room /\ x <= 2^p
  BY <1>1, <1>2
<1>4. p = 0 \/ (p - 1 \in Nat /\ 2^(p - 1) < x)
  <2>1. SUFFICES ASSUME p # 0 PROVE p - 1 \in Nat /\ 2^(p - 1) < x
    OBVIOUS
  <2>2. p - 1 \in Nat /\ p - 1 \notin S
    BY <1>2, <1>3, <2>1
  <2>3. 2^(p - 1) \in Nat
    BY <2>2, PowerType
  <2>4. QED
    BY <2>2, <2>3
<1> HIDE DEF S
<1> DEFINE w1 == Smear(Ones(x - 1), 1)
           w2 == Smear(w1, 2)
           w4 == Smear(w2, 4)
           w8 == Smear(w4, 8)
           w16 == Smear(w8, 16)
           w32 == Smear(w16, 32)
<1>5. upperpower2(x) = Value(w32) + 1
  BY DEF upperpower2, Value
<1>6. w32 = 0 .. p - 1
  <2>1. CASE p = 0
    <3>1. x = 1 /\ x - 1 = 0
      BY <1>3, <2>1
    <3>2. Ones(0) = {}
      <4>1. ASSUME NEW k \in Places PROVE 0 \div 2^k = 0
        <5>1. PICK d \in Nat \ {0} : d = 2^k
          BY <1>1, PowerType DEF Places
        <5>2. QED
          BY <5>1, SmallDivisions
      <4>2. QED
        BY <4>1 DEF Ones
    <3>3. \A n : Smear({}, n) = {}
      BY DEF Smear
    <3>4. w32 = {}
      BY <3>1, <3>2, <3>3
    <3>5. QED
      BY <2>1, <3>4
  <2>2. CASE p # 0
    <3>1. PICK m \in Nat : m = p - 1
      BY <1>3, <2>2
    <3>2. /\ m \in Places /\ m <= 63 /\ p = m + 1
          /\ 2^m \in Nat /\ 2^m < x /\ x <= 2^(m + 1) /\ 2^(m + 1) \in Nat
      BY <1>1, <1>3, <1>4, <2>2, <3>1, PowerType DEF Places
    <3>3. x - 1 \in Nat /\ 2^m <= x - 1 /\ x - 1 < 2^(m + 1)
      BY <3>2
    <3>4. Filled(Ones(x - 1), 1, m)
      <4>1. Ones(x - 1) \in SUBSET (0 .. m) /\ m \in Ones(x - 1)
        BY <3>2, <3>3, OnesBelow
      <4>2. QED
        BY <4>1 DEF Filled
    <3>5. Filled(w1, 2, m)
      <4>1. 1 \in Nat \ {0} /\ 1 + 1 = 2
        OBVIOUS
      <4>2. QED
        BY <3>4, <4>1, SmearDoubles
    <3> HIDE DEF w1
    <3>6. Filled(w2, 4, m)
      <4>1. 2 \in Nat \ {0} /\ 2 + 2 = 4
        OBVIOUS
      <4>2. QED
        BY <3>5, <4>1, SmearDoubles
    <3> HIDE DEF w2
    <3>7. Filled(w4, 8, m)
      <4>1. 4 \in Nat \ {0} /\ 4 + 4 = 8
        OBVIOUS
      <4>2. QED
        BY <3>6, <4>1, SmearDoubles
    <3> HIDE DEF w4
    <3>8. Filled(w8, 16, m)
      <4>1. 8 \in Nat \ {0} /\ 8 + 8 = 16
        OBVIOUS
      <4>2. QED
        BY <3>7, <4>1, SmearDoubles
    <3> HIDE DEF w8
    <3>9. Filled(w16, 32, m)
      <4>1. 16 \in Nat \ {0} /\ 16 + 16 = 32
        OBVIOUS
      <4>2. QED
        BY <3>8, <4>1, SmearDoubles
    <3> HIDE DEF w16
    <3>10. Filled(w32, 64, m)
      <4>1. 32 \in Nat \ {0} /\ 32 + 32 = 64
        OBVIOUS
      <4>2. QED
        BY <3>9, <4>1, SmearDoubles
    <3> HIDE DEF w32
    <3>11. w32 = 0 .. m
      <4>1. \A k \in 0 .. m : k > m - 64
        BY <3>2
      <4>2. QED
        BY <3>10, <4>1 DEF Filled
    <3>12. QED
      BY <3>1, <3>11
  <2>3. QED
    BY <2>1, <2>2
<1>7. Value(0 .. p - 1) + 1 = 2^p
  BY <1>3, ValueOfOnes
<1> HIDE DEF w32
<1>8. upperpower2(x) = 2^p
  BY <1>5, <1>6, <1>7
<1>9. QED
  BY <1>3, <1>4, <1>8

SizesTyped == max_num_keys \in 0 .. MaxKeys

LEMMA SizesTypedInv == SizesSpec => []SizesTyped
<1>1. SizesInit => SizesTyped
  BY SizesAssumption DEF SizesInit, SizesTyped
<1>2. SizesTyped /\ [SizesNext]_max_num_keys => SizesTyped'
  BY SizesAssumption DEF SizesNext, SizesTyped
<1>3. QED
  BY <1>1, <1>2, PTL DEF SizesSpec

\* The buckets of the tag table: a power of two that room for it leaves, the least
\* for a quarter of the keys or the double of that.
LEMMA NumBuckets ==
  ASSUME SizesTyped
  PROVE  \E p \in 0 .. WordSize - 3, fit \in Nat :
            /\ fit = 2^p /\ fit >= 1 /\ 2^(p + 1) = 2 * fit
            /\ max_num_keys \div 4 <= fit
            /\ fit = 1 \/ fit < 2 * (max_num_keys \div 4)
            /\ \/ num_buckets = fit /\ 100 * max_num_keys <= 384 * fit
               \/ num_buckets = 2 * fit /\ 100 * max_num_keys > 384 * fit
<1>1. /\ WordSize \in 3 .. 64 /\ WordSize - 3 \in Places
      /\ max_num_keys \in Nat /\ max_num_keys < 2^(WordSize - 3)
  <2>1. WordSize - 3 \in Nat /\ WordSize \in 3 .. 64
    BY SizesAssumption
  <2>2. 2^(WordSize - 3) \in Nat
    BY <2>1, PowerType
  <2>3. QED
    BY <2>1, <2>2, SizesAssumption DEF SizesTyped, Places
<1> DEFINE x == AtLeastOne(max_num_keys \div 4)
<1>2. /\ x \in Nat /\ x >= 1 /\ max_num_keys \div 4 <= x /\ max_num_keys \div 4 \in Nat
      /\ x = 1 \/ x = max_num_keys \div 4
  BY <1>1 DEF AtLeastOne
<1>3. x <= 2^(WordSize - 3)
  <2>1. max_num_keys \div 4 <= max_num_keys /\ 2^(WordSize - 3) \in Nat /\ 2^(WordSize - 3) >= 1
    BY <1>1, PowerType
  <2> HIDE DEF x
  <2>2. QED
    BY <1>1, <1>2, <2>1
<1> HIDE DEF x
<1>4. PICK p \in 0 .. WordSize - 3 :
        upperpower2(x) = 2^p /\ x <= 2^p /\ (p = 0 \/ 2^(p - 1) < x)
  BY <1>1, <1>2, <1>3, UpperPower
<1>5. PICK fit \in Nat : fit = 2^p /\ fit >= 1
  BY <1>4, PowerType
<1>6. 2^(p + 1) = 2 * fit
  BY <1>5, PowerDoubles
<1>7. max_num_keys \div 4 <= fit
  BY <1>2, <1>4, <1>5
<1>8. fit = 1 \/ fit < 2 * (max_num_keys \div 4)
  <2>1. CASE p = 0
    BY <1>5, <2>1
  <2>2. CASE p # 0
    <3>1. PICK q \in Nat : p = q + 1
      BY <2>2
    <3>2. 2^q \in Nat /\ 2^q >= 1 /\ fit = 2 * 2^q /\ 2^q < x
      BY <1>4, <1>5, <2>2, <3>1, PowerDoubles, PowerType
    <3>3. QED
      BY <1>2, <3>2
  <2>3. QED
    BY <2>1, <2>2
<1>9. num_buckets = IF 100 * max_num_keys > 384 * fit THEN 2 * fit ELSE fit
  BY <1>4, <1>5 DEF num_buckets, assoc, x
<1>10. 100 * max_num_keys \in Nat /\ 384 * fit \in Nat
  BY <1>1
<1>11. QED
  BY <1>5, <1>6, <1>7, <1>8, <1>9, <1>10

\* NumBuckets() - 1 is a mask that reaches every bucket (cuckoofilter.h:79, 82),
\* and as many keys as were asked for fill the table to 96 percent at most.
THEOREM MaskAndRoomHolds == SizesSpec => []MaskAndRoom
<1>1. SizesTyped => MaskAndRoom
  <2> SUFFICES ASSUME SizesTyped PROVE MaskAndRoom
    OBVIOUS
  <2>1. PICK p \in 0 .. WordSize - 3, fit \in Nat :
            /\ fit = 2^p /\ fit >= 1 /\ 2^(p + 1) = 2 * fit
            /\ max_num_keys \div 4 <= fit
            /\ \/ num_buckets = fit /\ 100 * max_num_keys <= 384 * fit
               \/ num_buckets = 2 * fit /\ 100 * max_num_keys > 384 * fit
    BY NumBuckets
  <2>2. p \in Places /\ p + 1 \in Places
    BY SizesAssumption DEF Places
  <2>3. \E k \in Places : num_buckets = 2^k
    BY <2>1, <2>2
  <2>4. max_num_keys \in Nat
    BY SizesAssumption DEF SizesTyped
  <2>5. 100 * max_num_keys <= 384 * num_buckets
    BY <2>1, <2>4
  <2>6. QED
    BY <2>1, <2>3, <2>5 DEF MaskAndRoom, assoc
<1>2. QED
  BY <1>1, SizesTypedInv, PTL

\* The buckets of the hash map: a power of two, no less than half the keys.
LEMMA HashmapBuckets ==
  ASSUME SizesTyped
  PROVE  \E q \in Places : /\ hashmap_buckets = 2^q /\ hashmap_buckets \in Nat
                           /\ max_num_keys <= 2 * hashmap_buckets
<1>1. /\ WordSize \in 3 .. 64 /\ WordSize - 3 \in Places /\ Places \subseteq Nat
      /\ max_num_keys \in Nat /\ max_num_keys < 2^(WordSize - 3)
  <2>1. WordSize - 3 \in Nat /\ WordSize \in 3 .. 64
    BY SizesAssumption
  <2>2. 2^(WordSize - 3) \in Nat
    BY <2>1, PowerType
  <2>3. QED
    BY <2>1, <2>2, SizesAssumption DEF SizesTyped, Places
<1> DEFINE n == (2 * max_num_keys + 3) \div 4
<1>2. n \in Nat /\ max_num_keys <= 2 * n /\ n <= max_num_keys + 1
  BY <1>1
<1>3. n <= 2^(WordSize - 3)
  <2>1. 2^(WordSize - 3) \in Nat
    BY <1>1, PowerType
  <2> HIDE DEF n
  <2>2. QED
    BY <1>1, <1>2, <2>1
<1> DEFINE First2(p) == 2^p >= n /\ \A q \in 0 .. p - 1 : 2^q < n
           S == {p \in Nat : 2^p >= n}
<1>4. \E p \in Places : First2(p)
  <2>1. S \in SUBSET Nat /\ WordSize - 3 \in S
    <3> HIDE DEF n
    <3>1. 2^(WordSize - 3) \in Nat
      BY <1>1, PowerType
    <3>2. QED
      BY <1>1, <1>2, <1>3, <3>1
  <2>2. PICK p \in S : \A q \in S : p <= q
    <3> HIDE DEF S
    <3> QED
      BY <2>1, LeastNat
  <2>3. p \in Places
    BY <1>1, <2>1, <2>2 DEF Places
  <2>4. ASSUME NEW q \in 0 .. p - 1 PROVE 2^q < n
    <3> HIDE DEF n
    <3>1. q \in Nat /\ q \notin S /\ 2^q \in Nat
      BY <2>2, PowerType
    <3>2. QED
      BY <1>2, <3>1
  <2>5. 2^p >= n
    BY <2>2
  <2>6. QED
    BY <2>3, <2>4, <2>5
<1> DEFINE q == CHOOSE p \in Places : First2(p)
<1>5. q \in Places /\ 2^q >= n
  <2>1. q \in Places /\ First2(q)
    <3> HIDE DEF First2
    <3> QED
      BY <1>4
  <2>2. QED
    BY <2>1
<1>6. hashmap_buckets = 2^q
  <2>1. 2 * max_num_keys + 4 - 1 = 2 * max_num_keys + 3
    BY <1>1
  <2>2. QED
    BY <2>1 DEF hashmap_buckets, reserve_calc, assoc
<1> HIDE DEF q, n
<1>7. 2^q \in Nat
  BY <1>1, <1>5, PowerType
<1>8. QED
  BY <1>1, <1>2, <1>5, <1>6, <1>7

\* Every bucket number of the tag table is one of the hash map, though each rounds
\* the number of its buckets in its own way (cuckoofilter.h:113-121).
THEOREM StorageCoversHolds == SizesSpec => []StorageCovers
<1>1. SizesTyped => StorageCovers
  <2> SUFFICES ASSUME SizesTyped PROVE StorageCovers
    OBVIOUS
  <2>1. PICK p \in 0 .. WordSize - 3, fit \in Nat :
            /\ fit = 2^p /\ fit >= 1 /\ 2^(p + 1) = 2 * fit
            /\ max_num_keys \div 4 <= fit
            /\ fit = 1 \/ fit < 2 * (max_num_keys \div 4)
            /\ \/ num_buckets = fit /\ 100 * max_num_keys <= 384 * fit
               \/ num_buckets = 2 * fit /\ 100 * max_num_keys > 384 * fit
    BY NumBuckets
  <2>2. PICK q \in Places, h \in Nat :
            hashmap_buckets = 2^q /\ h = 2^q /\ max_num_keys <= 2 * h
    BY HashmapBuckets
  <2>3. max_num_keys \in Nat /\ q \in Nat /\ p \in Nat
    BY SizesAssumption DEF SizesTyped, Places
  <2>4. h >= 1
    BY <2>2, <2>3, PowerType
  <2>5. CASE num_buckets = fit
    <3>1. CASE fit = 1
      BY <2>2, <2>4, <2>5, <3>1 DEF StorageCovers
    <3>2. CASE fit < 2 * (max_num_keys \div 4)
      <4>1. 2 * fit < max_num_keys
        BY <2>3, <3>2
      <4>2. QED
        BY <2>2, <2>3, <2>5, <4>1 DEF StorageCovers
    <3>3. QED
      BY <2>1, <3>1, <3>2
  <2>6. CASE num_buckets = 2 * fit /\ 100 * max_num_keys > 384 * fit
    <3>1. h > fit
      BY <2>2, <2>3, <2>6
    <3>2. q >= p + 1
      <4>1. SUFFICES ASSUME q <= p PROVE FALSE
        BY <2>3
      <4>2. h <= fit
        BY <2>1, <2>2, <2>3, <4>1, PowerGrows
      <4>3. QED
        BY <3>1, <4>2
    <3>3. 2 * fit <= h
      BY <2>1, <2>2, <2>3, <3>2, PowerGrows
    <3>4. QED
      BY <2>2, <2>6, <3>3 DEF StorageCovers
  <2>7. QED
    BY <2>1, <2>5, <2>6
<1>2. QED
  BY <1>1, SizesTypedInv, PTL

\* The 64-bit loads of the lookups stay inside the arrays, also at the last bucket,
\* for tags of every width from 2 to 17 bits (singletable.h:22-25, 75;
\* packedtable.h:29-31, 327).
THEOREM LoadsInsideHolds == SizesSpec => []LoadsInside
<1>1. SizesTyped => LoadsInside
  <2> SUFFICES ASSUME SizesTyped PROVE LoadsInside
    OBVIOUS
  <2>1. PICK n \in Nat : num_buckets = n /\ n >= 1
    <3>1. PICK fit \in Nat : fit >= 1 /\ (num_buckets = fit \/ num_buckets = 2 * fit)
      BY NumBuckets
    <3>2. QED
      BY <3>1
  <2>2. ASSUME NEW w \in TagWidths
        PROVE  kBytesPerBucket(w) * (num_buckets - 1) + 8 <= SingleBytes(w)
    <3>1. w \in 2 .. 17
      BY SizesAssumption
    <3>2. PICK bytes \in 1 .. 9 : kBytesPerBucket(w) = bytes
      BY <3>1 DEF kBytesPerBucket, assoc
    <3>3. bytes \in {1, 2, 3, 4, 5, 6, 7, 8, 9}
      BY <3>2
    <3>4. PICK padding \in Nat : kPaddingBuckets(w) = padding /\ bytes * padding + bytes >= 8
      BY <3>2, <3>3 DEF kPaddingBuckets
    <3>5. SingleBytes(w) = bytes * (n + padding)
      BY <2>1, <3>2, <3>4 DEF SingleBytes
    <3>6. bytes * (n - 1) + 8 <= bytes * (n + padding)
      BY <3>3, <3>4
    <3>7. QED
      BY <2>1, <3>2, <3>5, <3>6
  <2>3. ASSUME NEW w \in PackedWidths
        PROVE  (kBitsPerBucket(w) * (num_buckets - 1)) \div 8 + 8 <= PackedBytes(w)
    <3>1. w \in 2 .. 17
      BY SizesAssumption
    <3>2. PICK quarter \in 1 .. 16 : kBitsPerBucket(w) = quarter * 4
      BY <3>1 DEF kBitsPerBucket
    <3>3. PICK bytes \in 1 .. 8 : (kBitsPerBucket(w) + 7) \div 8 = bytes /\ quarter <= 2 * bytes
      BY <3>2
    <3>4. (kBitsPerBucket(w) * (n - 1)) \div 8 + 8 <= bytes * n + 7
      BY <2>1, <3>2, <3>3
    <3>5. QED
      BY <2>1, <3>3, <3>4 DEF PackedBytes
  <2>4. QED
    BY <2>2, <2>3 DEF LoadsInside
<1>2. QED
  BY <1>1, SizesTypedInv, PTL
=============================================================================
