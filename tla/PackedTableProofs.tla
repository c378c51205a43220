-------------------------- MODULE PackedTableProofs --------------------------
(***************************************************************************)
(* Theorems about PackedTable, for every number of buckets, every set of   *)
(* tags and each of the widths: a bucket that is written reads back as the *)
(* sorted tags that were written, no other bucket changes, and the table   *)
(* implements TagBuckets. The numbering of the sorted tuples may be any    *)
(* that satisfies CodecAssumption.                                         *)
(***************************************************************************)
EXTENDS PackedTable, FiniteSetTheorems, TLAPS

-----------------------------------------------------------------------------
(* Numbers and the sets of their one bits. *)

LEMMA LowOfWord ==
  ASSUME NEW word
  PROVE  /\ Low(word) \in 0 .. 15
         /\ Low(word) = Low(word \cap (0 .. 3))
         /\ \A other : (\A k \in 0 .. 3 : k \in word <=> k \in other) => Low(word) = Low(other)
<1>1. 2^0 = 1 /\ 2^1 = 2 /\ 2^2 = 4 /\ 2^3 = 8
  OBVIOUS
<1>2. QED
  BY <1>1 DEF Low, Weight

\* Bit k of a number.
Bit(n, k) == (n \div 2^k) % 2

\* The powers of two that the bits of a 12-bit number stand for.
LEMMA Powers ==
  /\ 2^0 = 1 /\ 2^1 = 2 /\ 2^2 = 4 /\ 2^3 = 8 /\ 2^4 = 16 /\ 2^5 = 32
  /\ 2^6 = 64 /\ 2^7 = 128 /\ 2^8 = 256 /\ 2^9 = 512 /\ 2^10 = 1024 /\ 2^11 = 2048
OBVIOUS

LEMMA Parity ==
  ASSUME NEW n \in Int
  PROVE  n % 2 \in 0 .. 1
OBVIOUS

LEMMA Quotients ==
  ASSUME NEW n \in Nat
  PROVE  n \div 2 \in Nat /\ n \div 4 \in Nat /\ n \div 8 \in Nat /\ n \div 16 \in Nat
<1>1. n \div 2 \in Nat
  OBVIOUS
<1>2. n \div 4 \in Nat
  OBVIOUS
<1>3. n \div 8 \in Nat
  OBVIOUS
<1>4. n \div 16 \in Nat
  OBVIOUS
<1>5. QED
  BY <1>1, <1>2, <1>3, <1>4

\* Four bits x0, ..., x3 of n and what lies above them.
Split(n, x0, x1, x2, x3, rest) ==
    /\ n = x0 + 2 * x1 + 4 * x2 + 8 * x3 + 16 * rest
    /\ x0 \in 0 .. 1 /\ x1 \in 0 .. 1 /\ x2 \in 0 .. 1 /\ x3 \in 0 .. 1

LEMMA FourBits ==
  ASSUME NEW n \in Nat
  PROVE  Split(n, n % 2, (n \div 2) % 2, (n \div 4) % 2, (n \div 8) % 2, n \div 16)
<1>1. n = (n % 2) + 2 * ((n \div 2) % 2) + 4 * ((n \div 4) % 2) + 8 * ((n \div 8) % 2)
                 + 16 * (n \div 16)
  OBVIOUS
<1>2. QED
  BY <1>1, Quotients, Parity DEF Split

LEMMA TwelveBits ==
  ASSUME NEW n \in Codewords
  PROVE  \E m \in Nat, r \in Nat :
            /\ Split(n, Bit(n, 0), Bit(n, 1), Bit(n, 2), Bit(n, 3), m)
            /\ Split(m, Bit(n, 4), Bit(n, 5), Bit(n, 6), Bit(n, 7), r)
            /\ Split(r, Bit(n, 8), Bit(n, 9), Bit(n, 10), Bit(n, 11), 0)
<1>0. n \in Nat /\ n \div 256 \in 0 .. 15
  BY DEF Codewords
<1>1. /\ Bit(n, 0) = n % 2 /\ Bit(n, 1) = (n \div 2) % 2
      /\ Bit(n, 2) = (n \div 4) % 2 /\ Bit(n, 3) = (n \div 8) % 2
  BY <1>0, Powers DEF Bit
<1> DEFINE m == n \div 16
<1>2. /\ Bit(n, 4) = m % 2 /\ Bit(n, 5) = (m \div 2) % 2
      /\ Bit(n, 6) = (m \div 4) % 2 /\ Bit(n, 7) = (m \div 8) % 2
  <2>1. n \div 32 = m \div 2 /\ n \div 64 = m \div 4 /\ n \div 128 = m \div 8
    BY <1>0
  <2>2. QED
    BY Powers, <2>1 DEF Bit
<1> DEFINE r == n \div 256
<1>3. /\ Bit(n, 8) = r % 2 /\ Bit(n, 9) = (r \div 2) % 2
      /\ Bit(n, 10) = (r \div 4) % 2 /\ Bit(n, 11) = (r \div 8) % 2
  <2>1. n \div 512 = r \div 2 /\ n \div 1024 = r \div 4 /\ n \div 2048 = r \div 8
    BY <1>0
  <2>2. QED
    BY Powers, <2>1 DEF Bit
<1>4. n \in Nat /\ m \in Nat
  BY <1>0, Quotients
<1>5. r = m \div 16
  BY <1>0
<1>6. r \in 0 .. 15
  BY <1>0
<1> HIDE DEF m, r
<1>7. r \in Nat /\ r \div 16 = 0
  BY <1>6
<1>8. n \div 16 = m
  BY DEF m
<1>9. Split(n, Bit(n, 0), Bit(n, 1), Bit(n, 2), Bit(n, 3), m)
  <2>1. Split(n, n % 2, (n \div 2) % 2, (n \div 4) % 2, (n \div 8) % 2, n \div 16)
    BY <1>4, FourBits
  <2>2. QED
    BY <1>1, <1>8, <2>1
<1>10. Split(m, Bit(n, 4), Bit(n, 5), Bit(n, 6), Bit(n, 7), r)
  <2>1. Split(m, m % 2, (m \div 2) % 2, (m \div 4) % 2, (m \div 8) % 2, m \div 16)
    BY <1>4, FourBits
  <2>2. QED
    BY <1>2, <1>5, <2>1
<1>11. Split(r, Bit(n, 8), Bit(n, 9), Bit(n, 10), Bit(n, 11), 0)
  <2>1. Split(r, r % 2, (r \div 2) % 2, (r \div 4) % 2, (r \div 8) % 2, r \div 16)
    BY <1>7, FourBits
  <2>2. QED
    BY <1>3, <1>7, <2>1
<1>12. QED
  BY <1>4, <1>7, <1>9, <1>10, <1>11

\* A word whose lowest twelve bits are those of n has the number n there.
LEMMA LowestTwelve ==
  ASSUME NEW n \in Codewords, NEW word \in SUBSET (0 .. 63), word \cap (0 .. 11) = Bits(n)
  PROVE  Low12[word] = n
<1>1. Low12[word] = Low(word) + 16 * Low(Shr(word, 4)) + 256 * Low(Shr(word, 8))
  BY DEF Low12
<1>2. ASSUME NEW k \in 0 .. 11
      PROVE  k \in word <=> Bit(n, k) = 1
  <2>1. k \in word <=> k \in Bits(n)
    OBVIOUS
  <2>2. QED
    BY <2>1 DEF Bits, Bit
<1>3. ASSUME NEW k \in 0 .. 3
      PROVE  /\ k \in Shr(word, 4) <=> k + 4 \in word
             /\ k \in Shr(word, 8) <=> k + 8 \in word
  BY DEF Shr
<1>4. PICK m \in Nat, r \in Nat :
         /\ Split(n, Bit(n, 0), Bit(n, 1), Bit(n, 2), Bit(n, 3), m)
         /\ Split(m, Bit(n, 4), Bit(n, 5), Bit(n, 6), Bit(n, 7), r)
         /\ Split(r, Bit(n, 8), Bit(n, 9), Bit(n, 10), Bit(n, 11), 0)
  BY TwelveBits
<1>5. Low(word) = Bit(n, 0) + 2 * Bit(n, 1) + 4 * Bit(n, 2) + 8 * Bit(n, 3)
  BY <1>2, <1>4, Powers DEF Low, Weight, Split
<1>6. Low(Shr(word, 4)) = Bit(n, 4) + 2 * Bit(n, 5) + 4 * Bit(n, 6) + 8 * Bit(n, 7)
  BY <1>2, <1>3, <1>4, Powers DEF Low, Weight, Split
<1>7. Low(Shr(word, 8)) = Bit(n, 8) + 2 * Bit(n, 9) + 4 * Bit(n, 10) + 8 * Bit(n, 11)
  <2>1. /\ 0 \in Shr(word, 8) <=> Bit(n, 8) = 1
        /\ 1 \in Shr(word, 8) <=> Bit(n, 9) = 1
        /\ 2 \in Shr(word, 8) <=> Bit(n, 10) = 1
        /\ 3 \in Shr(word, 8) <=> Bit(n, 11) = 1
    BY <1>2, <1>3
  <2>2. /\ Bit(n, 8) \in 0 .. 1 /\ Bit(n, 9) \in 0 .. 1
        /\ Bit(n, 10) \in 0 .. 1 /\ Bit(n, 11) \in 0 .. 1
    BY <1>4 DEF Split
  <2>3. QED
    BY <2>1, <2>2, Powers DEF Low, Weight
<1>8. QED
  <2> DEFINE a == Bit(n, 0) + 2 * Bit(n, 1) + 4 * Bit(n, 2) + 8 * Bit(n, 3)
             b == Bit(n, 4) + 2 * Bit(n, 5) + 4 * Bit(n, 6) + 8 * Bit(n, 7)
             c == Bit(n, 8) + 2 * Bit(n, 9) + 4 * Bit(n, 10) + 8 * Bit(n, 11)
  <2>1. a \in Int /\ n = a + 16 * m
    <3>1. a \in Int
      <4>1. /\ Bit(n, 0) \in 0 .. 1 /\ Bit(n, 1) \in 0 .. 1
            /\ Bit(n, 2) \in 0 .. 1 /\ Bit(n, 3) \in 0 .. 1
        BY <1>4, Zenon DEF Split
      <4>2. QED
        BY <4>1
    <3>2. n = a + 16 * m
      BY <1>4, Zenon DEF Split
    <3>3. QED
      BY <3>1, <3>2
  <2>2. b \in Int /\ m = b + 16 * r
    <3>1. b \in Int
      <4>1. /\ Bit(n, 4) \in 0 .. 1 /\ Bit(n, 5) \in 0 .. 1
            /\ Bit(n, 6) \in 0 .. 1 /\ Bit(n, 7) \in 0 .. 1
        BY <1>4, Zenon DEF Split
      <4>2. QED
        BY <4>1
    <3>2. m = b + 16 * r
      BY <1>4, Zenon DEF Split
    <3>3. QED
      BY <3>1, <3>2
  <2>3. c \in Int /\ r = c
    BY <1>4 DEF Split
  <2> HIDE DEF a, b, c
  <2>4. n = a + 16 * b + 256 * c
    BY <2>1, <2>2, <2>3
  <2>5. QED
    BY <1>1, <1>5, <1>6, <1>7, <2>4 DEF a, b, c

-----------------------------------------------------------------------------
(* Words and buckets. *)

TagWidths == {5, 6, 7, 8, 9, 13, 17}
Words == SUBSET (0 .. 63)

LEMMA WidthNumbers ==
  ASSUME bits_per_tag \in TagWidths
  PROVE  /\ kDirBitsPerTag \in 1 .. 13
         /\ kBitsPerBucket = 12 + 4 * kDirBitsPerTag
         /\ kBitsPerBucket \in {16, 20, 24, 28, 32, 48, 64}
         /\ kDirBitsMask = 4 .. kDirBitsPerTag + 3
BY DEF TagWidths, kDirBitsPerTag, kBitsPerBucket, kDirBitsMask

\* Only the bits of a bucket matter to what is decoded.
LEMMA SameWord ==
  ASSUME bits_per_tag \in TagWidths, NEW v \in Words, NEW w \in Words,
         \A k \in 0 .. kBitsPerBucket - 1 : k \in v <=> k \in w
  PROVE  Decoded(v, kDirBitsPerTag) = Decoded(w, kDirBitsPerTag)
<1> DEFINE dir == kDirBitsPerTag
<1>1. dir \in 1 .. 13 /\ kBitsPerBucket = 12 + 4 * dir /\ kDirBitsMask = 4 .. dir + 3
  BY WidthNumbers
<1> HIDE DEF dir
<1>2. ASSUME NEW n \in {0, 4, 8}
      PROVE  Low(Shr(v, n)) = Low(Shr(w, n))
  <2>1. \A k \in 0 .. 3 : k \in Shr(v, n) <=> k \in Shr(w, n)
    BY <1>1 DEF Shr, Words
  <2>2. QED
    BY <2>1, LowOfWord
<1>3. Low(v) = Low(w)
  <2>1. \A k \in 0 .. 3 : k \in v <=> k \in w
    BY <1>1
  <2>2. QED
    BY <2>1, LowOfWord
<1>4. Low12[v] = Low12[w]
  BY <1>2, <1>3 DEF Low12, Words
<1>5. ASSUME NEW n \in {8, 8 + dir, 8 + 2 * dir, 8 + 3 * dir}
      PROVE  Shr(v, n) \cap kDirBitsMask = Shr(w, n) \cap kDirBitsMask
  BY <1>1 DEF Shr, Words
<1>6. /\ 8 + (1 - 1) * dir = 8 /\ 8 + (2 - 1) * dir = 8 + dir
      /\ 8 + (3 - 1) * dir = 8 + 2 * dir /\ 8 + (4 - 1) * dir = 8 + 3 * dir
  BY <1>1
<1>7. QED
  BY <1>1, <1>4, <1>5, <1>6 DEF Decoded, Words, dir

\* The bits that WriteBucket stores for tags that are sorted already.
Packed(tags) ==
    Bits(encode(<<Low(tags[1]), Low(tags[2]), Low(tags[3]), Low(tags[4])>>))
      \cup UNION {Shl(tags[j] \ 0 .. 3, 8 + (j - 1) * kDirBitsPerTag) : j \in 1 .. 4}

\* The direct bits of the four tags do not overlap.
LEMMA PackedBits ==
  ASSUME bits_per_tag \in TagWidths,
         NEW tags \in [1 .. 4 -> SUBSET (0 .. bits_per_tag - 1)]
  PROVE  /\ Packed(tags) \subseteq 0 .. kBitsPerBucket - 1
         /\ Packed(tags) \cap (0 .. 11) =
               Bits(encode(<<Low(tags[1]), Low(tags[2]), Low(tags[3]), Low(tags[4])>>))
         /\ \A j \in 1 .. 4, k \in 4 .. kDirBitsPerTag + 3 :
               k + (8 + (j - 1) * kDirBitsPerTag) \in Packed(tags) <=> k \in tags[j]
<1> DEFINE dir == kDirBitsPerTag
           n == encode(<<Low(tags[1]), Low(tags[2]), Low(tags[3]), Low(tags[4])>>)
           H(j) == Shl(tags[j] \ 0 .. 3, 8 + (j - 1) * dir)
<1>1. dir \in 1 .. 13 /\ kBitsPerBucket = 12 + 4 * dir /\ bits_per_tag = dir + 4
  BY WidthNumbers DEF TagWidths, kDirBitsPerTag
<1>2. Bits(n) \subseteq 0 .. 11
  BY DEF Bits
<1>3. Packed(tags) = Bits(n) \cup H(1) \cup H(2) \cup H(3) \cup H(4)
  <2>2. \A j : j \in 1 .. 4 <=> j = 1 \/ j = 2 \/ j = 3 \/ j = 4
    OBVIOUS
  <2>3. UNION {H(j) : j \in 1 .. 4} = H(1) \cup H(2) \cup H(3) \cup H(4)
    <3> HIDE DEF H
    <3>1. QED
      BY <2>2, Zenon
  <2>4. QED
    BY <2>3 DEF Packed
<1>4. /\ 8 + (1 - 1) * dir = 8 /\ 8 + (2 - 1) * dir = 8 + dir
      /\ 8 + (3 - 1) * dir = 8 + 2 * dir /\ 8 + (4 - 1) * dir = 8 + 3 * dir
  BY <1>1
<1>5. \A j \in 1 .. 4 : tags[j] \subseteq 0 .. dir + 3
  BY <1>1
<1> HIDE DEF dir, n
<1>6. /\ H(1) = {k + 8 : k \in tags[1] \ 0 .. 3}
      /\ H(2) = {k + (8 + dir) : k \in tags[2] \ 0 .. 3}
      /\ H(3) = {k + (8 + 2 * dir) : k \in tags[3] \ 0 .. 3}
      /\ H(4) = {k + (8 + 3 * dir) : k \in tags[4] \ 0 .. 3}
  BY <1>4 DEF Shl
<1> HIDE DEF H
<1>7. /\ H(1) \subseteq 12 .. 11 + dir
      /\ H(2) \subseteq 12 + dir .. 11 + 2 * dir
      /\ H(3) \subseteq 12 + 2 * dir .. 11 + 3 * dir
      /\ H(4) \subseteq 12 + 3 * dir .. 11 + 4 * dir
  BY <1>1, <1>5, <1>6
<1>8. ASSUME NEW k \in 4 .. dir + 3
      PROVE  /\ k + 8 \in H(1) <=> k \in tags[1]
             /\ k + (8 + dir) \in H(2) <=> k \in tags[2]
             /\ k + (8 + 2 * dir) \in H(3) <=> k \in tags[3]
             /\ k + (8 + 3 * dir) \in H(4) <=> k \in tags[4]
  BY <1>1, <1>5, <1>6
<1>9. Packed(tags) \subseteq 0 .. kBitsPerBucket - 1
  BY <1>1, <1>2, <1>3, <1>7
<1>10. Packed(tags) \cap (0 .. 11) = Bits(n)
  BY <1>1, <1>2, <1>3, <1>7
<1>11. ASSUME NEW k \in 4 .. dir + 3
       PROVE  /\ k + 8 \in Packed(tags) <=> k \in tags[1]
              /\ k + (8 + dir) \in Packed(tags) <=> k \in tags[2]
              /\ k + (8 + 2 * dir) \in Packed(tags) <=> k \in tags[3]
              /\ k + (8 + 3 * dir) \in Packed(tags) <=> k \in tags[4]
  BY <1>1, <1>2, <1>3, <1>7, <1>8
<1>12. ASSUME NEW j \in 1 .. 4, NEW k \in 4 .. dir + 3
       PROVE  k + (8 + (j - 1) * dir) \in Packed(tags) <=> k \in tags[j]
  <2>1. j = 1 \/ j = 2 \/ j = 3 \/ j = 4
    OBVIOUS
  <2>2. QED
    BY <1>4, <1>11, <2>1
<1>13. QED
  BY <1>9, <1>10, <1>12 DEF dir, n

Sorted(tags) == \A j \in 1 .. 3 : Low(tags[j]) <= Low(tags[j + 1])

\* What is packed is decoded again.
LEMMA DecodePacked ==
  ASSUME bits_per_tag \in TagWidths, CodecAssumption,
         NEW tags \in [1 .. 4 -> SUBSET (0 .. bits_per_tag - 1)], Sorted(tags),
         NEW word \in Words,
         \A k \in 0 .. kBitsPerBucket - 1 : k \in word <=> k \in Packed(tags)
  PROVE  Decoded(word, kDirBitsPerTag) = tags
<1> DEFINE dir == kDirBitsPerTag
           n == encode(<<Low(tags[1]), Low(tags[2]), Low(tags[3]), Low(tags[4])>>)
           nib(j) == tags[j] \cap (0 .. 3)
<1>1. /\ dir \in 1 .. 13 /\ kBitsPerBucket = 12 + 4 * dir /\ kDirBitsMask = 4 .. dir + 3
      /\ bits_per_tag = dir + 4
  BY WidthNumbers DEF TagWidths, kDirBitsPerTag
<1>2. n \in Codewords /\ decode[n] = <<nib(1), nib(2), nib(3), nib(4)>>
  <2>1. \A j \in 1 .. 4 : Low(tags[j]) = Low(nib(j)) /\ nib(j) \in SUBSET (0 .. 3)
    BY LowOfWord
  <2>2. Low(nib(1)) <= Low(nib(2)) /\ Low(nib(2)) <= Low(nib(3)) /\ Low(nib(3)) <= Low(nib(4))
    BY <2>1 DEF Sorted
  <2>3. n = encode(<<Low(nib(1)), Low(nib(2)), Low(nib(3)), Low(nib(4))>>)
    BY <2>1
  <2>4. /\ nib(1) \in SUBSET (0 .. 3) /\ nib(2) \in SUBSET (0 .. 3)
        /\ nib(3) \in SUBSET (0 .. 3) /\ nib(4) \in SUBSET (0 .. 3)
    OBVIOUS
  <2> HIDE DEF n, nib
  <2>5. LET m == encode(<<Low(nib(1)), Low(nib(2)), Low(nib(3)), Low(nib(4))>>)
        IN  m \in Codewords /\ decode[m] = <<nib(1), nib(2), nib(3), nib(4)>>
    BY <2>2, <2>4, Zenon DEF CodecAssumption
  <2>6. QED
    BY <2>3, <2>5, Zenon
<1>3. Low12[word] = n
  <2>1. word \cap (0 .. 11) = Bits(n)
    <3>1. word \cap (0 .. 11) = Packed(tags) \cap (0 .. 11)
      BY <1>1
    <3>2. QED
      BY <3>1, PackedBits
  <2> HIDE DEF n
  <2>2. QED
    BY <1>2, <2>1, LowestTwelve DEF Words
<1>4. \A j \in 1 .. 4 : tags[j] \subseteq 0 .. dir + 3
  BY <1>1
<1>5. ASSUME NEW j \in 1 .. 4
      PROVE  (Shr(word, 8 + (j - 1) * dir) \cap kDirBitsMask) \cup nib(j) = tags[j]
  <2> DEFINE off == 8 + (j - 1) * dir
  <2>1. off \in Nat /\ off >= 8 /\ off <= 8 + 3 * dir
    <3>1. j = 1 \/ j = 2 \/ j = 3 \/ j = 4
      OBVIOUS
    <3>2. QED
      BY <1>1, <3>1
  <2>2. \A k \in 4 .. dir + 3 : k + off \in Packed(tags) <=> k \in tags[j]
    BY PackedBits
  <2> HIDE DEF off, dir
  <2>3. \A k \in 4 .. dir + 3 : k + off \in 0 .. kBitsPerBucket - 1
    BY <1>1, <2>1
  <2>4. \A k \in 4 .. dir + 3 : k \in Shr(word, off) <=> k + off \in word
    BY <1>1, <2>1 DEF Shr, Words
  <2>5. Shr(word, off) \cap kDirBitsMask = tags[j] \cap (4 .. dir + 3)
    BY <1>1, <2>2, <2>3, <2>4
  <2>6. QED
    BY <1>1, <1>4, <2>5 DEF off
<1>6. Decoded(word, dir) = <<tags[1], tags[2], tags[3], tags[4]>>
  <2> HIDE DEF n
  <2>1. decode[Low12[word]] = <<nib(1), nib(2), nib(3), nib(4)>>
    BY <1>2, <1>3
  <2> DEFINE lowbits == decode[Low12[word]]
  <2>2. lowbits[1] = nib(1) /\ lowbits[2] = nib(2) /\ lowbits[3] = nib(3) /\ lowbits[4] = nib(4)
    BY <2>1
  <2> DEFINE tag(j) == (Shr(word, 8 + (j - 1) * dir) \cap kDirBitsMask) \cup lowbits[j]
  <2>3. tag(1) = tags[1] /\ tag(2) = tags[2] /\ tag(3) = tags[3] /\ tag(4) = tags[4]
    BY <1>5, <2>2
  <2>4. Decoded(word, dir) = <<tag(1), tag(2), tag(3), tag(4)>>
    BY DEF Decoded
  <2> HIDE DEF tag
  <2>5. QED
    BY <2>3, <2>4
<1>7. QED
  BY <1>6

-----------------------------------------------------------------------------
(* The memory. *)

Word(i) == Shr(Load(Byte(i)), Nibble(i))

LEMMA BucketStarts ==
  ASSUME bits_per_tag \in TagWidths, NEW i \in Nat
  PROVE  /\ Byte(i) \in Nat /\ Nibble(i) \in {0, 4}
         /\ 8 * Byte(i) + Nibble(i) = kBitsPerBucket * i
         /\ kBitsPerBucket + Nibble(i) <= 64
<1>1. kBitsPerBucket \in {16, 20, 24, 28, 32, 48, 64}
  BY WidthNumbers
<1>2. PICK h \in Nat, e \in {0, 1} : i = 2 * h + e
  <2>1. i \div 2 \in Nat
    BY Quotients
  <2>2. i % 2 \in {0, 1}
    BY Parity
  <2>3. i = 2 * (i \div 2) + (i % 2)
    OBVIOUS
  <2>4. QED
    BY <2>1, <2>2, <2>3
<1>3. i % 2 = e
  BY <1>2
<1>4. CASE kBitsPerBucket \in {16, 24, 32, 48, 64}
  <2>1. Nibble(i) = 0
    BY <1>4 DEF Nibble
  <2>2. (16 * i) \div 8 = 2 * i /\ (24 * i) \div 8 = 3 * i /\ (32 * i) \div 8 = 4 * i
    OBVIOUS
  <2>3. (48 * i) \div 8 = 6 * i /\ (64 * i) \div 8 = 8 * i
    OBVIOUS
  <2>4. QED
    BY <1>4, <2>1, <2>2, <2>3 DEF Byte
<1>5. CASE kBitsPerBucket \in {20, 28}
  <2>1. Nibble(i) = 4 * e
    BY <1>3, <1>5 DEF Nibble
  <2>2. (20 * i) \div 8 = 5 * h + 2 * e
    BY <1>2
  <2>3. (28 * i) \div 8 = 7 * h + 3 * e
    BY <1>2
  <2>4. QED
    BY <1>2, <1>5, <2>1, <2>2, <2>3 DEF Byte
<1>6. QED
  BY <1>1, <1>4, <1>5

LEMMA WordBits ==
  bits_per_tag \in TagWidths /\ buckets_ \subseteq Nat =>
     \A i \in Nat : /\ Word(i) \in Words
                    /\ \A k \in 0 .. kBitsPerBucket - 1 :
                          k \in Word(i) <=> kBitsPerBucket * i + k \in buckets_
<1>1. SUFFICES ASSUME bits_per_tag \in TagWidths, buckets_ \subseteq Nat, NEW i \in Nat
               PROVE  /\ Word(i) \in Words
                      /\ \A k \in 0 .. kBitsPerBucket - 1 :
                            k \in Word(i) <=> kBitsPerBucket * i + k \in buckets_
  OBVIOUS
<1> DEFINE p == Byte(i)
           q == Nibble(i)
           size == kBitsPerBucket
<1>2. /\ p \in Nat /\ q \in {0, 4} /\ 8 * p + q = size * i /\ size + q <= 64 /\ size \in Nat
  <2>1. p \in Nat /\ q \in {0, 4} /\ 8 * p + q = size * i /\ size + q <= 64
    BY <1>1, BucketStarts
  <2>2. size \in Nat
    BY <1>1, WidthNumbers
  <2>3. QED
    BY <2>1, <2>2
<1> HIDE DEF p, q, size
<1>3. Load(p) = {b - 8 * p : b \in {c \in {d \in buckets_ : d < 8 * p + 64} : c >= 8 * p}}
  BY DEF Load, Shr
<1>4. Load(p) \subseteq 0 .. 63
  <2>1. ASSUME NEW b \in buckets_, b < 8 * p + 64, b >= 8 * p
        PROVE  b - 8 * p \in 0 .. 63
    BY <1>1, <1>2, <2>1
  <2>2. QED
    BY <1>3, <2>1
<1>5. \A c \in 0 .. 63 : c \in Load(p) <=> 8 * p + c \in buckets_
  BY <1>1, <1>2, <1>3
<1>6. Shr(Load(p), q) \in Words
  BY <1>2, <1>4 DEF Shr, Words
<1>7. ASSUME NEW k \in 0 .. size - 1
      PROVE  k \in Shr(Load(p), q) <=> size * i + k \in buckets_
  <2>1. k \in Shr(Load(p), q) <=> k + q \in Load(p)
    BY <1>2, <1>4 DEF Shr
  <2>2. k + q \in 0 .. 63 /\ 8 * p + (k + q) = size * i + k
    BY <1>2
  <2>3. QED
    BY <1>5, <2>1, <2>2
<1>8. QED
  BY <1>6, <1>7 DEF Word, p, q, size

-----------------------------------------------------------------------------
(* Sorting. *)

\* How many of the four tags are x.
Same(a, b) == IF a = b THEN 1 ELSE 0
Times(tags, x) ==
    Same(tags[1], x) + Same(tags[2], x) + Same(tags[3], x) + Same(tags[4], x)

LEMMA SortPairLemma ==
  ASSUME NEW S, NEW t \in [1 .. 4 -> S],
         NEW a \in 1 .. 4, NEW b \in 1 .. 4, a < b,
         NEW s, s = SortPair(t, a, b)
  PROVE  /\ s \in [1 .. 4 -> S]
         /\ \A k \in 1 .. 4 \ {a, b} : s[k] = t[k]
         /\ \/ s[a] = t[a] /\ s[b] = t[b] /\ Low(t[a]) <= Low(t[b])
            \/ s[a] = t[b] /\ s[b] = t[a] /\ Low(t[b]) <= Low(t[a])
         /\ \A x : Times(s, x) = Times(t, x)
<1>1. Low(t[a]) \in 0 .. 15 /\ Low(t[b]) \in 0 .. 15
  BY LowOfWord
<1>2. /\ s \in [1 .. 4 -> S]
      /\ \A k \in 1 .. 4 \ {a, b} : s[k] = t[k]
      /\ \/ s[a] = t[a] /\ s[b] = t[b] /\ Low(t[a]) <= Low(t[b])
         \/ s[a] = t[b] /\ s[b] = t[a] /\ Low(t[b]) <= Low(t[a])
  <2>1. CASE Low(t[a]) > Low(t[b])
    <3>1. s = [t EXCEPT ![a] = t[b], ![b] = t[a]]
      BY <2>1 DEF SortPair
    <3>2. QED
      BY <1>1, <2>1, <3>1
  <2>2. CASE ~ (Low(t[a]) > Low(t[b]))
    <3>1. s = t
      BY <2>2 DEF SortPair
    <3>2. QED
      BY <1>1, <2>2, <3>1
  <2>3. QED
    BY <2>1, <2>2
<1>3. ASSUME NEW x PROVE Times(s, x) = Times(t, x)
  <2>1. (a = 1 \/ a = 2 \/ a = 3) /\ (b = 2 \/ b = 3 \/ b = 4) /\ a < b
    OBVIOUS
  <2>2. \/ \A k \in 1 .. 4 : s[k] = t[k]
        \/ /\ \A k \in 1 .. 4 \ {a, b} : s[k] = t[k]
           /\ s[a] = t[b] /\ s[b] = t[a]
    BY <1>2
  <2>3. QED
    BY <2>1, <2>2 DEF Times, Same
<1>4. QED
  BY <1>2, <1>3

LEMMA SortTagsLemma ==
  ASSUME NEW S, NEW t \in [1 .. 4 -> S]
  PROVE  /\ SortTags(t) \in [1 .. 4 -> S]
         /\ Sorted(SortTags(t))
         /\ \A x : Times(SortTags(t), x) = Times(t, x)
<1> DEFINE t1 == SortPair(t, 1, 3)
           t2 == SortPair(t1, 2, 4)
           t3 == SortPair(t2, 1, 2)
           t4 == SortPair(t3, 3, 4)
           t5 == SortPair(t4, 2, 3)
<1>0. SortTags(t) = t5
  BY DEF SortTags
<1> DEFINE L(u, k) == Low(u[k])
<1>1. /\ t1 \in [1 .. 4 -> S] /\ \A x : Times(t1, x) = Times(t, x)
      /\ L(t1, 1) <= L(t1, 3)
  <2> HIDE DEF t1
  <2>1. t1 = SortPair(t, 1, 3)
    BY DEF t1
  <2>2. QED
    BY <2>1, SortPairLemma
<1> HIDE DEF t1
<1>2. /\ t2 \in [1 .. 4 -> S] /\ \A x : Times(t2, x) = Times(t, x)
      /\ L(t2, 1) <= L(t2, 3) /\ L(t2, 2) <= L(t2, 4)
  <2> HIDE DEF t2
  <2>1. t2 = SortPair(t1, 2, 4)
    BY DEF t2
  <2>2. /\ t2 \in [1 .. 4 -> S]
        /\ \A k \in 1 .. 4 \ {2, 4} : t2[k] = t1[k]
        /\ \/ t2[2] = t1[2] /\ t2[4] = t1[4] /\ L(t1, 2) <= L(t1, 4)
           \/ t2[2] = t1[4] /\ t2[4] = t1[2] /\ L(t1, 4) <= L(t1, 2)
        /\ \A x : Times(t2, x) = Times(t1, x)
    BY <1>1, <2>1, SortPairLemma
  <2>3. QED
    BY <1>1, <2>2
<1> HIDE DEF t2
<1>3. /\ t3 \in [1 .. 4 -> S] /\ \A x : Times(t3, x) = Times(t, x)
      /\ L(t3, 1) <= L(t3, 2) /\ L(t3, 1) <= L(t3, 3) /\ L(t3, 1) <= L(t3, 4)
      /\ \/ L(t3, 1) <= L(t3, 3) /\ L(t3, 2) <= L(t3, 4)
         \/ L(t3, 2) <= L(t3, 3) /\ L(t3, 1) <= L(t3, 4)
  <2> HIDE DEF t3
  <2>1. t3 = SortPair(t2, 1, 2)
    BY DEF t3
  <2>2. /\ t3 \in [1 .. 4 -> S]
        /\ t3[3] = t2[3] /\ t3[4] = t2[4]
        /\ \/ t3[1] = t2[1] /\ t3[2] = t2[2] /\ L(t2, 1) <= L(t2, 2)
           \/ t3[1] = t2[2] /\ t3[2] = t2[1] /\ L(t2, 2) <= L(t2, 1)
        /\ \A x : Times(t3, x) = Times(t2, x)
    BY <1>2, <2>1, SortPairLemma
  <2>3. \A k \in 1 .. 4 : L(t2, k) \in 0 .. 15
    BY LowOfWord
  <2>4. QED
    BY <1>2, <2>2, <2>3
<1> HIDE DEF t3
<1>4. /\ t4 \in [1 .. 4 -> S] /\ \A x : Times(t4, x) = Times(t, x)
      /\ L(t4, 1) <= L(t4, 2) /\ L(t4, 1) <= L(t4, 3)
      /\ L(t4, 2) <= L(t4, 4) /\ L(t4, 3) <= L(t4, 4)
  <2> HIDE DEF t4
  <2>1. t4 = SortPair(t3, 3, 4)
    BY DEF t4
  <2>2. /\ t4 \in [1 .. 4 -> S]
        /\ t4[1] = t3[1] /\ t4[2] = t3[2]
        /\ \/ t4[3] = t3[3] /\ t4[4] = t3[4] /\ L(t3, 3) <= L(t3, 4)
           \/ t4[3] = t3[4] /\ t4[4] = t3[3] /\ L(t3, 4) <= L(t3, 3)
        /\ \A x : Times(t4, x) = Times(t3, x)
    BY <1>3, <2>1, SortPairLemma
  <2>3. \A k \in 1 .. 4 : L(t3, k) \in 0 .. 15
    BY LowOfWord
  <2>4. QED
    BY <1>3, <2>2, <2>3
<1> HIDE DEF t4
<1>5. /\ t5 \in [1 .. 4 -> S] /\ \A x : Times(t5, x) = Times(t, x)
      /\ L(t5, 1) <= L(t5, 2) /\ L(t5, 2) <= L(t5, 3) /\ L(t5, 3) <= L(t5, 4)
  <2> HIDE DEF t5
  <2>1. t5 = SortPair(t4, 2, 3)
    BY DEF t5
  <2>2. /\ t5 \in [1 .. 4 -> S]
        /\ t5[1] = t4[1] /\ t5[4] = t4[4]
        /\ \/ t5[2] = t4[2] /\ t5[3] = t4[3] /\ L(t4, 2) <= L(t4, 3)
           \/ t5[2] = t4[3] /\ t5[3] = t4[2] /\ L(t4, 3) <= L(t4, 2)
        /\ \A x : Times(t5, x) = Times(t4, x)
    BY <1>4, <2>1, SortPairLemma
  <2>3. \A k \in 1 .. 4 : L(t4, k) \in 0 .. 15
    BY LowOfWord
  <2>4. QED
    BY <1>4, <2>2, <2>3
<1> HIDE DEF t5
<1>6. QED
  BY <1>0, <1>5 DEF Sorted

-----------------------------------------------------------------------------
(* Reading and writing a bucket. *)

TagSet == SUBSET (0 .. bits_per_tag - 1)
MemoryOK == /\ bits_per_tag \in TagWidths
            /\ buckets_ \subseteq 0 .. kBitsPerBucket * num_buckets_ - 1

LEMMA MemoryNat ==
  ASSUME MemoryOK, num_buckets_ \in Nat
  PROVE  buckets_ \subseteq Nat
<1>1. kBitsPerBucket \in {16, 20, 24, 28, 32, 48, 64}
  BY WidthNumbers DEF MemoryOK
<1>2. QED
  BY <1>1 DEF MemoryOK

\* Two buckets have no bit in common, and all are in the array.
LEMMA BucketsApart ==
  ASSUME bits_per_tag \in TagWidths, NEW i \in Nat,
         NEW k \in 0 .. kBitsPerBucket - 1
  PROVE  /\ kBitsPerBucket * i + k \in Nat
         /\ \A n \in Nat : i < n => kBitsPerBucket * i + k < kBitsPerBucket * n
         /\ \A m \in Nat, h \in 0 .. kBitsPerBucket - 1 :
               m # i => kBitsPerBucket * m + h # kBitsPerBucket * i + k
<1>1. kBitsPerBucket \in {16, 20, 24, 28, 32, 48, 64}
  BY WidthNumbers
<1>2. QED
  BY <1>1

LEMMA WordBitsNext ==
  bits_per_tag' \in TagWidths /\ buckets_' \subseteq Nat =>
     \A i \in Nat : /\ Word(i)' \in Words
                    /\ \A k \in 0 .. kBitsPerBucket' - 1 :
                          k \in Word(i)' <=> kBitsPerBucket' * i + k \in buckets_'
<1>1. (bits_per_tag \in TagWidths /\ buckets_ \subseteq Nat =>
        \A i \in Nat : /\ Word(i) \in Words
                       /\ \A k \in 0 .. kBitsPerBucket - 1 :
                             k \in Word(i) <=> kBitsPerBucket * i + k \in buckets_)'
  BY WordBits, PTL
<1>2. QED
  BY <1>1

LEMMA Written ==
  ASSUME MemoryOK, num_buckets_ \in Nat, CodecAssumption, NEW i \in Indices,
         NEW unsorted \in [1 .. 4 -> TagSet],
         buckets_' = WriteBucket(i, unsorted), bits_per_tag' = bits_per_tag
  PROVE  /\ MemoryOK'
         /\ ReadBucket(i)' = SortTags(unsorted)
         /\ \A m \in Indices \ {i} : ReadBucket(m)' = ReadBucket(m)
<1> DEFINE tags == SortTags(unsorted)
           size == kBitsPerBucket
           first == size * i
<1>1. /\ i \in Nat /\ Indices \subseteq Nat /\ \A m \in Indices : m < num_buckets_
      /\ size \in Nat /\ bits_per_tag \in TagWidths /\ buckets_ \subseteq Nat
      /\ size' = size /\ kDirBitsPerTag' = kDirBitsPerTag
  <2>1. size \in Nat
    BY WidthNumbers DEF MemoryOK
  <2>2. size' = size /\ kDirBitsPerTag' = kDirBitsPerTag
    BY DEF kBitsPerBucket, kDirBitsPerTag
  <2>3. QED
    BY <2>1, <2>2, MemoryNat DEF Indices, MemoryOK
<1>2. tags \in [1 .. 4 -> TagSet] /\ Sorted(tags)
  BY SortTagsLemma
<1>3. Packed(tags) \subseteq 0 .. size - 1
  BY <1>1, <1>2, PackedBits DEF TagSet
<1> HIDE DEF tags
<1>4. buckets_' = (buckets_ \ (first .. first + size - 1)) \cup Shl(Packed(tags), first)
  <2>1. 8 * Byte(i) + Nibble(i) = first
    BY <1>1, BucketStarts
  <2>2. buckets_' = (buckets_ \ (8 * Byte(i) + Nibble(i) .. 8 * Byte(i) + Nibble(i) + size - 1))
                       \cup Shl(Packed(tags), 8 * Byte(i) + Nibble(i))
    BY DEF WriteBucket, Packed, tags
  <2> HIDE DEF first, size
  <2>3. QED
    BY <2>1, <2>2
<1>5. \A k \in 0 .. size - 1 : first + k \in buckets_' <=> k \in Packed(tags)
  <2>1. first \in Nat
    BY <1>1
  <2> HIDE DEF first, size
  <2>2. QED
    BY <1>1, <1>3, <1>4, <2>1 DEF Shl
<1>6. ASSUME NEW m \in Indices \ {i}, NEW k \in 0 .. size - 1
      PROVE  size * m + k \in buckets_' <=> size * m + k \in buckets_
  <2>1. \A h \in 0 .. size - 1 : first + h # size * m + k
    BY <1>1, BucketsApart
  <2>2. size * m + k \in Nat /\ first \in Nat
    BY <1>1, BucketsApart
  <2> DEFINE b == size * m + k
  <2> HIDE DEF first, size, b
  <2>3. \A h \in 0 .. size - 1 : first + h # b
    BY <2>1 DEF b
  <2>4. b \in Nat /\ first \in Nat
    BY <2>2 DEF b
  <2>5. b \notin first .. first + size - 1
    <3>1. SUFFICES ASSUME b \in first .. first + size - 1 PROVE FALSE
      OBVIOUS
    <3>2. b - first \in 0 .. size - 1 /\ first + (b - first) = b
      BY <1>1, <2>4, <3>1
    <3>3. QED
      BY <2>3, <3>2
  <2>6. b \notin Shl(Packed(tags), first)
    BY <1>1, <1>3, <2>3, <2>4 DEF Shl
  <2>7. QED
    BY <1>4, <2>5, <2>6 DEF b
<1>7. MemoryOK'
  <2>1. \A k \in 0 .. size - 1 : first + k \in 0 .. size * num_buckets_ - 1
    <3>1. \A k \in 0 .. size - 1 : first + k \in Nat /\ first + k < size * num_buckets_
      BY <1>1, BucketsApart
    <3>2. QED
      BY <1>1, <3>1
  <2>2. first \in Nat
    BY <1>1
  <2>3. buckets_ \subseteq 0 .. size * num_buckets_ - 1
    BY DEF MemoryOK
  <2> HIDE DEF first, size
  <2>4. Shl(Packed(tags), first) \subseteq 0 .. size * num_buckets_ - 1
    BY <1>1, <1>3, <2>1, <2>2 DEF Shl
  <2>5. buckets_' \subseteq 0 .. size * num_buckets_ - 1
    BY <1>4, <2>3, <2>4
  <2>6. QED
    BY <1>1, <2>5 DEF MemoryOK, size
<1>8. buckets_' \subseteq Nat
  BY <1>1, <1>7 DEF MemoryOK
<1>9. ASSUME NEW m \in Indices
      PROVE  /\ Word(m)' \in Words
             /\ \A k \in 0 .. size - 1 : k \in Word(m)' <=> size * m + k \in buckets_'
  BY <1>1, <1>8, WordBitsNext
<1>10. ASSUME NEW m \in Indices
       PROVE  ReadBucket(m)' = Decoded(Word(m)', kDirBitsPerTag)
  BY <1>1 DEF ReadBucket, Word, Decoded, kDirBitsMask
<1>11. ReadBucket(i)' = tags
  BY <1>1, <1>2, <1>5, <1>9, <1>10, DecodePacked DEF TagSet
<1>12. ASSUME NEW m \in Indices \ {i}
       PROVE  ReadBucket(m)' = ReadBucket(m)
  <2>1. Word(m) \in Words /\ \A k \in 0 .. size - 1 : k \in Word(m) <=> size * m + k \in buckets_
    BY <1>1, WordBits
  <2>2. Word(m)' \in Words /\ \A k \in 0 .. size - 1 : k \in Word(m)' <=> k \in Word(m)
    BY <1>6, <1>9, <2>1
  <2>3. Decoded(Word(m)', kDirBitsPerTag) = Decoded(Word(m), kDirBitsPerTag)
    BY <1>1, <2>1, <2>2, SameWord
  <2>4. ReadBucket(m) = Decoded(Word(m), kDirBitsPerTag)
    BY DEF ReadBucket, Word
  <2>5. QED
    BY <1>10, <2>3, <2>4
<1>13. QED
  BY <1>7, <1>11, <1>12 DEF tags

-----------------------------------------------------------------------------
(* The copies of a tag in a bucket. *)

UpTo(t, x, j) == {k \in 1 .. j : t[k] = x}

LEMMA CountUpTo ==
  ASSUME NEW t, NEW x, NEW j \in Nat, NEW n \in Nat, n = j + 1,
         IsFiniteSet(UpTo(t, x, j)), Cardinality(UpTo(t, x, j)) \in Nat
  PROVE  /\ IsFiniteSet(UpTo(t, x, n))
         /\ Cardinality(UpTo(t, x, n)) = Cardinality(UpTo(t, x, j)) + Same(t[n], x)
         /\ Cardinality(UpTo(t, x, n)) \in Nat
<1>1. n \notin UpTo(t, x, j)
  BY DEF UpTo
<1>2. CASE t[n] = x
  <2>1. UpTo(t, x, n) = UpTo(t, x, j) \cup {n}
    BY <1>2 DEF UpTo
  <2>2. /\ IsFiniteSet(UpTo(t, x, j) \cup {n})
        /\ Cardinality(UpTo(t, x, j) \cup {n}) = Cardinality(UpTo(t, x, j)) + 1
    BY <1>1, FS_AddElement
  <2>3. Same(t[n], x) = 1
    BY <1>2 DEF Same
  <2>4. Cardinality(UpTo(t, x, n)) = Cardinality(UpTo(t, x, j)) + 1 /\ IsFiniteSet(UpTo(t, x, n))
    BY <2>1, <2>2
  <2>5. QED
    BY <2>3, <2>4
<1>3. CASE t[n] # x
  <2>1. UpTo(t, x, n) = UpTo(t, x, j)
    BY <1>3 DEF UpTo
  <2>2. QED
    BY <1>3, <2>1 DEF Same
<1>4. QED
  BY <1>2, <1>3

LEMMA CountOne ==
  ASSUME NEW t, NEW x
  PROVE  /\ Cardinality(UpTo(t, x, 1)) = Same(t[1], x)
         /\ Cardinality(UpTo(t, x, 2)) = Same(t[1], x) + Same(t[2], x)
         /\ Cardinality(UpTo(t, x, 3)) = Same(t[1], x) + Same(t[2], x) + Same(t[3], x)
         /\ Cardinality(UpTo(t, x, 4)) = Times(t, x)
<1>1. \A j : Same(t[j], x) \in 0 .. 1
  BY DEF Same
<1>2. IsFiniteSet(UpTo(t, x, 0)) /\ Cardinality(UpTo(t, x, 0)) = 0
  <2>1. UpTo(t, x, 0) = {}
    BY DEF UpTo
  <2>2. QED
    BY <2>1, FS_EmptySet
<1>3. /\ IsFiniteSet(UpTo(t, x, 1)) /\ Cardinality(UpTo(t, x, 1)) \in Nat
      /\ Cardinality(UpTo(t, x, 1)) = Cardinality(UpTo(t, x, 0)) + Same(t[1], x)
  BY <1>2, CountUpTo
<1>4. /\ IsFiniteSet(UpTo(t, x, 2)) /\ Cardinality(UpTo(t, x, 2)) \in Nat
      /\ Cardinality(UpTo(t, x, 2)) = Cardinality(UpTo(t, x, 1)) + Same(t[2], x)
  BY <1>3, CountUpTo
<1>5. /\ IsFiniteSet(UpTo(t, x, 3)) /\ Cardinality(UpTo(t, x, 3)) \in Nat
      /\ Cardinality(UpTo(t, x, 3)) = Cardinality(UpTo(t, x, 2)) + Same(t[3], x)
  BY <1>4, CountUpTo
<1>6. Cardinality(UpTo(t, x, 4)) = Cardinality(UpTo(t, x, 3)) + Same(t[4], x)
  BY <1>5, CountUpTo
<1>7. QED
  BY <1>1, <1>2, <1>3, <1>4, <1>5, <1>6 DEF Times

\* The copies of a tag are numbered from 1, each number once.
LEMMA NthCopy ==
  ASSUME NEW t, NEW x
  PROVE  /\ Times(t, x) \in 0 .. 4
         /\ \A j \in 1 .. 4 : t[j] = x => Nth(t, j) \in 1 .. Times(t, x)
         /\ \A n \in 1 .. Times(t, x) : \E j \in 1 .. 4 : t[j] = x /\ Nth(t, j) = n
         /\ \A j, k \in 1 .. 4 : t[j] = x /\ t[k] = x /\ Nth(t, j) = Nth(t, k) => j = k
<1> DEFINE p(j) == Same(t[j], x)
<1>1. \A j : p(j) \in 0 .. 1 /\ (t[j] = x <=> p(j) = 1)
  BY DEF Same
<1>2. Times(t, x) = p(1) + p(2) + p(3) + p(4)
  BY DEF Times
<1>3. ASSUME NEW j \in 1 .. 4, t[j] = x
      PROVE  /\ j = 1 => Nth(t, j) = p(1)
             /\ j = 2 => Nth(t, j) = p(1) + p(2)
             /\ j = 3 => Nth(t, j) = p(1) + p(2) + p(3)
             /\ j = 4 => Nth(t, j) = p(1) + p(2) + p(3) + p(4)
  <2>1. Nth(t, j) = Cardinality(UpTo(t, x, j))
    BY <1>3 DEF Nth, UpTo
  <2>2. QED
    BY <2>1, CountOne DEF Times
<1> HIDE DEF p
<1>4. /\ t[1] = x => Nth(t, 1) = p(1) /\ p(1) = 1
      /\ t[2] = x => Nth(t, 2) = p(1) + p(2) /\ p(2) = 1
      /\ t[3] = x => Nth(t, 3) = p(1) + p(2) + p(3) /\ p(3) = 1
      /\ t[4] = x => Nth(t, 4) = p(1) + p(2) + p(3) + p(4) /\ p(4) = 1
  BY <1>1, <1>3
<1>5. Times(t, x) \in 0 .. 4
  BY <1>1, <1>2
<1>6. ASSUME NEW j \in 1 .. 4, t[j] = x PROVE Nth(t, j) \in 1 .. Times(t, x)
  BY <1>1, <1>2, <1>4, <1>6
<1>7. ASSUME NEW n \in 1 .. Times(t, x) PROVE \E j \in 1 .. 4 : t[j] = x /\ Nth(t, j) = n
  <2>1. \/ p(1) = 1 /\ p(1) = n
        \/ p(2) = 1 /\ p(1) + p(2) = n
        \/ p(3) = 1 /\ p(1) + p(2) + p(3) = n
        \/ p(4) = 1 /\ p(1) + p(2) + p(3) + p(4) = n
    BY <1>1, <1>2
  <2>2. QED
    BY <1>1, <1>4, <2>1
<1>8. ASSUME NEW j \in 1 .. 4, NEW k \in 1 .. 4, t[j] = x, t[k] = x, Nth(t, j) = Nth(t, k)
      PROVE  j = k
  BY <1>1, <1>4, <1>8
<1>9. QED
  BY <1>5, <1>6, <1>7, <1>8

\* What the array stands for is how often each bucket holds each tag.
Read == [i \in Indices |-> ReadBucket(i)]
TagsOfTable == PackedAssumption /\ \A i \in Indices : Read[i] \in [1 .. 4 -> AllTags \cup {{}}]
TriplesOf(read) == {c \in Indices \X AllTags \X (1 .. 4) : c[3] <= Times(read[c[1]], c[2])}
Triples == TriplesOf(Read)

LEMMA CopiesAre ==
  TagsOfTable => Copies = Triples
<1> SUFFICES ASSUME TagsOfTable PROVE Copies = Triples
  OBVIOUS
<1>1. {} \notin AllTags
  BY DEF TagsOfTable, PackedAssumption, AllTags
<1>2. ASSUME NEW i \in Indices
      PROVE  Read[i] = ReadBucket(i) /\ Read[i] \in [1 .. 4 -> AllTags \cup {{}}]
  BY DEF Read, TagsOfTable
<1> DEFINE Of(i) == {<<i, Read[i][j], Nth(Read[i], j)>> : j \in {k \in 1 .. 4 : Read[i][k] # {}}}
<1>3. Copies = UNION {Of(i) : i \in Indices}
  <2> DEFINE Pair(i) == <<i, ReadBucket(i)>>
             In(b) == {<<b[1], b[2][j], Nth(b[2], j)>> : j \in {k \in 1 .. 4 : b[2][k] # {}}}
  <2>1. \A i \in Indices : In(Pair(i)) = Of(i)
    BY <1>2
  <2>2. Copies = UNION {In(b) : b \in {Pair(i) : i \in Indices}}
    BY DEF Copies
  <2> HIDE DEF In, Pair, Of
  <2>3. QED
    BY <2>1, <2>2
<1>4. ASSUME NEW i \in Indices, NEW c, c \in Of(i)
      PROVE  c \in Triples
  <2>1. PICK j \in 1 .. 4 : Read[i][j] # {} /\ c = <<i, Read[i][j], Nth(Read[i], j)>>
    BY <1>4
  <2>2. Read[i][j] \in AllTags
    BY <1>2, <2>1
  <2>3. /\ Nth(Read[i], j) \in 1 .. Times(Read[i], Read[i][j])
        /\ Times(Read[i], Read[i][j]) \in 0 .. 4
    BY NthCopy
  <2>4. /\ Nth(Read[i], j) \in 1 .. 4
        /\ Nth(Read[i], j) <= Times(Read[i], Read[i][j])
    BY <2>3
  <2>5. QED
    BY <2>1, <2>2, <2>4 DEF Triples, TriplesOf
<1>5. ASSUME NEW c \in Triples
      PROVE  \E i \in Indices : c \in Of(i)
  <2>1. PICK i \in Indices, x \in AllTags, n \in 1 .. 4 :
           c = <<i, x, n>> /\ n <= Times(Read[i], x)
    BY DEF Triples, TriplesOf
  <2>2. n \in 1 .. Times(Read[i], x)
    <3>1. Times(Read[i], x) \in 0 .. 4
      BY NthCopy
    <3>2. QED
      BY <2>1, <3>1
  <2>3. PICK j \in 1 .. 4 : Read[i][j] = x /\ Nth(Read[i], j) = n
    BY <2>2, NthCopy
  <2>4. Read[i][j] # {}
    BY <1>1, <2>3
  <2>5. c \in Of(i)
    BY <2>1, <2>3, <2>4
  <2>6. QED
    BY <2>5
<1> HIDE DEF Of
<1>6. QED
  BY <1>3, <1>4, <1>5

LEMMA SameCardinality ==
  ASSUME NEW S
  PROVE  Abstract!Cardinality(S) = Cardinality(S)
BY DEF Abstract!Cardinality, Cardinality

LEMMA FourSlots == IsFiniteSet(1 .. 4) /\ Cardinality(1 .. 4) = 4
<1>1. \A n \in Nat : IsFiniteSet(1 .. n) /\ Cardinality(1 .. n) = n
  <2>1. ASSUME NEW n \in Nat
        PROVE  IsFiniteSet(1 .. n) /\ Cardinality(1 .. n) = n
    BY FS_Interval
  <2>2. QED
    BY <2>1
<1>2. QED
  BY <1>1

\* The bucket that TagBuckets sees has the tags that are read, as often.
LEMMA CountIs ==
  ASSUME TagsOfTable, NEW i \in Indices
  PROVE  /\ \A x \in AllTags : Abstract!Count(i, x) = Times(Read[i], x)
         /\ \A x \in AllTags : x \in Abstract!Held(i) <=> Times(Read[i], x) >= 1
         /\ Abstract!Full(i) <=> \A j \in 1 .. 4 : Read[i][j] # {}
<1>1. Copies = Triples
  BY CopiesAre
<1>2. \A x : Times(Read[i], x) \in 0 .. 4
  BY NthCopy
<1>3. {} \notin AllTags /\ Read[i] \in [1 .. 4 -> AllTags \cup {{}}]
  BY DEF TagsOfTable, PackedAssumption, AllTags
<1>4. Abstract!In(i) = {c \in Triples : c[1] = i}
  BY <1>1 DEF Abstract!In
<1>5. ASSUME NEW x \in AllTags
      PROVE  Abstract!Count(i, x) = Times(Read[i], x)
  <2> DEFINE n == Times(Read[i], x)
             T == {c \in Abstract!In(i) : c[2] = x}
             f == [k \in 1 .. n |-> <<i, x, k>>]
  <2>1. n \in 0 .. 4
    BY <1>2
  <2>2. T = {<<i, x, k>> : k \in 1 .. n}
    <3>1. \A k \in 1 .. n : <<i, x, k>> \in T
      BY <1>4, <2>1 DEF Triples, TriplesOf
    <3>2. \A c \in T : \E k \in 1 .. n : c = <<i, x, k>>
      BY <1>4, <2>1 DEF Triples, TriplesOf
    <3>3. QED
      BY <3>1, <3>2
  <2>3. f \in Bijection(1 .. n, T)
    <3>1. f \in [1 .. n -> T] /\ \A k, m \in 1 .. n : f[k] = f[m] => k = m
      BY <2>2
    <3>2. \A c \in T : \E k \in 1 .. n : f[k] = c
      BY <2>2
    <3> HIDE DEF f, T, n
    <3>3. QED
      BY <3>1, <3>2 DEF Bijection, Injection, Surjection, IsInjective
  <2> HIDE DEF f, T, n
  <2>4. ExistsBijection(1 .. n, T)
    BY <2>3 DEF ExistsBijection
  <2>5. Cardinality(T) = n
    BY <2>1, <2>4, FS_CountingElements
  <2>6. QED
    BY <2>5, SameCardinality DEF Abstract!Count, T, n
<1>6. ASSUME NEW x \in AllTags
      PROVE  x \in Abstract!Held(i) <=> Times(Read[i], x) >= 1
  <2>1. x \in Abstract!Held(i) <=> \E c \in Triples : c[1] = i /\ c[2] = x
    BY <1>4 DEF Abstract!Held
  <2>2. ASSUME NEW c \in Triples, c[1] = i, c[2] = x PROVE Times(Read[i], x) >= 1
    BY <1>2, <2>2 DEF Triples, TriplesOf
  <2>3. ASSUME Times(Read[i], x) >= 1 PROVE <<i, x, 1>> \in Triples
    BY <1>2, <2>3 DEF Triples, TriplesOf
  <2>4. QED
    BY <2>1, <2>2, <2>3
<1>7. Abstract!Full(i) <=> \A j \in 1 .. 4 : Read[i][j] # {}
  <2> DEFINE t == Read[i]
             Used == {j \in 1 .. 4 : t[j] # {}}
             g == [j \in Used |-> <<i, t[j], Nth(t, j)>>]
  <2>1. IsFiniteSet(1 .. 4) /\ Cardinality(1 .. 4) = 4
    BY FourSlots
  <2>2. IsFiniteSet(Used) /\ (Cardinality(Used) = 4 <=> Used = 1 .. 4)
    <3>1. Used \in SUBSET (1 .. 4)
      OBVIOUS
    <3> HIDE DEF Used
    <3>2. QED
      BY <2>1, <3>1, FS_Subset
  <2>3. g \in [Used -> Abstract!In(i)]
    <3>1. ASSUME NEW j \in Used PROVE <<i, t[j], Nth(t, j)>> \in Abstract!In(i)
      <4>1. t[j] \in AllTags /\ j \in 1 .. 4
        BY <1>3
      <4>2. Nth(t, j) \in 1 .. Times(t, t[j]) /\ Times(t, t[j]) \in 0 .. 4
        BY <4>1, NthCopy
      <4>3. Nth(t, j) \in 1 .. 4 /\ Nth(t, j) <= Times(t, t[j])
        BY <4>2
      <4>4. QED
        BY <1>4, <4>1, <4>3 DEF Triples, TriplesOf
    <3>2. QED
      BY <3>1
  <2>4. ASSUME NEW j \in Used, NEW k \in Used, g[j] = g[k] PROVE j = k
    <3>1. t[j] = t[k] /\ Nth(t, j) = Nth(t, k) /\ j \in 1 .. 4 /\ k \in 1 .. 4
      BY <2>4
    <3> HIDE DEF t
    <3>2. QED
      BY <3>1, NthCopy
  <2>5. ASSUME NEW c \in Abstract!In(i) PROVE \E j \in Used : g[j] = c
    <3>1. PICK x \in AllTags, n \in 1 .. 4 : c = <<i, x, n>> /\ n <= Times(t, x)
      BY <1>4 DEF Triples, TriplesOf
    <3>2. n \in 1 .. Times(t, x)
      <4>1. Times(t, x) \in 0 .. 4
        BY NthCopy
      <4>2. QED
        BY <3>1, <4>1
    <3>3. PICK j \in 1 .. 4 : t[j] = x /\ Nth(t, j) = n
      BY <3>2, NthCopy
    <3>4. j \in Used
      BY <1>3, <3>3
    <3>5. QED
      BY <3>1, <3>3, <3>4
  <2>6. g \in Bijection(Used, Abstract!In(i))
    <3> HIDE DEF g, Used
    <3>1. QED
      BY <2>3, <2>4, <2>5 DEF Bijection, Injection, Surjection, IsInjective
  <2> HIDE DEF g, Used
  <2>7. Cardinality(Abstract!In(i)) = Cardinality(Used)
    BY <2>2, <2>6, FS_Bijection DEF ExistsBijection
  <2>8. Abstract!Full(i) <=> Used = 1 .. 4
    BY <2>2, <2>7, SameCardinality DEF Abstract!Full
  <2>9. QED
    BY <2>8 DEF Used
<1>8. QED
  BY <1>5, <1>6, <1>7

\* A tag of bucket i is put into one slot, or taken out of it, or both.
LEMMA OneSlot ==
  ASSUME NEW t, NEW u, NEW j \in 1 .. 4, NEW y,
         u[j] = y, \A k \in 1 .. 4 \ {j} : u[k] = t[k]
  PROVE  \A x : Times(u, x) = Times(t, x) - Same(t[j], x) + Same(y, x)
<1>1. ASSUME NEW x PROVE Times(u, x) = Times(t, x) - Same(t[j], x) + Same(y, x)
  <2>1. \A b : Same(b, x) \in 0 .. 1
    BY DEF Same
  <2>2. j = 1 \/ j = 2 \/ j = 3 \/ j = 4
    OBVIOUS
  <2>3. CASE j = 1
    <3>1. u[1] = y /\ u[2] = t[2] /\ u[3] = t[3] /\ u[4] = t[4]
      BY <2>3
    <3>2. QED
      BY <2>1, <2>3, <3>1 DEF Times
  <2>4. CASE j = 2
    <3>1. u[1] = t[1] /\ u[2] = y /\ u[3] = t[3] /\ u[4] = t[4]
      BY <2>4
    <3>2. QED
      BY <2>1, <2>4, <3>1 DEF Times
  <2>5. CASE j = 3
    <3>1. u[1] = t[1] /\ u[2] = t[2] /\ u[3] = y /\ u[4] = t[4]
      BY <2>5
    <3>2. QED
      BY <2>1, <2>5, <3>1 DEF Times
  <2>6. CASE j = 4
    <3>1. u[1] = t[1] /\ u[2] = t[2] /\ u[3] = t[3] /\ u[4] = y
      BY <2>6
    <3>2. QED
      BY <2>1, <2>6, <3>1 DEF Times
  <2>7. QED
    BY <2>2, <2>3, <2>4, <2>5, <2>6
<1>2. QED
  BY <1>1

\* What changes in the copies, seen as triples, if the tags of bucket i change.
LEMMA ChangedTriples ==
  ASSUME NEW R, NEW Q, NEW i \in Indices, \A m \in Indices \ {i} : Q[m] = R[m],
         NEW old, NEW new, {} \notin AllTags,
         old \in AllTags \cup {{}}, new \in AllTags \cup {{}}, old # new,
         \A x : Times(Q[i], x) = Times(R[i], x) - Same(old, x) + Same(new, x)
  PROVE  /\ new = {} => TriplesOf(Q) = TriplesOf(R) \ {<<i, old, Times(R[i], old)>>}
         /\ old = {} => TriplesOf(Q) = TriplesOf(R) \cup {<<i, new, Times(R[i], new) + 1>>}
         /\ old # {} /\ new # {} =>
               TriplesOf(Q) = (TriplesOf(R) \ {<<i, old, Times(R[i], old)>>})
                                 \cup {<<i, new, Times(R[i], new) + 1>>}
<1> DEFINE gone == {<<i, old, Times(R[i], old)>>}
           here == {<<i, new, Times(R[i], new) + 1>>}
           all == Indices \X AllTags \X (1 .. 4)
           r(x) == Times(R[i], x)
           q(x) == Times(Q[i], x)
<1>1. \A x : r(x) \in 0 .. 4 /\ q(x) \in 0 .. 4
  BY NthCopy
<1>2. \A x : q(x) = r(x) - Same(old, x) + Same(new, x)
  OBVIOUS
<1>3. /\ q(old) = r(old) - 1
      /\ q(new) = r(new) + 1
      /\ \A x : x # old /\ x # new => q(x) = r(x)
  BY <1>1, <1>2 DEF Same
<1>4. r(old) \in 1 .. 4 /\ r(new) + 1 \in 1 .. 4
  BY <1>1, <1>3
<1>5. ASSUME NEW m \in Indices, NEW x \in AllTags, NEW n \in 1 .. 4
      PROVE  <<m, x, n>> \in TriplesOf(Q) <=>
                \/ <<m, x, n>> \in TriplesOf(R) /\ ~ (m = i /\ x = old /\ n = r(old))
                \/ m = i /\ x = new /\ n = r(new) + 1
  <2>1. <<m, x, n>> \in TriplesOf(Q) <=> n <= Times(Q[m], x)
    BY DEF TriplesOf
  <2>2. <<m, x, n>> \in TriplesOf(R) <=> n <= Times(R[m], x)
    BY DEF TriplesOf
  <2>3. CASE m # i
    BY <2>1, <2>2, <2>3
  <2>4. CASE m = i
    <3>1. (<<m, x, n>> \in TriplesOf(Q) <=> n <= q(x)) /\ (<<m, x, n>> \in TriplesOf(R) <=> n <= r(x))
      BY <2>1, <2>2, <2>4
    <3> HIDE DEF q, r
    <3>2. QED
      BY <1>1, <1>3, <2>4, <3>1
  <2>5. QED
    BY <2>3, <2>4
<1>6. TriplesOf(Q) \subseteq all /\ TriplesOf(R) \subseteq all
  BY DEF TriplesOf
<1>7. \A c \in all : \E m \in Indices, x \in AllTags, n \in 1 .. 4 : c = <<m, x, n>>
  OBVIOUS
<1>8. (new # {} => here \subseteq all) /\ (old = {} => gone \cap all = {})
  BY <1>4
<1>9. ASSUME NEW c \in all
      PROVE  /\ new = {} => (c \in TriplesOf(Q) <=> c \in TriplesOf(R) \ gone)
             /\ new # {} /\ old = {} => (c \in TriplesOf(Q) <=> c \in TriplesOf(R) \cup here)
             /\ new # {} => (c \in TriplesOf(Q) <=> c \in (TriplesOf(R) \ gone) \cup here)
  <2>1. PICK m \in Indices, x \in AllTags, n \in 1 .. 4 : c = <<m, x, n>>
    BY <1>7
  <2>2. c \in gone <=> m = i /\ x = old /\ n = r(old)
    BY <2>1
  <2>3. c \in here <=> m = i /\ x = new /\ n = r(new) + 1
    BY <2>1
  <2>4. c \in TriplesOf(Q) <=> \/ c \in TriplesOf(R) /\ c \notin gone
                               \/ c \in here
    <3>1. <<m, x, n>> \in TriplesOf(Q) <=>
             \/ <<m, x, n>> \in TriplesOf(R) /\ ~ (m = i /\ x = old /\ n = r(old))
             \/ m = i /\ x = new /\ n = r(new) + 1
      BY <1>5
    <3> HIDE DEF gone, here, r
    <3>2. QED
      BY <2>1, <2>2, <2>3, <3>1
  <2>5. (new = {} => c \notin here) /\ (old = {} => c \notin gone)
    BY <2>2, <2>3
  <2> HIDE DEF gone, here
  <2>6. QED
    BY <2>4, <2>5
<1> HIDE DEF gone, here, all
<1>10. QED
  BY <1>6, <1>8, <1>9 DEF gone, here

-----------------------------------------------------------------------------
(* The invariant. *)

Held(i) == Tags[bits_per_tag][i] \cup {{}}

(* Every bucket reads as four of its tags, sorted: this is what a write     *)
(* starts from and, read back, ends with.                                   *)
IInv ==
  /\ bits_per_tag \in Widths
  /\ MemoryOK
  /\ \A i \in Indices : ReadBucket(i) \in [1 .. 4 -> Held(i)] /\ Sorted(ReadBucket(i))

LEMMA TagsAreTags ==
  ASSUME PackedAssumption, bits_per_tag \in Widths, NEW i \in Indices
  PROVE  /\ bits_per_tag \in TagWidths /\ num_buckets_ \in Nat
         /\ Tags[bits_per_tag][i] \subseteq AllTags /\ {} \notin AllTags
         /\ Held(i) \subseteq TagSet /\ Held(i) \subseteq AllTags \cup {{}}
<1> DEFINE mine == Tags[bits_per_tag][i]
<1>1. bits_per_tag \in TagWidths /\ num_buckets_ \in Nat
  BY DEF PackedAssumption, TagWidths
<1>2. mine \subseteq AllTags
  BY DEF AllTags
<1>3. \A t \in mine : t # {} /\ t \subseteq 0 .. bits_per_tag - 1
  BY DEF PackedAssumption
<1>4. {} \notin AllTags
  BY DEF PackedAssumption, AllTags
<1> HIDE DEF mine
<1>5. mine \cup {{}} \subseteq TagSet /\ mine \cup {{}} \subseteq AllTags \cup {{}}
  BY <1>2, <1>3 DEF TagSet
<1>6. QED
  BY <1>1, <1>2, <1>4, <1>5 DEF Held, mine

LEMMA IInvTags ==
  ASSUME PackedAssumption, IInv
  PROVE  TagsOfTable
<1>1. ASSUME NEW i \in Indices PROVE Read[i] \in [1 .. 4 -> AllTags \cup {{}}]
  <2>1. ReadBucket(i) \in [1 .. 4 -> Held(i)] /\ Held(i) \subseteq AllTags \cup {{}}
    BY TagsAreTags DEF IInv
  <2>2. QED
    BY <2>1 DEF Read
<1>2. QED
  BY <1>1 DEF TagsOfTable

LEMMA SlotIs ==
  ASSUME NEW i, NEW tag
  PROVE  /\ Slot(i, tag) \in 0 .. 4
         /\ Slot(i, tag) # 0 => ReadBucket(i)[Slot(i, tag)] = tag
         /\ Slot(i, tag) = 0 => \A j \in 1 .. 4 : ReadBucket(i)[j] # tag
<1> DEFINE t == ReadBucket(i)
           I == {j \in 1 .. Len(t) : t[j] = tag}
<1>1. Len(t) = 4
  BY DEF ReadBucket, Decoded
<1> HIDE DEF t
<1>2. Slot(i, tag) = IF I # {} THEN CHOOSE x \in I : \A y \in I : x <= y ELSE 0
  BY DEF Slot, SelectInSeq, Min, t
<1>3. I \subseteq 1 .. 4
  BY <1>1
<1>4. I # {} => \E x \in I : \A y \in I : x <= y
  BY <1>3
<1>5. I # {} => Slot(i, tag) \in I
  <2> HIDE DEF I
  <2> QED
    BY <1>2, <1>4
<1>6. I = {} => Slot(i, tag) = 0
  BY <1>2
<1>7. QED
  BY <1>1, <1>3, <1>5, <1>6 DEF t

\* The empty array is four empty tags in every bucket.
LEMMA EmptyBuckets ==
  ASSUME CodecAssumption, bits_per_tag \in TagWidths, buckets_ = {}, NEW i \in Nat
  PROVE  ReadBucket(i) = <<{}, {}, {}, {}>>
<1>1. Low({}) = 0
  BY DEF Low, Weight
<1>2. Word(i) = {}
  BY DEF Word, Load, Shr
<1>3. Low12[{}] = 0
  <2>1. Shr({}, 4) = {} /\ Shr({}, 8) = {}
    BY DEF Shr
  <2>2. Low12[{}] = Low({}) + 16 * Low(Shr({}, 4)) + 256 * Low(Shr({}, 8))
    BY DEF Low12
  <2>3. QED
    BY <1>1, <2>1, <2>2
<1>4. decode[0] = <<{}, {}, {}, {}>>
  <2>1. {} \in SUBSET (0 .. 3) /\ 0 <= 0
    OBVIOUS
  <2>2. encode(<<Low({}), Low({}), Low({}), Low({})>>) = 0
    BY <1>1 DEF CodecAssumption
  <2>3. LET n == encode(<<Low({}), Low({}), Low({}), Low({})>>)
        IN  Low({}) <= Low({}) => n \in Codewords /\ decode[n] = <<{}, {}, {}, {}>>
    BY <2>1, Zenon DEF CodecAssumption
  <2>4. QED
    BY <1>1, <2>1, <2>2, <2>3
<1>5. \A n : Shr({}, n) = {}
  BY DEF Shr
<1>6. ReadBucket(i) = Decoded({}, kDirBitsPerTag)
  BY <1>2 DEF ReadBucket, Word
<1>7. QED
  BY <1>3, <1>4, <1>5, <1>6 DEF Decoded

LEMMA InitInvariant ==
  ASSUME PackedAssumption, CodecAssumption, Init
  PROVE  IInv
<1>1. bits_per_tag \in Widths /\ bits_per_tag \in TagWidths /\ buckets_ = {} /\ num_buckets_ \in Nat
  BY DEF Init, PackedAssumption, TagWidths
<1>2. MemoryOK
  BY <1>1 DEF MemoryOK
<1>3. ASSUME NEW i \in Indices
      PROVE  ReadBucket(i) \in [1 .. 4 -> Held(i)] /\ Sorted(ReadBucket(i))
  <2>1. ReadBucket(i) = <<{}, {}, {}, {}>>
    BY <1>1, EmptyBuckets DEF Indices
  <2>2. <<{}, {}, {}, {}>> \in [1 .. 4 -> Held(i)]
    BY DEF Held
  <2>3. Low({}) = 0
    BY DEF Low, Weight
  <2>4. Sorted(<<{}, {}, {}, {}>>)
    BY <2>3 DEF Sorted
  <2>5. QED
    BY <2>1, <2>2, <2>4
<1>4. QED
  BY <1>1, <1>2, <1>3 DEF IInv

\* What a write does to the invariant and to what is read.
LEMMA Replaced ==
  ASSUME PackedAssumption, CodecAssumption, IInv, bits_per_tag' = bits_per_tag,
         NEW i \in Indices, NEW j \in 1 .. 4, NEW tag \in Held(i), Replace(i, j, tag)
  PROVE  /\ IInv'
         /\ \A m \in Indices \ {i} : Read'[m] = Read[m]
         /\ \A x : Times(Read'[i], x) = Times(Read[i], x) - Same(Read[i][j], x) + Same(tag, x)
<1> DEFINE t == ReadBucket(i)
           u == [t EXCEPT ![j] = tag]
<1>1. /\ bits_per_tag \in TagWidths /\ num_buckets_ \in Nat /\ Held(i) \subseteq TagSet
  BY TagsAreTags DEF IInv
<1>2. t \in [1 .. 4 -> Held(i)] /\ MemoryOK /\ bits_per_tag \in Widths
  BY DEF IInv
<1>3. u \in [1 .. 4 -> Held(i)]
  BY <1>2
<1>4. buckets_' = WriteBucket(i, u)
  BY DEF Replace
<1>5. \A x : Times(u, x) = Times(t, x) - Same(t[j], x) + Same(tag, x)
  <2>1. u[j] = tag
    BY <1>2
  <2>2. \A k \in 1 .. 4 \ {j} : u[k] = t[k]
    BY <1>2
  <2> HIDE DEF t, u
  <2>3. QED
    BY <2>1, <2>2, OneSlot
<1> HIDE DEF u, t
<1>6. /\ MemoryOK' /\ ReadBucket(i)' = SortTags(u)
      /\ \A m \in Indices \ {i} : ReadBucket(m)' = ReadBucket(m)
  BY <1>1, <1>2, <1>3, <1>4, Written
<1>7. /\ SortTags(u) \in [1 .. 4 -> Held(i)] /\ Sorted(SortTags(u))
      /\ \A x : Times(SortTags(u), x) = Times(u, x)
  BY <1>3, SortTagsLemma
<1>8. \A m : Held(m)' = Held(m)
  BY DEF Held
<1>9. IInv'
  <2>1. ASSUME NEW m \in Indices
        PROVE  ReadBucket(m)' \in [1 .. 4 -> Held(m)'] /\ Sorted(ReadBucket(m)')
    <3>1. CASE m = i
      BY <1>6, <1>7, <1>8, <3>1
    <3>2. CASE m # i
      BY <1>6, <1>8, <3>2 DEF IInv
    <3>3. QED
      BY <3>1, <3>2
  <2>2. \A m \in Indices : Sorted(ReadBucket(m)') <=> Sorted(ReadBucket(m))'
    BY DEF Sorted, Low, Weight
  <2>3. bits_per_tag' \in Widths
    BY <1>2
  <2>4. QED
    BY <1>6, <2>1, <2>2, <2>3 DEF IInv
<1>10. \A m \in Indices : Read[m] = ReadBucket(m) /\ Read'[m] = ReadBucket(m)'
  BY DEF Read
<1>11. QED
  BY <1>5, <1>6, <1>7, <1>9, <1>10 DEF t

LEMMA CopiesAreNext ==
  TagsOfTable' => Copies' = TriplesOf(Read')
<1>1. (TagsOfTable => Copies = Triples)'
  BY CopiesAre, PTL
<1>2. Triples' = TriplesOf(Read')
  BY DEF Triples, TriplesOf, Times, Same
<1>3. QED
  BY <1>1, <1>2

LEMMA NextTags ==
  ASSUME PackedAssumption, IInv'
  PROVE  TagsOfTable'
<1>1. ASSUME NEW i \in Indices PROVE Read'[i] \in [1 .. 4 -> AllTags \cup {{}}]
  <2>1. ReadBucket(i)' \in [1 .. 4 -> Held(i)'] /\ bits_per_tag' \in Widths
    BY DEF IInv
  <2>2. Held(i)' \subseteq AllTags \cup {{}}
    BY <2>1 DEF Held, AllTags
  <2>3. Read'[i] = ReadBucket(i)'
    BY DEF Read
  <2>4. QED
    BY <2>1, <2>2, <2>3
<1>2. AllTags' = AllTags
  BY DEF AllTags
<1>3. QED
  BY <1>1, <1>2 DEF TagsOfTable

LEMMA UnchangedBuckets ==
  ASSUME PackedAssumption, IInv, bits_per_tag' = bits_per_tag, buckets_' = buckets_
  PROVE  IInv' /\ Copies' = Copies
<1>1. \A i : ReadBucket(i)' = ReadBucket(i)
  BY DEF ReadBucket, Decoded, Load, Byte, Nibble, kDirBitsMask, kDirBitsPerTag, kBitsPerBucket
<1>2. IInv'
  BY <1>1 DEF IInv, MemoryOK, Held, Sorted, kBitsPerBucket, kDirBitsPerTag
<1>3. Read' = Read
  BY <1>1 DEF Read
<1>4. TagsOfTable /\ TagsOfTable'
  BY <1>2, IInvTags, NextTags
<1>5. QED
  BY <1>2, <1>3, <1>4, CopiesAre, CopiesAreNext DEF Triples

\* Deleting, inserting and displacing, seen as bags.
LEMMA DeleteIsDelete ==
  ASSUME PackedAssumption, CodecAssumption, IInv, bits_per_tag' = bits_per_tag,
         NEW i \in Indices, NEW tag \in Tags[bits_per_tag][i],
         DeleteTagFromBucket(i, tag)
  PROVE  IInv' /\ reply'.i = i /\ reply'.tag = tag
         /\ (Abstract!Delete(i, tag) \/ Abstract!Miss(i, tag))
<1>1. TagsOfTable /\ tag \in AllTags /\ tag # {} /\ {} \notin AllTags
  BY IInvTags, TagsAreTags DEF IInv
<1>2. Copies = TriplesOf(Read) /\ Read[i] = ReadBucket(i)
  BY <1>1, CopiesAre DEF Triples, Read
<1>3. /\ Abstract!Count(i, tag) = Times(Read[i], tag)
      /\ tag \in Abstract!Held(i) <=> Times(Read[i], tag) >= 1
  BY <1>1, CountIs
<1>4. Times(Read[i], tag) \in 0 .. 4 /\ \A j \in 1 .. 4 : Same(Read[i][j], tag) \in 0 .. 1
  BY NthCopy DEF Same
<1>5. CASE /\ Slot(i, tag) # 0
           /\ Replace(i, Slot(i, tag), {})
           /\ reply' = Reply(i, tag, TRUE, {})
  <2> DEFINE j == Slot(i, tag)
  <2>1. j \in 1 .. 4 /\ Read[i][j] = tag
    BY <1>2, <1>5, SlotIs
  <2>2. {} \in Held(i)
    BY DEF Held
  <2>3. /\ IInv'
        /\ \A m \in Indices \ {i} : Read'[m] = Read[m]
        /\ \A x : Times(Read'[i], x) = Times(Read[i], x) - Same(tag, x) + Same({}, x)
    <3>1. Replace(i, j, {})
      BY <1>5
    <3> HIDE DEF j
    <3>2. /\ IInv'
          /\ \A m \in Indices \ {i} : Read'[m] = Read[m]
          /\ \A x : Times(Read'[i], x) = Times(Read[i], x) - Same(Read[i][j], x) + Same({}, x)
      BY <2>1, <2>2, <3>1, Replaced
    <3>3. QED
      BY <2>1, <3>2
  <2>4. TriplesOf(Read') = TriplesOf(Read) \ {<<i, tag, Times(Read[i], tag)>>}
    <3>1. tag \in AllTags \cup {{}} /\ {} \in AllTags \cup {{}} /\ tag # {}
      BY <1>1
    <3>2. QED
      BY <1>1, <2>3, <3>1, ChangedTriples
  <2>5. Copies' = Copies \ Abstract!Last(i, tag)
    BY <1>2, <1>3, <2>3, <2>4, NextTags, CopiesAreNext DEF Abstract!Last
  <2>6. tag \in Abstract!Held(i)
    <3>1. \E k \in 1 .. 4 : Read[i][k] = tag
      BY <2>1
    <3>2. Times(Read[i], tag) >= 1
      BY <3>1, NthCopy
    <3>3. QED
      BY <1>3, <3>2
  <2>7. QED
    BY <1>5, <2>3, <2>5, <2>6 DEF Abstract!Delete, Abstract!Reply, Reply
<1>6. CASE /\ Slot(i, tag) = 0
           /\ reply' = Reply(i, tag, FALSE, {})
           /\ UNCHANGED buckets_
  <2>1. IInv' /\ Copies' = Copies
    BY <1>6, UnchangedBuckets
  <2>2. tag \notin Abstract!Held(i)
    <3>1. \A k \in 1 .. 4 : Read[i][k] # tag
      BY <1>2, <1>6, SlotIs
    <3>2. ~ (Times(Read[i], tag) >= 1)
      <4>1. SUFFICES ASSUME Times(Read[i], tag) >= 1 PROVE FALSE
        OBVIOUS
      <4>2. 1 \in 1 .. Times(Read[i], tag)
        BY <1>4, <4>1
      <4>3. QED
        BY <3>1, <4>2, NthCopy
    <3>3. QED
      BY <1>3, <3>2
  <2>3. QED
    BY <1>6, <2>1, <2>2 DEF Abstract!Miss, Abstract!Reply, Reply
<1>7. QED
  BY <1>5, <1>6 DEF DeleteTagFromBucket

LEMMA InsertIsInsert ==
  ASSUME PackedAssumption, CodecAssumption, IInv, bits_per_tag' = bits_per_tag,
         NEW i \in Indices, NEW tag \in Tags[bits_per_tag][i], NEW kickout \in BOOLEAN,
         InsertTagToBucket(i, tag, kickout)
  PROVE  IInv' /\ reply'.i = i /\ reply'.tag = tag
         /\ \/ Abstract!Insert(i, tag) \/ Abstract!Refuse(i, tag)
            \/ \E old \in AllTags : Abstract!Displace(i, tag, old)
<1>1. /\ TagsOfTable /\ tag \in AllTags /\ tag # {} /\ {} \notin AllTags
      /\ tag \in Held(i) /\ tag \in AllTags \cup {{}} /\ {} \in AllTags \cup {{}}
  BY IInvTags, TagsAreTags DEF IInv, Held
<1>2. Copies = TriplesOf(Read) /\ Read[i] = ReadBucket(i)
  BY <1>1, CopiesAre DEF Triples, Read
<1>3. /\ \A x \in AllTags : Abstract!Count(i, x) = Times(Read[i], x)
      /\ \A x \in AllTags : x \in Abstract!Held(i) <=> Times(Read[i], x) >= 1
      /\ Abstract!Full(i) <=> \A j \in 1 .. 4 : Read[i][j] # {}
  BY <1>1, CountIs
<1>4. ASSUME NEW j \in 1 .. 4, Replace(i, j, tag)
      PROVE  /\ IInv' /\ Copies' = TriplesOf(Read')
             /\ \A m \in Indices \ {i} : Read'[m] = Read[m]
             /\ \A x : Times(Read'[i], x)
                          = Times(Read[i], x) - Same(Read[i][j], x) + Same(tag, x)
  <2>1. /\ IInv'
        /\ \A m \in Indices \ {i} : Read'[m] = Read[m]
        /\ \A x : Times(Read'[i], x)
                     = Times(Read[i], x) - Same(Read[i][j], x) + Same(tag, x)
    BY <1>1, <1>4, Replaced
  <2>2. QED
    BY <2>1, NextTags, CopiesAreNext
<1>5. CASE /\ Slot(i, {}) # 0
           /\ Replace(i, Slot(i, {}), tag)
           /\ reply' = Reply(i, tag, TRUE, {})
  <2> DEFINE j == Slot(i, {})
  <2>1. j \in 1 .. 4 /\ Read[i][j] = {} /\ Replace(i, j, tag)
    BY <1>2, <1>5, SlotIs
  <2> HIDE DEF j
  <2>2. /\ IInv' /\ Copies' = TriplesOf(Read')
        /\ \A m \in Indices \ {i} : Read'[m] = Read[m]
        /\ \A x : Times(Read'[i], x) = Times(Read[i], x) - Same(Read[i][j], x) + Same(tag, x)
    BY <1>4, <2>1
  <2>3. \A x : Times(Read'[i], x) = Times(Read[i], x) - Same({}, x) + Same(tag, x)
    BY <2>1, <2>2
  <2>4. TriplesOf(Read') = TriplesOf(Read) \cup {<<i, tag, Times(Read[i], tag) + 1>>}
    BY <1>1, <2>2, <2>3, ChangedTriples
  <2>5. Copies' = Copies \cup Abstract!Another(i, tag)
    BY <1>1, <1>2, <1>3, <2>2, <2>4 DEF Abstract!Another
  <2>6. ~ Abstract!Full(i)
    BY <1>3, <2>1
  <2>7. QED
    BY <1>5, <2>2, <2>5, <2>6 DEF Abstract!Insert, Abstract!Reply, Reply
<1>6. ASSUME Slot(i, {}) = 0
      PROVE  Abstract!Full(i) /\ \A j \in 1 .. 4 : Read[i][j] # {}
  BY <1>2, <1>3, <1>6, SlotIs
<1>7. ASSUME Slot(i, {}) = 0, NEW r \in 1 .. 4, Replace(i, r, tag),
             reply' = Reply(i, tag, FALSE, ReadBucket(i)[r])
      PROVE  /\ IInv' /\ reply'.i = i /\ reply'.tag = tag
             /\ \E old \in AllTags : Abstract!Displace(i, tag, old)
  <2> DEFINE old == Read[i][r]
  <2>1. old # {} /\ Abstract!Full(i)
    BY <1>6, <1>7
  <2>2. old \in AllTags /\ old \in AllTags \cup {{}}
    BY <1>1, <2>1 DEF TagsOfTable
  <2>3. /\ IInv' /\ Copies' = TriplesOf(Read')
        /\ \A m \in Indices \ {i} : Read'[m] = Read[m]
        /\ \A x : Times(Read'[i], x) = Times(Read[i], x) - Same(old, x) + Same(tag, x)
    BY <1>4, <1>7
  <2>4. old \in Abstract!Held(i)
    <3>1. Nth(Read[i], r) \in 1 .. Times(Read[i], old) /\ Times(Read[i], old) \in 0 .. 4
      BY NthCopy
    <3>2. Times(Read[i], old) >= 1
      BY <3>1
    <3>3. QED
      BY <1>3, <2>2, <3>2
  <2>5. Abstract!Count(i, old) = Times(Read[i], old) /\ Abstract!Count(i, tag) = Times(Read[i], tag)
    BY <1>1, <1>3, <2>2
  <2>6. reply' = Abstract!Reply(i, tag, FALSE, old)
    BY <1>2, <1>7 DEF Reply, Abstract!Reply
  <2> HIDE DEF old
  <2>7. CASE old = tag
    <3>1. \A x : Times(Read'[i], x) = Times(Read[i], x)
      <4>1. ASSUME NEW x PROVE Times(Read'[i], x) = Times(Read[i], x)
        <5>1. Times(Read'[i], x) = Times(Read[i], x) - Same(tag, x) + Same(tag, x)
          BY <2>3, <2>7
        <5>2. Same(tag, x) \in 0 .. 1
          BY DEF Same
        <5>3. Times(Read[i], x) \in 0 .. 4
          BY NthCopy
        <5>4. QED
          BY <5>1, <5>2, <5>3
      <4>2. QED
        BY <4>1
    <3>2. \A m \in Indices, x \in AllTags : Times(Read'[m], x) = Times(Read[m], x)
      BY <2>3, <3>1
    <3>3. TriplesOf(Read') = TriplesOf(Read)
      BY <3>2 DEF TriplesOf
    <3>4. Copies' = Copies
      BY <1>2, <2>3, <3>3
    <3>5. Abstract!Displace(i, tag, old)
      BY <2>1, <2>4, <2>6, <2>7, <3>4 DEF Abstract!Displace
    <3>6. QED
      BY <2>2, <2>3, <2>6, <3>5 DEF Abstract!Reply
  <2>8. CASE old # tag
    <3>1. TriplesOf(Read') = (TriplesOf(Read) \ {<<i, old, Times(Read[i], old)>>})
                                 \cup {<<i, tag, Times(Read[i], tag) + 1>>}
      BY <1>1, <2>1, <2>2, <2>3, <2>8, ChangedTriples
    <3>2. Copies' = (Copies \ Abstract!Last(i, old)) \cup Abstract!Another(i, tag)
      BY <1>2, <2>3, <2>5, <3>1 DEF Abstract!Last, Abstract!Another
    <3>3. Abstract!Displace(i, tag, old)
      BY <2>1, <2>4, <2>6, <2>8, <3>2 DEF Abstract!Displace
    <3>4. QED
      BY <2>2, <2>3, <2>6, <3>3 DEF Abstract!Reply
  <2>9. QED
    BY <2>7, <2>8
<1>8. CASE /\ Slot(i, {}) = 0 /\ ~kickout
           /\ reply' = Reply(i, tag, FALSE, {})
           /\ UNCHANGED buckets_
  <2>1. IInv' /\ Copies' = Copies
    BY <1>8, UnchangedBuckets
  <2>2. Abstract!Full(i)
    BY <1>6, <1>8
  <2>3. QED
    BY <1>8, <2>1, <2>2 DEF Abstract!Refuse, Abstract!Reply, Reply
<1>9. QED
  BY <1>5, <1>7, <1>8 DEF InsertTagToBucket

LEMMA NextStep ==
  ASSUME PackedAssumption, CodecAssumption, IInv, [Next]_vars
  PROVE  IInv' /\ [Abstract!Next]_<<Copies, reply>>
<1>1. CASE UNCHANGED vars
  <2>1. bits_per_tag' = bits_per_tag /\ buckets_' = buckets_ /\ reply' = reply
    BY <1>1 DEF vars
  <2>2. QED
    BY <2>1, UnchangedBuckets
<1>2. CASE Next
  <2>1. PICK i \in Indices : \E tag \in Tags[bits_per_tag][i] :
           /\ \/ DeleteTagFromBucket(i, tag)
              \/ \E kickout \in BOOLEAN : InsertTagToBucket(i, tag, kickout)
           /\ bits_per_tag' = bits_per_tag
    BY <1>2 DEF Next
  <2>2. PICK tag \in Tags[bits_per_tag][i] :
           /\ \/ DeleteTagFromBucket(i, tag)
              \/ \E kickout \in BOOLEAN : InsertTagToBucket(i, tag, kickout)
           /\ bits_per_tag' = bits_per_tag
    BY <2>1
  <2>3. tag \in AllTags
    BY TagsAreTags DEF IInv
  <2>4. CASE DeleteTagFromBucket(i, tag)
    <3>1. /\ IInv' /\ reply'.i = i /\ reply'.tag = tag
          /\ (Abstract!Delete(i, tag) \/ Abstract!Miss(i, tag))
      BY <2>2, <2>4, DeleteIsDelete
    <3>2. QED
      BY <2>3, <3>1 DEF Abstract!Next
  <2>5. ASSUME NEW kickout \in BOOLEAN, InsertTagToBucket(i, tag, kickout)
        PROVE  IInv' /\ Abstract!Next
    <3>1. /\ IInv' /\ reply'.i = i /\ reply'.tag = tag
          /\ \/ Abstract!Insert(i, tag) \/ Abstract!Refuse(i, tag)
             \/ \E old \in AllTags : Abstract!Displace(i, tag, old)
      BY <2>2, <2>5, InsertIsInsert
    <3>2. QED
      BY <2>3, <3>1 DEF Abstract!Next
  <2>6. QED
    BY <2>2, <2>4, <2>5
<1>3. QED
  BY <1>1, <1>2

LEMMA InitIsInit ==
  ASSUME PackedAssumption, CodecAssumption, Init
  PROVE  Abstract!Init
<1>1. IInv /\ TagsOfTable
  BY InitInvariant, IInvTags
<1>2. ASSUME NEW i \in Indices, NEW x \in AllTags PROVE Times(Read[i], x) = 0
  <2>1. bits_per_tag \in TagWidths /\ i \in Nat /\ x # {} /\ buckets_ = {}
    <3>1. bits_per_tag \in TagWidths /\ {} \notin AllTags
      BY <1>1, TagsAreTags DEF IInv
    <3>2. i \in Nat /\ buckets_ = {}
      BY DEF Init, Indices
    <3>3. QED
      BY <3>1, <3>2
  <2>2. Read[i] = <<{}, {}, {}, {}>>
    BY <2>1, EmptyBuckets DEF Read
  <2>3. /\ Read[i][1] = {} /\ Read[i][2] = {} /\ Read[i][3] = {} /\ Read[i][4] = {}
    BY <2>2
  <2>4. Same({}, x) = 0
    BY <2>1 DEF Same
  <2>5. QED
    BY <2>3, <2>4 DEF Times
<1>3. Copies = {}
  <2>1. Copies = TriplesOf(Read)
    BY <1>1, CopiesAre DEF Triples
  <2>2. QED
    BY <1>2, <2>1 DEF TriplesOf
<1>4. QED
  BY <1>3 DEF Init, Abstract!Init, Reply, Abstract!Reply

LEMMA InvariantTypes ==
  ASSUME PackedAssumption, IInv
  PROVE  TypeOK
<1>1. bits_per_tag \in Widths /\ buckets_ \subseteq 0 .. kBitsPerBucket * num_buckets_ - 1
  BY DEF IInv, MemoryOK
<1>2. ASSUME NEW i \in Indices
      PROVE  /\ ToSet(ReadBucket(i)) \subseteq Tags[bits_per_tag][i] \cup {{}}
             /\ \A j \in 1 .. 3 : Low(ReadBucket(i)[j]) <= Low(ReadBucket(i)[j + 1])
  BY DEF IInv, ToSet, Sorted, Held
<1>3. QED
  BY <1>1, <1>2 DEF TypeOK

-----------------------------------------------------------------------------
(* Theorems. *)

\* The array never grows beyond its buckets, no bucket reads as a tag it was
\* never given, and its slots are in the order of their low bits: reading,
\* sorting, numbering and writing a bucket (packedtable.h:80-242).
THEOREM PackedTypeCorrect ==
  PackedAssumption /\ CodecAssumption /\ Spec => []TypeOK
<1> SUFFICES ASSUME PackedAssumption, CodecAssumption PROVE Spec => []TypeOK
  OBVIOUS
<1>1. Init => IInv
  BY InitInvariant
<1>2. IInv /\ [Next]_vars => IInv'
  BY NextStep
<1>3. IInv => TypeOK
  BY InvariantTypes
<1>4. QED
  BY <1>1, <1>2, <1>3, PTL DEF Spec

\* Semi-sorting is invisible: inserts, refusals, displacements and deletions do
\* to the tags of a bucket what they would do to a bag of four, and nothing to
\* the tags of another, also when two buckets share a byte (packedtable.h:244-311).
THEOREM BucketsAreBagsCorrect ==
  PackedAssumption /\ CodecAssumption /\ Spec => BucketsAreBags
<1> SUFFICES ASSUME PackedAssumption, CodecAssumption PROVE Spec => BucketsAreBags
  OBVIOUS
<1>1. Init => IInv /\ Abstract!Init
  BY InitInvariant, InitIsInit
<1>2. IInv /\ [Next]_vars => IInv' /\ [Abstract!Next]_<<Copies, reply>>
  BY NextStep
<1>3. QED
  BY <1>1, <1>2, PTL DEF Spec, BucketsAreBags, Abstract!Spec

\* The lookup in two buckets, which has the layout of 13-bit tags built in,
\* finds what lookups in the one and the other find (packedtable.h:313-351).
THEOREM PairLookupCorrect ==
  ASSUME PairLookups \subseteq {13}
  PROVE  PackedAssumption /\ CodecAssumption /\ Spec => []PairLookupRight
<1> SUFFICES ASSUME PackedAssumption, CodecAssumption PROVE Spec => []PairLookupRight
  OBVIOUS
<1>1. Init => IInv
  BY InitInvariant
<1>2. IInv /\ [Next]_vars => IInv'
  BY NextStep
<1>3. IInv => PairLookupRight
  <2>1. SUFFICES ASSUME IInv, bits_per_tag = 13,
                        NEW i1 \in Indices, NEW i2 \in Indices, NEW tag
                 PROVE  FindTagInBuckets(i1, i2, tag) <=>
                           FindTagInBucket(i1, tag) \/ FindTagInBucket(i2, tag)
    BY DEF PairLookupRight
  <2>2. kBitsPerBucket = 48 /\ kDirBitsPerTag = 9
    BY <2>1 DEF kBitsPerBucket, kDirBitsPerTag
  <2>3. ASSUME NEW i \in Indices
        PROVE  Decoded(Load(Byte(i)), 9) = ReadBucket(i)
    <3>1. Nibble(i) = 0
      BY <2>2 DEF Nibble
    <3>2. ReadBucket(i) = Decoded(Shr(Load(Byte(i)), 0), 9)
      BY <2>2, <3>1 DEF ReadBucket
    <3>3. Load(Byte(i)) \subseteq Nat
      <4>1. Byte(i) \in Nat
        BY <2>1, BucketStarts DEF Indices, TagWidths
      <4>2. buckets_ \subseteq Nat
        BY <2>1, MemoryNat DEF IInv, PackedAssumption
      <4>3. QED
        BY <4>1, <4>2 DEF Load, Shr
    <3>4. Shr(Load(Byte(i)), 0) = Load(Byte(i))
      BY <3>3 DEF Shr
    <3>5. QED
      BY <3>2, <3>4
  <2>4. QED
    BY <2>3 DEF FindTagInBuckets, FindTagInBucket
<1>4. QED
  BY <1>1, <1>2, <1>3, PTL DEF Spec
=============================================================================
