----------------------------- MODULE PackedTable -----------------------------
(***************************************************************************)
(* cuckoofilter/src/packedtable.h: four tags per bucket, sorted by their   *)
(* low four bits; the four nibbles are replaced by the 12-bit number of    *)
(* their sorted tuple (PermEncoding), the other bits follow as they are.   *)
(* A word, a tag and the table's memory are the sets of the positions of   *)
(* their one bits.  Every width the code has a case for is one initial     *)
(* state, so that one run covers them all.                                 *)
(***************************************************************************)
EXTENDS Integers, Sequences, FiniteSets, SequencesExt

CONSTANTS
    Widths,        \* the template argument bits_per_tag
    num_buckets_,
    Tags,          \* Tags[w][i]: the tags of width w a client puts in bucket i
    PairLookups,   \* the widths for which it calls FindTagInBuckets
    encode(_),     \* of PermEncoding: the number of a sorted tuple of four nibbles
    decode         \* and the tuple of a number

Indices == 0 .. num_buckets_ - 1

PackedAssumption ==
    /\ num_buckets_ \in Nat
    /\ Widths \subseteq {5, 6, 7, 8, 9, 13, 17}
    /\ PairLookups \subseteq Widths
    /\ \A w \in Widths, i \in Indices :
          \A t \in Tags[w][i] : t # {} /\ t \subseteq 0 .. w - 1

VARIABLES
    bits_per_tag,
    buckets_,      \* the one bits of the array
    reply          \* the last call, its result and its out-parameter oldtag

vars == <<bits_per_tag, buckets_, reply>>

-----------------------------------------------------------------------------
(* Words.                                                                   *)

Bits(n) == {k \in 0 .. 11 : (n \div 2^k) % 2 = 1}
Shl(word, n) == {k + n : k \in word}
Shr(word, n) == {k - n : k \in {b \in word : b >= n}}
Weight(word, k) == IF k \in word THEN 2^k ELSE 0
Low(word) == Weight(word, 0) + Weight(word, 1) + Weight(word, 2) + Weight(word, 3)
Low12 == [word \in SUBSET (0 .. 63) |->
            Low(word) + 16 * Low(Shr(word, 4)) + 256 * Low(Shr(word, 8))]

Codewords == 0 .. 4095

\* encode has a 12-bit number for every sorted tuple, decode gives the tuple back,
\* and a bucket of zeros is four empty tags.
CodecAssumption ==
    /\ \A a, b, c, d \in SUBSET (0 .. 3) :
          LET n == encode(<<Low(a), Low(b), Low(c), Low(d)>>)
          IN  Low(a) <= Low(b) /\ Low(b) <= Low(c) /\ Low(c) <= Low(d) =>
                 n \in Codewords /\ decode[n] = <<a, b, c, d>>
    /\ encode(<<0, 0, 0, 0>>) = 0

kDirBitsPerTag == bits_per_tag - 4
kBitsPerBucket == (3 + kDirBitsPerTag) * 4
kDirBitsMask == 4 .. bits_per_tag - 1

-----------------------------------------------------------------------------
(* Buckets.                                                                 *)

\* Where bucket i starts: a byte, and half a byte more in an odd bucket of the
\* widths whose buckets are not whole bytes.
Byte(i) == (kBitsPerBucket * i) \div 8

Nibble(i) == IF kBitsPerBucket % 8 = 0 THEN 0 ELSE 4 * (i % 2)

Load(p) == Shr({b \in buckets_ : b < 8 * p + 64}, 8 * p)

\* The tags in bucketbits, whose codeword starts at bit 0, if a tag has dir
\* direct bits: those of tag j are at bit 12 + j * dir.
Decoded(bucketbits, dir) ==
    LET lowbits == decode[Low12[bucketbits]]
        tag(j) == (Shr(bucketbits, 8 + (j - 1) * dir) \cap kDirBitsMask) \cup lowbits[j]
    IN  <<tag(1), tag(2), tag(3), tag(4)>>

ReadBucket(i) == Decoded(Shr(Load(Byte(i)), Nibble(i)), kDirBitsPerTag)

SortPair(tags, a, b) ==
    IF Low(tags[a]) > Low(tags[b]) THEN [tags EXCEPT ![a] = tags[b], ![b] = tags[a]]
    ELSE tags

SortTags(tags) ==
    LET halves == SortPair(SortPair(tags, 1, 3), 2, 4)
        ends == SortPair(SortPair(halves, 1, 2), 3, 4)
    IN  SortPair(ends, 2, 3)

\* Mutant: the bits of the bucket are not cleared.
WriteBucket_NotCleared(i, unsorted) ==
    LET tags == SortTags(unsorted)
        first == 8 * Byte(i) + Nibble(i)
        codeword == Bits(encode(<<Low(tags[1]), Low(tags[2]), Low(tags[3]), Low(tags[4])>>))
        highbits(j) == Shl(tags[j] \ 0 .. 3, 8 + (j - 1) * kDirBitsPerTag)
    IN  buckets_ \cup Shl(codeword \cup UNION {highbits(j) : j \in 1 .. 4}, first)

\* The memory after WriteBucket: the bits of bucket i are cleared, then the
\* codeword and the direct bits of each tag are put in.
WriteBucket(i, unsorted) ==
    LET tags == SortTags(unsorted)
        first == 8 * Byte(i) + Nibble(i)
        codeword == Bits(encode(<<Low(tags[1]), Low(tags[2]), Low(tags[3]), Low(tags[4])>>))
        highbits(j) == Shl(tags[j] \ 0 .. 3, 8 + (j - 1) * kDirBitsPerTag)
    IN  (buckets_ \ (first .. first + kBitsPerBucket - 1))
           \cup Shl(codeword \cup UNION {highbits(j) : j \in 1 .. 4}, first)

FindTagInBucket(i, tag) == \E j \in 1 .. 4 : ReadBucket(i)[j] = tag

\* Mutant: the second bucket is not looked at.
FindTagInBuckets_FirstOnly(i1, i2, tag) ==
    \E j \in 1 .. 4 : Decoded(Load(Byte(i1)), 9)[j] = tag

\* This lookup never takes the half byte into account and takes every tag to
\* have nine direct bits.
FindTagInBuckets(i1, i2, tag) ==
    \E i \in {i1, i2}, j \in 1 .. 4 : Decoded(Load(Byte(i)), 9)[j] = tag

-----------------------------------------------------------------------------
Reply(i, tag, ok, oldtag) == [i |-> i, tag |-> tag, ok |-> ok, oldtag |-> oldtag]

Init == /\ bits_per_tag \in Widths
        /\ buckets_ = {}
        /\ reply = Reply({}, {}, TRUE, {})

\* The first slot of bucket i that holds tag.
Slot(i, tag) == SelectInSeq(ReadBucket(i), LAMBDA t : t = tag)

Replace(i, j, tag) == buckets_' = WriteBucket(i, [ReadBucket(i) EXCEPT ![j] = tag])

DeleteTagFromBucket(i, tag) ==
    \/ /\ Slot(i, tag) # 0
       /\ Replace(i, Slot(i, tag), {})
       /\ reply' = Reply(i, tag, TRUE, {})
    \/ /\ Slot(i, tag) = 0
       /\ reply' = Reply(i, tag, FALSE, {})
       /\ UNCHANGED buckets_

InsertTagToBucket(i, tag, kickout) ==
    \/ /\ Slot(i, {}) # 0
       /\ Replace(i, Slot(i, {}), tag)
       /\ reply' = Reply(i, tag, TRUE, {})
    \/ /\ Slot(i, {}) = 0 /\ kickout
       /\ \E r \in 1 .. 4 : /\ Replace(i, r, tag)
                            /\ reply' = Reply(i, tag, FALSE, ReadBucket(i)[r])
    \/ /\ Slot(i, {}) = 0 /\ ~kickout
       /\ reply' = Reply(i, tag, FALSE, {})
       /\ UNCHANGED buckets_

Next == /\ \E i \in Indices : \E tag \in Tags[bits_per_tag][i] :
              \/ DeleteTagFromBucket(i, tag)
              \/ \E kickout \in BOOLEAN : InsertTagToBucket(i, tag, kickout)
        /\ UNCHANGED bits_per_tag

Spec == Init /\ [][Next]_vars

-----------------------------------------------------------------------------
(* Properties.                                                              *)

AllTags == UNION {Tags[w][i] : w \in Widths, i \in Indices}

\* The k-th copy of a tag in bucket i.
Nth(tags, j) == Cardinality({k \in 1 .. j : tags[k] = tags[j]})
Copies == UNION {{<<b[1], b[2][j], Nth(b[2], j)>> : j \in {k \in 1 .. 4 : b[2][k] # {}}} :
                    b \in {<<i, ReadBucket(i)>> : i \in Indices}}

\* The array is as long as its buckets, no bucket holds a tag it was never
\* given, and the slots of a bucket are in the order of their low bits.
TypeOK ==
    /\ bits_per_tag \in Widths
    /\ buckets_ \subseteq 0 .. kBitsPerBucket * num_buckets_ - 1
    /\ \A i \in Indices :
          LET tags == ReadBucket(i)
          IN  /\ ToSet(tags) \subseteq Tags[bits_per_tag][i] \cup {{}}
              /\ \A j \in 1 .. 3 : Low(tags[j]) <= Low(tags[j + 1])

\* Sorting and packing the nibbles loses no tag, invents none and touches no
\* other bucket, also when two buckets share a byte: the table is a bag of tags
\* per bucket that answers and displaces as such a bag does.
Abstract == INSTANCE TagBuckets WITH Tags <- AllTags, Room <- 4, Nothing <- {},
                                     copies <- Copies
BucketsAreBags == Abstract!Spec

\* The lookup in two buckets finds a tag that is in one of them and no other
\* (packedtable.h:313-351), for the widths a client uses it with.
PairLookupRight ==
    bits_per_tag \in PairLookups =>
        \A i1, i2 \in Indices : \A tag \in Tags[bits_per_tag][i1] \cup Tags[bits_per_tag][i2] :
            FindTagInBuckets(i1, i2, tag)
               <=> FindTagInBucket(i1, tag) \/ FindTagInBucket(i2, tag)
=============================================================================
