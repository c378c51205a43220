----------------------------- MODULE FilterSizes -----------------------------
(***************************************************************************)
(* How large the adaptive filter makes its arrays (cuckoofilter.h:113-123, *)
(* bitsutil.h:23-32, singletable.h:18-25, packedtable.h:16-33,             *)
(* cuckoohash_map.hh:1869-1876).  The tag table and the hash map size      *)
(* themselves independently of each other, each by its own rounding, yet   *)
(* the filter uses the bucket numbers of one as those of the other.        *)
(***************************************************************************)
EXTENDS Integers, FiniteSetsExt

CONSTANTS
    MaxKeys,                     \* bound: the largest capacity asked for
    WordSize,                    \* the bits of a size_t
    TagWidths, PackedWidths      \* bits_per_tag of the two tag tables

(* Capacities whose arrays a word can number; all other numbers are smaller. *)
ASSUME SizesAssumption ==
    /\ MaxKeys \in Nat /\ WordSize \in 3 .. 64 /\ MaxKeys < 2^(WordSize - 3)
    /\ TagWidths \cup PackedWidths \subseteq 2 .. 17

VARIABLE max_num_keys    \* the argument of the constructor

assoc == 4

\* x - 1 with all bits below its highest one set, plus one. The word is the set
\* of the positions of its one bits.
Places == 0 .. WordSize - 1
Ones(n) == {k \in Places : (n \div 2^k) % 2 = 1}
Smear(word, n) == word \cup {k - n : k \in {b \in word : b >= n}}
upperpower2(x) ==
    LET w4 == Smear(Smear(Smear(Ones(x - 1), 1), 2), 4)
        w32 == Smear(Smear(Smear(w4, 8), 16), 32)
    IN  MapThenSumSet(LAMBDA k : 2^k, w32) + 1

AtLeastOne(n) == IF n < 1 THEN 1 ELSE n

\* Mutant: no second look at the load.
num_buckets_NoLoad == upperpower2(AtLeastOne(max_num_keys \div assoc))

\* The buckets of the tag table: twice as many if they would be filled by more
\* than 96 percent.
num_buckets ==
    LET fit == upperpower2(AtLeastOne(max_num_keys \div assoc))
    IN  IF 100 * max_num_keys > 96 * assoc * fit THEN 2 * fit ELSE fit

\* The buckets of the hash map, which is asked for room for twice the keys: the
\* first power of two that suffices.
reserve_calc(n) ==
    LET buckets == (n + assoc - 1) \div assoc
    IN  2^(CHOOSE p \in Places : 2^p >= buckets /\ \A q \in 0 .. p - 1 : 2^q < buckets)

\* Mutant: the hash map is asked for room for the keys and no more.
hashmap_buckets_AsAsked == reserve_calc(max_num_keys)

hashmap_buckets == reserve_calc(2 * max_num_keys)

\* Bytes of a bucket of the tag tables, and of their arrays.
kBytesPerBucket(w) == (w * assoc + 7) \div 8
kPaddingBuckets(w) ==
    (((kBytesPerBucket(w) + 7) \div 8) * 8 - 1) \div kBytesPerBucket(w)

\* Mutant: no room behind the last bucket.
SingleBytes_NoPadding(w) == kBytesPerBucket(w) * num_buckets

SingleBytes(w) == kBytesPerBucket(w) * (num_buckets + kPaddingBuckets(w))

kBitsPerBucket(w) == (3 + w - 4) * 4
PackedBytes(w) == ((kBitsPerBucket(w) + 7) \div 8) * num_buckets + 7

SizesInit == max_num_keys = 0
SizesNext == max_num_keys < MaxKeys /\ max_num_keys' = max_num_keys + 1
SizesSpec == SizesInit /\ [][SizesNext]_max_num_keys

-----------------------------------------------------------------------------
(* Every bucket number of the tag table is one of the hash map, whose buckets *)
(* the filter reads and writes at those numbers without a check               *)
(* (cuckoofilter.h:113, cuckoohash_map.hh:676-706).                           *)
StorageCovers == num_buckets <= hashmap_buckets

\* NumBuckets() - 1 is a mask that reaches every bucket (cuckoofilter.h:79, 82),
\* and as many keys as were asked for fill the table to 96 percent at most.
MaskAndRoom ==
    /\ \E k \in Places : num_buckets = 2^k
    /\ 100 * max_num_keys <= 96 * assoc * num_buckets

\* The 64-bit loads of the lookups stay inside the arrays, also at the last
\* bucket (singletable.h:22-25, 75; packedtable.h:29-31, 327).
LoadsInside ==
    /\ \A w \in TagWidths :
          kBytesPerBucket(w) * (num_buckets - 1) + 8 <= SingleBytes(w)
    /\ \A w \in PackedWidths :
          (kBitsPerBucket(w) * (num_buckets - 1)) \div 8 + 8 <= PackedBytes(w)

=============================================================================
