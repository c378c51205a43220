------------------------------- MODULE SimdBlock -------------------------------
(***************************************************************************)
(* cuckoofilter/src/simd-block.h: a Bloom filter of buckets of eight lanes *)
(* of 32 bits; a key sets one bit in every lane of one bucket.  The vector *)
(* of lanes is a set of <<lane, bit>>.                                     *)
(***************************************************************************)
EXTENDS Integers, FiniteSetsExt

CONSTANTS
    Keys,
    hasher_,          \* the hash of each key
    TopBits,          \* TopBits[lane][hash]: the five high bits of the lane's product
    LogHeapSpaces     \* the arguments of the constructor, one per initial state

Lanes == 0 .. 7
LOG_BUCKET_BYTE_SIZE == 5

ASSUME HasherAssumption ==
    /\ hasher_ \in [Keys -> Nat]
    /\ LogHeapSpaces \subseteq Nat
    /\ \A lane \in Lanes : \A h \in DOMAIN TopBits[lane] : TopBits[lane][h] \in 0 .. 31

VARIABLES
    log_heap_space,
    directory_,       \* the bits that are set in each bucket
    added             \* the keys added so far, for the properties

block == <<log_heap_space, directory_, added>>

log_num_buckets_ == Max({1, log_heap_space - LOG_BUCKET_BYTE_SIZE})
directory_mask_ == 2^log_num_buckets_ - 1
SizeInBytes == 2^(log_num_buckets_ + LOG_BUCKET_BYTE_SIZE)

bucket_idx(key) == hasher_[key] % (directory_mask_ + 1)

MakeMask(hash) == {<<lane, TopBits[lane][hash]>> : lane \in Lanes}

Mask(key) == MakeMask(hasher_[key] \div 2^log_num_buckets_)

BlockInit == /\ log_heap_space \in LogHeapSpaces
             /\ directory_ = [b \in 0 .. directory_mask_ |-> {}]
             /\ added = {}

Add(key) == /\ directory_' = [directory_ EXCEPT ![bucket_idx(key)] = @ \cup Mask(key)]
            /\ added' = added \cup {key}
            /\ UNCHANGED log_heap_space

\* Mutant: one bit of the mask suffices.
Find_Any(key) == Mask(key) \cap directory_[bucket_idx(key)] # {}

\* testc: no bit of the mask is missing from the bucket.
Find(key) == Mask(key) \ directory_[bucket_idx(key)] = {}

BlockNext == \E key \in Keys : Add(key)

BlockSpec == BlockInit /\ [][BlockNext]_block

-----------------------------------------------------------------------------
\* A key that was added is found, whatever was added to its bucket since, and a
\* key none of whose bits another key of its bucket has set is not
\* (simd-block.h:124-150).
FindsWhatWasAdded ==
    \A key \in Keys :
        /\ key \in added => Find(key)
        /\ Find(key) => \A bit \in Mask(key) :
              \E k \in added : bucket_idx(k) = bucket_idx(key) /\ bit \in Mask(k)

\* "Consumes at most (1 << log_heap_space) bytes on the heap" (simd-block.h:53).
HeapSpaceRespected == SizeInBytes <= 2^log_heap_space
=============================================================================
