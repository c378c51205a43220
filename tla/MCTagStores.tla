------------------------------ MODULE MCTagStores ------------------------------
(* Small instances of what a filter stores its tags in: the packed table, the  *)
(* table of single tags, the sizes of their arrays and the block Bloom filter. *)
(* They do not interact: each behaviour plays one scene, the variables of the  *)
(* others keep their initial values. What is not qualified by Packed belongs   *)
(* to the other three modules.                                                 *)
EXTENDS SingleTable, FilterSizes, SimdBlock, PermEncoding

CONSTANTS
    Scenes,
    SemiSortedWidths, PairLookups     \* of the packed table

VARIABLES
    scene,
    semi_sorted_width, buckets_, reply

semi_sorted == <<semi_sorted_width, buckets_, reply>>

\* Tags with equal and with different low bits, and with every direct bit set:
\* bucket 1, which shares a byte with bucket 0 at two of the widths, has two.
Highest(w) == {0, w - 1}
AllOnes(w) == 0 .. w - 1
ClientTags == [w \in SemiSortedWidths |-> [i \in {0, 1} |->
                  IF i = 1 THEN {{0}, Highest(w)} ELSE {AllOnes(w)}]]

\* Hashes that give every slot another tag, equal tags in two slots, tags with
\* only the lowest and only the highest bit, and a tag that would be zero.
SampleHashes == {
    {16, 17, 28, 43, 52},
    {16, 28, 29, 40, 63}}

\* Hashes that agree in the bucket, in some of the lanes, in all, and in none.
BlockKeys == 1 .. 7
BlockHashes == [k \in BlockKeys |-> 37 * k * k + 5 * k]
Products == [lane \in 0 .. 7 |-> [h \in 0 .. 5000 |-> ((2 * lane + 3) * h + h \div 7) % 4]]

Packed == INSTANCE PackedTable WITH
    Widths <- SemiSortedWidths, num_buckets_ <- 2, Tags <- ClientTags,
    bits_per_tag <- semi_sorted_width

ASSUME PackedInstance == Packed!PackedAssumption

\* The numbers of the sorted tuples fit in 12 bits and decode to what encodes to
\* them (permencoding.h:67-84).
ASSUME EncodingInverts == Packed!CodecAssumption

-----------------------------------------------------------------------------
SceneInit ==
    /\ scene \in Scenes
    /\ Packed!Init /\ (scene # "packed" => semi_sorted_width = CHOOSE w \in SemiSortedWidths : TRUE)
    /\ Init /\ (scene # "single" => bits_per_tag = CHOOSE w \in Widths : TRUE)
    /\ SizesInit
    /\ BlockInit /\ (scene # "block" => log_heap_space = CHOOSE n \in LogHeapSpaces : TRUE)

SceneNext ==
    /\ UNCHANGED scene
    /\ \/ scene = "packed" /\ Packed!Next /\ UNCHANGED <<vars, max_num_keys, block>>
       \/ scene = "single" /\ Next /\ UNCHANGED <<semi_sorted, max_num_keys, block>>
       \/ scene = "sizes" /\ SizesNext /\ UNCHANGED <<semi_sorted, vars, block>>
       \/ scene = "block" /\ BlockNext /\ UNCHANGED <<semi_sorted, vars, max_num_keys>>

SceneSpec == SceneInit /\ [][SceneNext]_<<scene, semi_sorted, vars, max_num_keys, block>>

-----------------------------------------------------------------------------
\* The lookup in two buckets of semi-sorted tags finds a tag that is in one of
\* them and no other: PairLookupRight of PackedTable (packedtable.h:313-351).
PairLookupRight == Packed!PairLookupRight

\* Sorting and packing loses no tag, invents none and touches no other bucket:
\* BucketsAreBags of PackedTable (packedtable.h:80-311).
BucketsAreBags == Packed!BucketsAreBags
=============================================================================
