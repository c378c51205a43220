----------------------------- MODULE SingleTable -----------------------------
(***************************************************************************)
(* The bits of cuckoofilter/src/singletable.h, bitsutil.h and              *)
(* GenerateIndexTagHash: four tags per bucket, written by a read and a     *)
(* write of the word that contains the tag and, with tags of 4 or 12 bits, *)
(* part of a neighbour; lookups by arithmetic on the whole bucket.  Threads*)
(* own a bucket while its counter is odd.  AdaptiveFilter takes a write and*)
(* the test of a tag for one step each; this module is why it may, with one *)
(* exception: every writer here owns its bucket, and an adaptation rewrites  *)
(* a slot of an i2 that it does not own (cuckoofilter.h:493-530).  That      *)
(* rewrite is reported where it shows, by Reviving.cfg, not at the words.    *)
(* A word is the set of the positions of its one bits.                     *)
(***************************************************************************)
EXTENDS Integers, FiniteSets, FiniteSetsExt

CONSTANTS
    Threads,
    Widths,        \* the template argument bits_per_tag, one per initial state
    num_buckets_,
    Hashes,        \* tag hashes: the bits 16..63 that GenerateIndexTagHash makes
    Idle

Indices == 0 .. num_buckets_ - 1
Slots == 0 .. 3
Free == {}

\* What a thread that owns bucket i is about to write to its slot j, and the word
\* it has read for that, if it has.
Plans == [i : Indices, j : Slots, tag : SUBSET (0 .. 15), read : BOOLEAN, word : SUBSET (0 .. 63)]

(* What the client and the templates guarantee of the constants.            *)
ASSUME TableAssumption ==
    /\ num_buckets_ \in Nat \ {0}
    /\ Widths \subseteq {2, 4, 8, 12, 16}
    /\ Hashes \subseteq SUBSET (16 .. 63)
    /\ Idle \notin Plans

VARIABLES
    bits_per_tag,
    bits_,         \* the one bits of each bucket
    counters_,     \* modulo 4: even or odd, and changed or not
    thread         \* what each thread is doing: the bucket it owns, the slot it
                   \* writes, the tag it puts there, the word it has read

vars == <<bits_per_tag, bits_, counters_, thread>>

-----------------------------------------------------------------------------
Shl(word, n) == {k + n : k \in word}
Shr(word, n) == {k - n : k \in {b \in word : b >= n}}
Value(word) == MapThenSumSet(LAMBDA k : 2^k, word)

\* The four tags of a key: twelve bits of its hash each, never zero; of other
\* widths than 12, the same with as many bits.
TagHash(width, hash) == [j \in Slots |->
    LET tag == Shr(hash, 16 + j * width) \cap 0 .. width - 1
    IN  IF tag = {} THEN {0} ELSE tag]

ReadTag(i, j) == Shr(bits_[i], j * bits_per_tag) \cap 0 .. bits_per_tag - 1

\* The word that WriteTag reads and writes back: the byte or the two bytes
\* in which slot j lies.
Word(j) ==
    LET first == 8 * ((j * bits_per_tag) \div 8)
    IN  first .. first + (IF bits_per_tag <= 8 THEN 7 ELSE 15)

\* Mutant: the tag is put over the old one.
NewWord_NotCleared(word, j, tag) == word \cup Shl(tag \cap 0 .. bits_per_tag - 1, j * bits_per_tag)

\* Mutant: the neighbour's part of the word is cleared too.
NewWord_WholeWord(word, j, tag) == Shl(tag \cap 0 .. bits_per_tag - 1, j * bits_per_tag)

\* What it writes back. With two bits per tag nothing is cleared first.
NewWord(word, j, tag) ==
    LET slot == j * bits_per_tag .. (j + 1) * bits_per_tag - 1
    IN  (IF bits_per_tag = 2 THEN word ELSE word \ slot)
           \cup Shl(tag \cap 0 .. bits_per_tag - 1, j * bits_per_tag)

-----------------------------------------------------------------------------
(* hasvalue4, 8, 12, 16: subtract one from every lane of x ^ (1..1 * n), and *)
(* look for a lane whose top bit that has set and x has not.                 *)

Lane(x, j) == Value(Shr(x, j * bits_per_tag) \cap 0 .. bits_per_tag - 1)

\* Whether the subtraction borrows from lane j on.
Borrows(x, j) == \E k \in 0 .. j : Lane(x, k) = 0 /\ \A l \in k + 1 .. j : Lane(x, l) <= 1

\* Mutant: a lane whose top bit x has counts as well.
haszero_NoMask(x) == \E j \in Slots :
    LET less == Lane(x, j) - 1 - (IF j > 0 /\ Borrows(x, j - 1) THEN 1 ELSE 0)
    IN  less % 2^bits_per_tag >= 2^(bits_per_tag - 1)

haszero(x) == \E j \in Slots :
    LET less == Lane(x, j) - 1 - (IF j > 0 /\ Borrows(x, j - 1) THEN 1 ELSE 0)
        top == 2^(bits_per_tag - 1)
    IN  less % 2^bits_per_tag >= top /\ Lane(x, j) < top

hasvalue(x, tag) ==
    LET ones == UNION {Shl(tag, j * bits_per_tag) : j \in Slots}
    IN  haszero((x \ ones) \cup (ones \ x))

FindTagInBucket(i, tag) ==
    IF bits_per_tag = 2 THEN \E j \in Slots : ReadTag(i, j) = tag
    ELSE hasvalue(bits_[i], tag)

FindTagInBuckets(i1, i2, tag) == FindTagInBucket(i1, tag) \/ FindTagInBucket(i2, tag)

NumTagsInBucket(i) == Cardinality({j \in Slots : ReadTag(i, j) # Free})

-----------------------------------------------------------------------------
Init == /\ bits_per_tag \in Widths
        /\ bits_ = [i \in Indices |-> {}]
        /\ counters_ = [i \in Indices |-> 0]
        /\ thread = [t \in Threads |-> Idle]

Plan(i, j, tag) == [i |-> i, j |-> j, tag |-> tag, read |-> FALSE, word |-> {}]

Bump(i) == counters_' = [counters_ EXCEPT ![i] = (@ + 1) % 4]

\* Mutant: a bucket is taken that another thread owns.
increment_odd_NoWait(i) == Bump(i)

\* Take the bucket's counter, spinning while it is odd.
increment_odd(i) == counters_[i] % 2 = 0 /\ Bump(i)

increment_even(i) == Bump(i)

First(i, tag) == CHOOSE j \in Slots :
    ReadTag(i, j) = tag /\ \A k \in Slots : ReadTag(i, k) = tag => j <= k

\* The slot InsertTagToBucket chooses: the first free one or, to kick out, any.
\* In a full bucket and without kickout it returns false and writes nothing.
InsertSlots(i, kickout) ==
    IF NumTagsInBucket(i) < 4 THEN {First(i, Free)} ELSE {j \in Slots : kickout}

InsertTagToBucket(t, i, hash, kickout) ==
    /\ increment_odd(i)
    /\ \E j \in InsertSlots(i, kickout) :
          thread' = [thread EXCEPT ![t] = Plan(i, j, TagHash(bits_per_tag, hash)[j])]

DeleteTagFromBucket(t, i, hash) ==
    /\ increment_odd(i)
    /\ \E j \in Slots :
          LET tag == TagHash(bits_per_tag, hash)[j]
          IN  /\ \E k \in Slots : ReadTag(i, k) = tag
              /\ thread' = [thread EXCEPT ![t] = Plan(i, First(i, tag), Free)]

\* WriteTag: the word is read ...
LoadWord(t) ==
    /\ thread[t] # Idle /\ ~thread[t].read
    /\ thread' = [thread EXCEPT ![t].read = TRUE,
                                ![t].word = bits_[thread[t].i] \cap Word(thread[t].j)]
    /\ UNCHANGED <<bits_, counters_>>

\* ... and written back, and the bucket is given back, which those who wait for
\* its counter see no earlier than the word.
StoreWord(t) ==
    /\ thread[t] # Idle /\ thread[t].read
    /\ LET w == thread[t]
       IN  /\ bits_' = [bits_ EXCEPT ![w.i] =
                          (@ \ Word(w.j)) \cup NewWord(w.word, w.j, w.tag)]
           /\ increment_even(w.i)
    /\ thread' = [thread EXCEPT ![t] = Idle]

Begin(t) == /\ thread[t] = Idle
            /\ \E i \in Indices, hash \in Hashes :
                  \/ \E kickout \in BOOLEAN : InsertTagToBucket(t, i, hash, kickout)
                  \/ DeleteTagFromBucket(t, i, hash)
            /\ UNCHANGED bits_

Next == /\ \E t \in Threads : Begin(t) \/ LoadWord(t) \/ StoreWord(t)
        /\ UNCHANGED bits_per_tag

Spec == Init /\ [][Next]_vars

-----------------------------------------------------------------------------
(* Properties.                                                              *)

ReadTags == [i \in Indices |-> [j \in Slots |-> ReadTag(i, j)]]

TagSets == {TagHash(w, h) : w \in Widths, h \in Hashes}

\* A tag that is set is one a key can have in that slot, and no more than one
\* thread is at work on a bucket: the one whose increment made its counter odd.
TypeOK ==
    /\ \A i \in Indices, j \in Slots :
          ReadTag(i, j) \in {Free} \cup {TagHash(bits_per_tag, h)[j] : h \in Hashes}
    /\ \A i \in Indices :
          LET owners == {t \in Threads : thread[t] # Idle /\ thread[t].i = i}
          IN  Cardinality(owners) = counters_[i] % 2

\* The carry-propagating test for a tag finds it exactly when a slot holds it,
\* for free slots as well (bitsutil.h, singletable.h:144-200).
FindsExactly ==
    \A i \in Indices : \A tag \in {Free} \cup {TagHash(bits_per_tag, h)[j] : h \in Hashes, j \in Slots} :
        FindTagInBucket(i, tag) <=> \E j \in Slots : ReadTag(i, j) = tag

Array == INSTANCE TagArray WITH tags <- ReadTags

\* Reading and writing back a word shared by two tags loses no other thread's
\* tag: the table is an array of slots that change one at a time, the first free
\* one or the first that holds the tag (singletable.h:105-142, 202-230).
WritesAreAtomic == Array!Spec

\* Once WriteTag returns, the slot holds the tag, be it a new one, one that
\* replaces another or the zero that frees the slot (singletable.h:104).
WritesLand ==
    [][\A t \in Threads : thread[t] # Idle /\ thread'[t] = Idle =>
          ReadTags'[thread[t].i][thread[t].j] = thread[t].tag]_vars
=============================================================================
