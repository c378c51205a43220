---------------------------- MODULE CuckooTable ----------------------------
(***************************************************************************)
(* The data structure of libcuckoo's cuckoohash_map and its algorithms as  *)
(* functions of a table: bucket indices, search for a free slot, one step  *)
(* of the breadth-first search for a cuckoo path and of its way back, and  *)
(* moving a table to twice as many buckets.                                *)
(*                                                                         *)
(* A table is a record [hp, slots]: the hashpower and, for every bucket,   *)
(* its slots; a slot is Empty or an element [k, v].                        *)
(***************************************************************************)
EXTENDS Integers, Sequences, FiniteSets, SequencesExt

CONSTANTS
  Keys,              \* keys
  Hash,              \* their hash values, below 2^16 (the rest of the 64 bits is 0)
  SLOT_PER_BUCKET,   \* slots per bucket
  MAX_BFS_PATH_LEN,  \* longest cuckoo path
  MAX_CUCKOO_COUNT,  \* size of the circular queue of the search
  DefaultMinLoad,    \* LIBCUCKOO_DEFAULT_MINIMUM_LOAD_FACTOR as <<num, den>>
  NoMaximum          \* LIBCUCKOO_NO_MAXIMUM_HASHPOWER, above every hashpower

ASSUME TableAssumption ==
  /\ "" \notin Keys
  /\ Hash \in [Keys -> Nat] /\ \A k \in Keys : Hash[k] < 2^16
  /\ SLOT_PER_BUCKET \in Nat \ {0} /\ MAX_BFS_PATH_LEN \in Nat \ {0}
  /\ MAX_CUCKOO_COUNT \in Nat /\ MAX_CUCKOO_COUNT > 3
  /\ DefaultMinLoad \in Nat \X (Nat \ {0})

Empty == [k |-> "", v |-> ""]
Elem(k, v) == [k |-> k, v |-> v]

hashsize[p \in Nat] == IF p = 0 THEN 1 ELSE 2 * hashsize[p - 1]
BucketsOf(p) == 0..hashsize[p] - 1
SlotsOf(buckets) == buckets \X (0..SLOT_PER_BUCKET - 1)
EmptyTable(p) ==
  [hp |-> p, slots |-> [b \in BucketsOf(p) |-> [s \in 0..SLOT_PER_BUCKET - 1 |-> Empty]]]

(* The bits that are set in one of two words and not in the other.         *)
Xor[a \in Nat] ==
  [b \in Nat |-> IF a = 0 THEN b ELSE 2 * Xor[a \div 2][b \div 2] + ((a + b) % 2)]

(* The hash folded into 8 bits; the two possible buckets of a hash value.  *)
(* 149 is the low byte of 0xc6a4a7935bd1e995, the only one that counts     *)
(* below 2^8 buckets.                                                      *)
partial_key(h) == Xor[h % 256][h \div 256]
index_hash(p, h) == h % hashsize[p]
alt_index(p, partial, i) == Xor[i][((partial + 1) * 149) % hashsize[p]]

I1(p, k) == index_hash(p, Hash[k])
I2(p, k) == alt_index(p, partial_key(Hash[k]), I1(p, k))
Homes(p, k) == {I1(p, k), I2(p, k)}

Positions(T) == UNION {{b} \X DOMAIN T.slots[b] : b \in DOMAIN T.slots}
At(T, p) == T.slots[p[1]][p[2]]
Occupied(T, p) == At(T, p) # Empty
Put(T, p, e) == [T EXCEPT !.slots[p[1]][p[2]] = e]
Elements(T) == {p \in Positions(T) : Occupied(T, p)}
Stored(T) == {At(T, p) : p \in Elements(T)}

(* The shape of a table with values in V.                                  *)
Items(V) == {Elem(k, v) : k \in Keys, v \in V}
IsTable(T, V) ==
  /\ T.hp \in Nat
  /\ T = [hp |-> T.hp, slots |-> T.slots]
  /\ T.slots \in [BucketsOf(T.hp) -> [0..SLOT_PER_BUCKET - 1 -> {Empty} \union Items(V)]]

(* Every key is stored at most once, in one of its two buckets.            *)
AtHome(T) ==
  \A p \in Elements(T) :
    /\ p[1] \in Homes(T.hp, At(T, p).k)
    /\ \A q \in Elements(T) : At(T, q).k = At(T, p).k => q = p

(* try_read_from_bucket and cuckoo_find: the position of a key, as a set   *)
(* that is empty when neither bucket holds it.                             *)
InBucket(T, b, k) == {p \in SlotsOf({b}) : At(T, p).k = k}
Lowest(P) == {p \in P : \A q \in P : p[2] <= q[2]}
Highest(P) == {p \in P : \A q \in P : q[2] <= p[2]}

cuckoo_find(T, k) ==
  LET in1 == Lowest(InBucket(T, I1(T.hp, k), k))
  IN IF in1 # {} THEN in1 ELSE Lowest(InBucket(T, I2(T.hp, k), k))

(* try_find_insert_bucket remembers the last free slot of a bucket; the    *)
(* first bucket is preferred.                                              *)
FreeSlot(T, k) ==
  LET free(b) == {p \in SlotsOf({b}) : ~Occupied(T, p)}
  IN IF free(I1(T.hp, k)) # {} THEN Highest(free(I1(T.hp, k)))
                               ELSE Highest(free(I2(T.hp, k)))

-----------------------------------------------------------------------------
(* slot_search. A b_slot is the bucket it leads to and its pathcode, here  *)
(* the sequence of its digits: 0 or 1 for the bucket the path starts on,   *)
(* then a slot per bucket passed. A search is the queue, the b_slot x that *)
(* was dequeued, how many of its slots have been looked at, and a status.  *)
depth(x) == Len(x.code) - 1
full(q) == Len(q) = MAX_CUCKOO_COUNT - 1

(* The while loop's head: dequeue, or give up.                             *)
Dequeue(q) ==
  IF full(q) \/ q = <<>>
    THEN [status |-> "failed", q |-> <<>>, x |-> [bucket |-> 0, code |-> <<>>], i |-> 0]
    ELSE [status |-> "look", q |-> Tail(q), x |-> Head(q), i |-> 0]

StartSearch(i1, i2) ==
  Dequeue(<<[bucket |-> i1, code |-> <<0>>], [bucket |-> i2, code |-> <<1>>]>>)

(* The item to follow is the one that would be kicked out, but partials    *)
(* are not stored in the buckets any more: slot_search takes 0 for every   *)
(* item's partial.                                                         *)
SearchPartial(e) == 0

(* One turn of the inner loop: look at one slot, under the bucket's lock.  *)
LookAt(T, s) ==
  LET slot == (Last(s.x.code) + s.i) % SLOT_PER_BUCKET
      code == Append(s.x.code, slot)
      e == T.slots[s.x.bucket][slot]
      q == IF depth(s.x) < MAX_BFS_PATH_LEN - 1
             THEN Append(s.q, [bucket |-> alt_index(T.hp, SearchPartial(e), s.x.bucket),
                               code |-> code])
             ELSE s.q
  IN IF e = Empty
       THEN [status |-> "found", q |-> <<>>, x |-> [s.x EXCEPT !.code = code], i |-> 0]
     ELSE IF s.i + 1 < SLOT_PER_BUCKET /\ ~full(q)
       THEN [s EXCEPT !.q = q, !.i = @ + 1]
     ELSE Dequeue(q)

-----------------------------------------------------------------------------
(* cuckoopath_search: the slots of the path are known; the buckets follow  *)
(* from the items found in them, one after the other. A path is a sequence *)
(* of records, hv being the hash of the item seen in the slot.             *)
Path(s) == [n \in 1..depth(s.x) |-> [bucket |-> 0, slot |-> s.x.code[n + 1], hv |-> 0]]
StartBucket(s, i1, i2) == IF s.x.code[1] = 0 THEN i1 ELSE i2

PathBucket(p, path, n, start) ==
  IF n = 1 THEN start
           ELSE alt_index(p, partial_key(path[n - 1].hv), path[n - 1].bucket)
SeenAt(T, path, n, b) ==
  LET e == T.slots[b][path[n].slot]
  IN [path EXCEPT ![n].bucket = b, ![n].hv = IF e = Empty THEN 0 ELSE Hash[e.k]]

(* cuckoopath_move: the last hop of the path that is left, if the items    *)
(* are still where the path saw them.                                      *)
Hop(path, n) == <<path[n].bucket, path[n].slot>>

\* Mutant: the item of the hop may be another one by now.
HopValid_AnyItem(T, path, n) ==
  /\ ~Occupied(T, Hop(path, n))
  /\ Occupied(T, Hop(path, n - 1))

HopValid(T, path, n) ==
  /\ ~Occupied(T, Hop(path, n))
  /\ Occupied(T, Hop(path, n - 1))
  /\ Hash[At(T, Hop(path, n - 1)).k] = path[n - 1].hv

MoveHop(T, path, n) ==
  Put(Put(T, Hop(path, n), At(T, Hop(path, n - 1))), Hop(path, n - 1), Empty)

-----------------------------------------------------------------------------
(* move_buckets: with one bit more an element stays or goes up by the old  *)
(* number of buckets, to the next slot of the new bucket.                  *)
GoesUp(T, p) ==
  LET k == At(T, p).k
      up == p[1] + hashsize[T.hp]
  IN \/ p[1] = I1(T.hp, k) /\ I1(T.hp + 1, k) = up
     \/ p[1] = I2(T.hp, k) /\ I2(T.hp + 1, k) = up

GoingUpBefore(T, p) == {q \in Elements(T) : q[1] = p[1] /\ q[2] < p[2] /\ GoesUp(T, q)}
Destination(T, p) ==
  IF GoesUp(T, p) THEN <<p[1] + hashsize[T.hp], Cardinality(GoingUpBefore(T, p))>> ELSE p
MovedTo(T, p) == {q \in Elements(T) : Destination(T, q) = p}
DoubleTable(T) ==
  [hp |-> T.hp + 1,
   slots |-> [b \in BucketsOf(T.hp + 1) |-> [s \in 0..SLOT_PER_BUCKET - 1 |->
                IF MovedTo(T, <<b, s>>) = {} THEN Empty
                ELSE At(T, CHOOSE q \in MovedTo(T, <<b, s>>) : TRUE)]]]

(* The smallest hashpower whose table has room for n elements.             *)
reserve_calc(n) == CHOOSE p \in 0..n :
  /\ hashsize[p] * SLOT_PER_BUCKET >= n
  /\ \A q \in 0..p - 1 : hashsize[q] * SLOT_PER_BUCKET < n

BelowLoad(size, p, load) == size * load[2] < load[1] * hashsize[p] * SLOT_PER_BUCKET

=============================================================================
