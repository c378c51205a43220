--------------------------- MODULE AdaptiveFilter ---------------------------
(***************************************************************************)
(* The concurrent adaptive cuckoo filter of cuckoofilter/src/cuckoofilter.h*)
(* class CuckooFilter over a SingleTable of 12-bit tags                    *)
(* (cuckoofilter/src/singletable.h) and the slots of a libcuckoo bucket    *)
(* container that hold the keys and values themselves.                     *)
(*                                                                         *)
(* Every thread runs one call at a time.  A step is one access to shared   *)
(* memory that another thread can observe: taking or releasing a bucket    *)
(* counter, the mutex, a write of a tag, of a key-value slot, of a victim  *)
(* field, of the item count, and each read made without a lock.  What a    *)
(* thread only reads while it holds the bucket is read in one step.        *)
(***************************************************************************)
EXTENDS Integers, Sequences, FiniteSets

CONSTANTS
    Threads,          \* the threads calling the filter
    Keys, Vals,       \* ItemType and uint64_t
    NumBuckets,       \* num_buckets_: a power of two in the code
    SlotsPerBucket,   \* kTagsPerBucket: 4 in the code
    CounterMax,       \* 2^16 - 1 in the code: counters are uint16_t and wrap
    kMaxCuckooCount,  \* 500 in the code
    Index1, Index2,   \* the two buckets of a key
    Tag,              \* Tag[k][s]: the 12-bit tag of key k when it is in slot s
    Calls,            \* Calls[t]: the calls thread t may make
    Preload,          \* Preload[b][s]: {<<k, v>>} or {}, what is stored initially
    Garbage,          \* what uninitialised slot storage reads as
    NoThread          \* the owner of a free mutex

Buckets == 0 .. NumBuckets - 1
Slots   == 0 .. SlotsPerBucket - 1
Pairs   == Keys \X Vals
Ops     == {"insert", "erase", "update", "find", "findinfilter"}
CallSet == [op : Ops, key : Keys, val : Vals]

ASSUME SizeAssumption ==
    /\ NumBuckets \in Nat \ {0}
    /\ SlotsPerBucket \in Nat /\ SlotsPerBucket >= 2
    /\ kMaxCuckooCount \in Nat \ {0}
    /\ CounterMax \in Nat /\ CounterMax % 2 = 1
ASSUME HashAssumption ==
    /\ Index1 \in [Keys -> Buckets]
    /\ Index2 \in [Keys -> Buckets]
    /\ Tag \in [Keys -> [Slots -> Nat \ {0}]]
ASSUME ThreadAssumption == IsFiniteSet(Threads)
ASSUME CallAssumption ==
    /\ Calls \in [Threads -> SUBSET CallSet]
    /\ Garbage \in Pairs
    /\ NoThread \notin Threads
ASSUME PreloadAssumption ==
    /\ Preload \in [Buckets -> [Slots -> SUBSET Pairs]]
    /\ \A b \in Buckets, s \in Slots : \A p, q \in Preload[b][s] :
          p = q /\ b \in {Index1[p[1]], Index2[p[1]]}

VARIABLES
    counter,     \* counters_: odd while a thread owns the bucket
    tags,        \* the tags of the buckets, 0 for an empty slot
    kv,          \* the key-value storage of the hash table's slots
    occupied,    \* the hash table's occupied flags
    num_items,   \* num_items_
    victim,      \* victim_: its used flag, key and value
    write_lock,  \* owner of the mutex write_lock
    pc,          \* the step each thread is at
    loc          \* each thread's arguments and local variables

table == <<tags, kv, occupied>>
vars == <<counter, tags, kv, occupied, num_items, victim, write_lock, pc, loc>>

(***************************************************************************)
(* Local variables of a call.  They are reset when the call returns.       *)
(***************************************************************************)
Fresh(op, key, val) ==
    [ op |-> op, key |-> key, val |-> val,
      cur     |-> 0,            \* curindex, or the bucket of a hit
      old     |-> 0,            \* oldindex
      slot    |-> 0,            \* slot
      carried |-> <<key, val>>, \* curkey, curval; key_value_slot in an adaptation
      spare   |-> <<key, val>>, \* old_key_value; key_value_new_slot in an adaptation
      kicks   |-> 0,            \* pairs displaced so far: count - 1
      c2      |-> 0,            \* c2
      todo    |-> {},           \* slots of the scanned bucket whose tag matched
      fps     |-> <<>>,         \* false_positives_index and _slot
      empty   |-> FALSE,        \* empty_new_slot
      got     |-> val,          \* find's output parameter val
      out     |-> FALSE ]       \* found, or the value to return

idle == Fresh("insert", Garbage[1], Garbage[2])

LocType ==
    [ op : Ops, key : Keys, val : Vals, cur : Buckets, old : Buckets, slot : Slots,
      carried : Pairs, spare : Pairs, kicks : Nat,
      c2 : 0 .. CounterMax, todo : SUBSET Slots, fps : Seq(Buckets \X Slots),
      empty : BOOLEAN, got : Vals, out : BOOLEAN ]

InsertPCs == {"first_lock", "first_tag", "put_kv", "put_count", "put_unlock", "full_unlock",
              "insert_mutex", "insert_victim", "second_lock", "kick_tag", "kick_read",
              "kick_kv", "kick_lock", "kick_unlock", "victim_kv", "victim_val",
              "victim_used", "victim_unlock", "victim_count", "mutex_unlock"}
PairPCs   == {"pair_lock1", "pair_lock2", "pair_scan", "erase_tag", "erase_kv",
              "erase_unlock1", "erase_unlock2", "erase_count", "update_kv",
              "pair_unlock2", "pair_unlock1", "miss_mutex", "miss_victim", "miss_unlock"}
FindPCs   == {"find_even1", "find_even2", "find_read1", "find_key1", "find_read2",
              "find_key2", "find_val", "find_again", "find_victim", "find_vkey",
              "find_vval", "adapt_lock", "rf_read", "rf_slot", "rf_spare", "rf_tag_new",
              "rf_tag_slot", "rf_kv_new", "rf_kv_slot", "adapt_unlock"}
PCs == {"idle", "ret"} \cup InsertPCs \cup PairPCs \cup FindPCs

Init ==
    /\ counter = [b \in Buckets |-> 0]
    /\ tags = [b \in Buckets |-> [s \in Slots |->
          IF Preload[b][s] = {} THEN 0 ELSE Tag[(CHOOSE p \in Preload[b][s] : TRUE)[1]][s]]]
    /\ kv = [b \in Buckets |-> [s \in Slots |->
          IF Preload[b][s] = {} THEN Garbage ELSE CHOOSE p \in Preload[b][s] : TRUE]]
    /\ occupied = [b \in Buckets |-> [s \in Slots |-> Preload[b][s] # {}]]
    /\ num_items = Cardinality({x \in Buckets \X Slots : Preload[x[1]][x[2]] # {}})
    /\ victim = [used |-> FALSE, key |-> Garbage[1], val |-> Garbage[2]]
    /\ write_lock = NoThread
    /\ pc = [t \in Threads |-> "idle"]
    /\ loc = [t \in Threads |-> idle]

-----------------------------------------------------------------------------
(* Small steps shared by the calls. *)

At(t, p) == pc[t] = p
Goto(t, p) == pc' = [pc EXCEPT ![t] = p]
I1(t) == Index1[loc[t].key]
I2(t) == Index2[loc[t].key]

\* The call is over: out is what it returns.
Finish(t, result) ==
    /\ Goto(t, "ret")
    /\ loc' = [loc EXCEPT ![t].out = result]

Even(c) == c % 2 = 0
\* Mutant: the counter is wider than the 16 bits it is compared in.
Bump_NoWrap(c) == c + 1
Bump(c) == IF c = CounterMax THEN 0 ELSE c + 1

\* Mutant: the counter is taken without waiting for it to be even.
increment_odd_NoWait(b) == counter' = [counter EXCEPT ![b] = Bump(@)]
\* The compare-and-swap that succeeds; the spinning before it changes nothing.
increment_odd(b) ==
    /\ Even(counter[b])
    /\ counter' = [counter EXCEPT ![b] = Bump(@)]
increment_even(b) == counter' = [counter EXCEPT ![b] = Bump(@)]

Lock(t)   == write_lock = NoThread /\ write_lock' = t
\* Mutant: a path that forgets to unlock the mutex.
Unlock_Forgotten(t) == write_lock = t /\ UNCHANGED write_lock
Unlock(t) == write_lock = t /\ write_lock' = NoThread

WriteTag(b, s, tag) == tags' = [tags EXCEPT ![b][s] = tag]
\* Mutant: the occupied flag is not set.
setKV_NotOccupied(b, s, pair) ==
    /\ kv' = [kv EXCEPT ![b][s] = pair]
    /\ UNCHANGED occupied
setKV(b, s, pair) ==
    /\ kv' = [kv EXCEPT ![b][s] = pair]
    /\ occupied' = [occupied EXCEPT ![b][s] = TRUE]
\* Mutant: only the tag is cleared.
eraseKV_TagOnly(b, s) == UNCHANGED occupied
eraseKV(b, s) == occupied' = [occupied EXCEPT ![b][s] = FALSE]

FreeSlots(b) == {s \in Slots : tags[b][s] = 0}
FirstOf(S) == CHOOSE s \in S : \A r \in S : s <= r

\* The bucket a key is not in.
OtherBucket(key, b) == IF b = Index1[key] THEN Index2[key] ELSE Index1[key]

\* ReadBucket loads 64 bits: the 48 of this bucket, then slot 0 and the low
\* four bits of slot 1 of the next one (zero padding after the last).
WordIsZero(b) ==
    /\ FreeSlots(b) = Slots
    /\ b + 1 \in Buckets => tags[b + 1][0] = 0 /\ tags[b + 1][1] % 16 = 0

\* The slots whose 12 bits equal the key's tag for that slot.
Matches(b, key) == {s \in Slots : tags[b][s] = Tag[key][s]}

Begin(t) ==
    /\ At(t, "idle")
    /\ \E c \in Calls[t] :
          /\ loc' = [loc EXCEPT ![t] = Fresh(c.op, c.key, c.val)]
          /\ Goto(t, CASE c.op = "insert" -> "first_lock"
                       [] c.op \in {"erase", "update"} -> "pair_lock1"
                       [] c.op \in {"find", "findinfilter"} -> "find_even1")
    /\ UNCHANGED <<counter, table, num_items, victim, write_lock>>

Return(t) ==
    /\ At(t, "ret")
    /\ Goto(t, "idle")
    /\ loc' = [loc EXCEPT ![t] = idle]
    /\ UNCHANGED <<counter, table, num_items, victim, write_lock>>

-----------------------------------------------------------------------------
(* insert_impl: a free slot of the first bucket, without the mutex. *)

FirstLock(t) ==
    /\ At(t, "first_lock")
    /\ increment_odd(I1(t))
    /\ loc' = [loc EXCEPT ![t].cur = I1(t)]
    /\ Goto(t, "first_tag")
    /\ UNCHANGED <<table, num_items, victim, write_lock>>

\* InsertTagToBucket finds an empty slot of the current bucket.
TakeFreeSlot(t) ==
    /\ pc[t] \in {"first_tag", "kick_tag"}
    /\ LET b == loc[t].cur
           s == FirstOf(FreeSlots(b))
       IN  /\ FreeSlots(b) # {}
           /\ WriteTag(b, s, Tag[loc[t].carried[1]][s])
           /\ loc' = [loc EXCEPT ![t].slot = s]
    /\ Goto(t, "put_kv")
    /\ UNCHANGED <<counter, kv, occupied, num_items, victim, write_lock>>

FirstFull(t) ==
    /\ At(t, "first_tag")
    /\ FreeSlots(loc[t].cur) = {}
    /\ Goto(t, "full_unlock")
    /\ UNCHANGED <<counter, table, num_items, victim, write_lock, loc>>

PutKV(t) ==
    /\ At(t, "put_kv")
    /\ setKV(loc[t].cur, loc[t].slot, loc[t].carried)
    /\ Goto(t, "put_count")
    /\ UNCHANGED <<counter, tags, num_items, victim, write_lock, loc>>

PutCount(t) ==
    /\ At(t, "put_count")
    /\ num_items' = num_items + 1
    /\ Goto(t, "put_unlock")
    /\ UNCHANGED <<counter, table, victim, write_lock, loc>>

\* The pair went to the first bucket (no mutex held) or ended a kick chain.
PutUnlock(t) ==
    /\ At(t, "put_unlock")
    /\ increment_even(loc[t].cur)
    /\ \/ write_lock # t /\ Finish(t, TRUE)
       \/ write_lock = t /\ Goto(t, "mutex_unlock") /\ UNCHANGED loc
    /\ UNCHANGED <<table, num_items, victim, write_lock>>

FullUnlock(t) ==
    /\ At(t, "full_unlock")
    /\ increment_even(loc[t].cur)
    /\ Goto(t, "insert_mutex")
    /\ UNCHANGED <<table, num_items, victim, write_lock, loc>>

InsertMutex(t) ==
    /\ At(t, "insert_mutex")
    /\ Lock(t)
    /\ Goto(t, "insert_victim")
    /\ UNCHANGED <<counter, table, num_items, victim, loc>>

\* The one-entry victim cache is taken: nothing more is inserted.
InsertRefused(t) ==
    /\ At(t, "insert_victim")
    /\ victim.used
    /\ Unlock(t)
    /\ Finish(t, FALSE)
    /\ UNCHANGED <<counter, table, num_items, victim>>

InsertProceed(t) ==
    /\ At(t, "insert_victim")
    /\ ~victim.used
    /\ loc' = [loc EXCEPT ![t].cur = I2(t)]
    /\ Goto(t, "second_lock")
    /\ UNCHANGED <<counter, table, num_items, victim, write_lock>>

\* Mutant: the second bucket is not locked before it is written.
SecondLock_Skipped(t) ==
    /\ At(t, "second_lock")
    /\ Goto(t, IF kMaxCuckooCount > 1 THEN "kick_tag" ELSE "victim_kv")
    /\ UNCHANGED <<counter, table, num_items, victim, write_lock, loc>>

SecondLock(t) ==
    /\ At(t, "second_lock")
    /\ increment_odd(loc[t].cur)
    /\ Goto(t, IF kMaxCuckooCount > 1 THEN "kick_tag" ELSE "victim_kv")
    /\ UNCHANGED <<table, num_items, victim, write_lock, loc>>

-----------------------------------------------------------------------------
(* The kick chain, under the mutex: the bucket that receives the displaced *)
(* key is locked before the bucket it leaves is unlocked.                  *)

KickOut(t) ==
    /\ At(t, "kick_tag")
    /\ FreeSlots(loc[t].cur) = {}
    /\ \E s \in Slots :                                      \* rand()
          /\ WriteTag(loc[t].cur, s, Tag[loc[t].carried[1]][s])
          /\ loc' = [loc EXCEPT ![t].slot = s]
    /\ Goto(t, "kick_read")
    /\ UNCHANGED <<counter, kv, occupied, num_items, victim, write_lock>>

KickRead(t) ==
    /\ At(t, "kick_read")
    /\ loc' = [loc EXCEPT ![t].spare = kv[loc[t].cur][loc[t].slot]]
    /\ Goto(t, "kick_kv")
    /\ UNCHANGED <<counter, table, num_items, victim, write_lock>>

\* Where the loop stands after this many displaced pairs.
NextRound(kicks) == IF kicks + 1 < kMaxCuckooCount THEN "kick_tag" ELSE "victim_kv"

\* Store the carried pair, carry the displaced one to its other bucket.
KickKV(t) ==
    LET b     == loc[t].cur
        next  == OtherBucket(loc[t].spare[1], b)
        kicks == loc[t].kicks + 1
    IN  /\ At(t, "kick_kv")
        /\ setKV(b, loc[t].slot, loc[t].carried)
        /\ loc' = [loc EXCEPT ![t].carried = loc[t].spare, ![t].kicks = kicks,
                              ![t].old = b, ![t].cur = next]
        /\ Goto(t, IF next = b THEN NextRound(kicks) ELSE "kick_lock")
        /\ UNCHANGED <<counter, tags, num_items, victim, write_lock>>

KickLock(t) ==
    /\ At(t, "kick_lock")
    /\ increment_odd(loc[t].cur)
    /\ Goto(t, "kick_unlock")
    /\ UNCHANGED <<table, num_items, victim, write_lock, loc>>

KickUnlock(t) ==
    /\ At(t, "kick_unlock")
    /\ increment_even(loc[t].old)
    /\ Goto(t, NextRound(loc[t].kicks))
    /\ UNCHANGED <<table, num_items, victim, write_lock, loc>>

\* The chain is too long: the pair in hand becomes the victim. A find reads the
\* flag, the key and the value of the victim without a lock.
VictimKey(t) ==
    /\ At(t, "victim_kv")
    /\ victim' = [victim EXCEPT !.key = loc[t].carried[1]]
    /\ Goto(t, "victim_val")
    /\ UNCHANGED <<counter, table, num_items, write_lock, loc>>

VictimVal(t) ==
    /\ At(t, "victim_val")
    /\ victim' = [victim EXCEPT !.val = loc[t].carried[2]]
    /\ Goto(t, "victim_used")
    /\ UNCHANGED <<counter, table, num_items, write_lock, loc>>

VictimKV(t) == VictimKey(t) \/ VictimVal(t)

VictimUsed(t) ==
    /\ At(t, "victim_used")
    /\ victim' = [victim EXCEPT !.used = TRUE]
    /\ Goto(t, "victim_unlock")
    /\ UNCHANGED <<counter, table, num_items, write_lock, loc>>

VictimUnlock(t) ==
    /\ At(t, "victim_unlock")
    /\ increment_even(loc[t].cur)
    /\ Goto(t, "victim_count")
    /\ UNCHANGED <<table, num_items, victim, write_lock, loc>>

\* Mutant: a pair that ends in the victim cache is not counted.
VictimCount_Skipped(t) ==
    /\ At(t, "victim_count")
    /\ Goto(t, "mutex_unlock")
    /\ UNCHANGED <<counter, table, num_items, victim, write_lock, loc>>

VictimCount(t) ==
    /\ At(t, "victim_count")
    /\ num_items' = num_items + 1
    /\ Goto(t, "mutex_unlock")
    /\ UNCHANGED <<counter, table, victim, write_lock, loc>>

MutexUnlock(t) ==
    /\ At(t, "mutex_unlock")
    /\ Unlock(t)
    /\ Finish(t, TRUE)
    /\ UNCHANGED <<counter, table, num_items, victim>>

-----------------------------------------------------------------------------
(* erase and update: both buckets of the key are locked, i1 first. *)

PairLock1(t) ==
    /\ At(t, "pair_lock1")
    /\ increment_odd(I1(t))
    /\ Goto(t, IF I1(t) = I2(t) THEN "pair_scan" ELSE "pair_lock2")
    /\ UNCHANGED <<table, num_items, victim, write_lock, loc>>

\* Mutant: only the first bucket is locked.
PairLock2_Skipped(t) ==
    /\ At(t, "pair_lock2")
    /\ Goto(t, "pair_scan")
    /\ UNCHANGED <<counter, table, num_items, victim, write_lock, loc>>

PairLock2(t) ==
    /\ At(t, "pair_lock2")
    /\ increment_odd(I2(t))
    /\ Goto(t, "pair_scan")
    /\ UNCHANGED <<table, num_items, victim, write_lock, loc>>

\* The slots of bucket b where both the tag and the stored key match.
Hits(b, key) == {s \in Matches(b, key) : kv[b][s][1] = key}

\* The first hit, in i1 before i2.
PairHit(t) ==
    LET key == loc[t].key
        b   == IF Hits(I1(t), key) # {} THEN I1(t) ELSE I2(t)
    IN  /\ At(t, "pair_scan")
        /\ Hits(b, key) # {}
        /\ loc' = [loc EXCEPT ![t].cur = b, ![t].slot = FirstOf(Hits(b, key)), ![t].out = TRUE]
        /\ Goto(t, IF loc[t].op = "erase" THEN "erase_tag" ELSE "update_kv")
        /\ UNCHANGED <<counter, table, num_items, victim, write_lock>>

PairMiss(t) ==
    /\ At(t, "pair_scan")
    /\ Hits(I1(t), loc[t].key) \cup Hits(I2(t), loc[t].key) = {}
    /\ Goto(t, "pair_unlock2")
    /\ UNCHANGED <<counter, table, num_items, victim, write_lock, loc>>

EraseTag(t) ==
    /\ At(t, "erase_tag")
    /\ WriteTag(loc[t].cur, loc[t].slot, 0)
    /\ Goto(t, "erase_kv")
    /\ UNCHANGED <<counter, kv, occupied, num_items, victim, write_lock, loc>>

EraseKV(t) ==
    /\ At(t, "erase_kv")
    /\ eraseKV(loc[t].cur, loc[t].slot)
    /\ Goto(t, "erase_unlock1")
    /\ UNCHANGED <<counter, tags, kv, num_items, victim, write_lock, loc>>

EraseUnlock1(t) ==
    /\ At(t, "erase_unlock1")
    /\ increment_even(I1(t))
    /\ Goto(t, IF I1(t) = I2(t) THEN "erase_count" ELSE "erase_unlock2")
    /\ UNCHANGED <<table, num_items, victim, write_lock, loc>>

EraseUnlock2(t) ==
    /\ At(t, "erase_unlock2")
    /\ increment_even(I2(t))
    /\ Goto(t, "erase_count")
    /\ UNCHANGED <<table, num_items, victim, write_lock, loc>>

\* Mutant: an erase does not lower the count.
EraseCount_Skipped(t) ==
    /\ At(t, "erase_count")
    /\ Finish(t, TRUE)
    /\ UNCHANGED <<counter, table, num_items, victim, write_lock>>

EraseCount(t) ==
    /\ At(t, "erase_count")
    /\ num_items' = num_items - 1
    /\ Finish(t, TRUE)
    /\ UNCHANGED <<counter, table, victim, write_lock>>

UpdateKV(t) ==
    /\ At(t, "update_kv")
    /\ setKV(loc[t].cur, loc[t].slot, <<loc[t].key, loc[t].val>>)
    /\ Goto(t, "pair_unlock2")
    /\ UNCHANGED <<counter, tags, num_items, victim, write_lock, loc>>

\* An update that hit, or a call that missed both buckets.
AfterPair(t) == IF loc[t].out THEN "ret" ELSE "miss_mutex"

PairUnlock2(t) ==
    /\ At(t, "pair_unlock2")
    /\ increment_even(I2(t))
    /\ Goto(t, IF I1(t) = I2(t) THEN AfterPair(t) ELSE "pair_unlock1")
    /\ UNCHANGED <<table, num_items, victim, write_lock, loc>>

PairUnlock1(t) ==
    /\ At(t, "pair_unlock1")
    /\ increment_even(I1(t))
    /\ Goto(t, AfterPair(t))
    /\ UNCHANGED <<table, num_items, victim, write_lock, loc>>

MissMutex(t) ==
    /\ At(t, "miss_mutex")
    /\ Lock(t)
    /\ Goto(t, "miss_victim")
    /\ UNCHANGED <<counter, table, num_items, victim, loc>>

IsVictim(key) == victim.used /\ victim.key = key

\* erase frees the victim cache, update writes the value in it.
MissVictim(t) ==
    /\ At(t, "miss_victim")
    /\ \/ /\ IsVictim(loc[t].key)
          /\ victim' = IF loc[t].op = "erase" THEN [victim EXCEPT !.used = FALSE]
                                              ELSE [victim EXCEPT !.val = loc[t].val]
          /\ loc' = [loc EXCEPT ![t].out = TRUE]
       \/ /\ ~IsVictim(loc[t].key)
          /\ UNCHANGED <<victim, loc>>
    /\ Goto(t, "miss_unlock")
    /\ UNCHANGED <<counter, table, num_items, write_lock>>

\* update falls through to insert_impl when the key is nowhere.
MissUnlock(t) ==
    /\ At(t, "miss_unlock")
    /\ Unlock(t)
    /\ Goto(t, CASE loc[t].out /\ loc[t].op = "erase"  -> "erase_count"
                 [] ~loc[t].out /\ loc[t].op = "update" -> "first_lock"
                 [] OTHER -> "ret")
    /\ UNCHANGED <<counter, table, num_items, victim, loc>>

-----------------------------------------------------------------------------
(* find and findinfilter: the buckets are read without a lock. *)

FindEven1(t) ==
    /\ At(t, "find_even1")
    /\ Even(counter[I1(t)])
    /\ Goto(t, "find_even2")
    /\ UNCHANGED <<counter, table, num_items, victim, write_lock, loc>>

FindEven2(t) ==
    /\ At(t, "find_even2")
    /\ Even(counter[I2(t)])
    /\ loc' = [loc EXCEPT ![t].c2 = counter[I2(t)], ![t].fps = <<>>]
    /\ Goto(t, "find_read1")
    /\ UNCHANGED <<counter, table, num_items, victim, write_lock>>

\* The word of i1 is zero: out of the loop, without looking at i2.
FindBreak(t) ==
    /\ At(t, "find_read1")
    /\ WordIsZero(I1(t))
    /\ Goto(t, "find_victim")
    /\ UNCHANGED <<counter, table, num_items, victim, write_lock, loc>>

\* Read the word of bucket b.  findinfilter is content with a matching tag;
\* find goes on to compare the stored keys, or leaves the bucket.
ReadWord(t, b, compare, leave) ==
    /\ loc' = [loc EXCEPT ![t].todo = Matches(b, loc[t].key),
                          ![t].out = loc[t].op = "findinfilter" /\ Matches(b, loc[t].key) # {}]
    /\ Goto(t, CASE Matches(b, loc[t].key) = {} -> leave
                 [] OTHER -> IF loc[t].op = "find" THEN compare ELSE "ret")
    /\ UNCHANGED <<counter, table, num_items, victim, write_lock>>

FindRead1(t) ==
    /\ At(t, "find_read1")
    /\ ~WordIsZero(I1(t))
    /\ ReadWord(t, I1(t), "find_key1", "find_read2")

FindRead2(t) ==
    /\ At(t, "find_read2")
    /\ ReadWord(t, I2(t), "find_key2", "find_again")

\* Compare the key in the first matching slot: a hit ends the search, any
\* other key is a false positive of the filter.
CompareKey(t, b, leave) ==
    LET s == FirstOf(loc[t].todo)
    IN  /\ \/ /\ kv[b][s][1] = loc[t].key
              /\ loc' = [loc EXCEPT ![t].cur = b, ![t].slot = s, ![t].todo = {}]
              /\ Goto(t, "find_val")
           \/ /\ kv[b][s][1] # loc[t].key
              /\ loc' = [loc EXCEPT ![t].todo = @ \ {s}, ![t].fps = Append(@, <<b, s>>)]
              /\ IF loc[t].todo = {s} THEN Goto(t, leave) ELSE UNCHANGED pc
        /\ UNCHANGED <<counter, table, num_items, victim, write_lock>>

FindKey1(t) == At(t, "find_key1") /\ CompareKey(t, I1(t), "find_read2")
FindKey2(t) == At(t, "find_key2") /\ CompareKey(t, I2(t), "find_again")

\* false_positives_removal: nothing to adapt, or lock i1.
Adaptation(fps) == IF fps = <<>> THEN "ret" ELSE "adapt_lock"

FindVal(t) ==
    /\ At(t, "find_val")
    /\ loc' = [loc EXCEPT ![t].got = kv[loc[t].cur][loc[t].slot][2], ![t].out = TRUE]
    /\ Goto(t, Adaptation(loc[t].fps))
    /\ UNCHANGED <<counter, table, num_items, victim, write_lock>>

\* Both conjuncts of the loop condition ask about i2.
FindAgain(t) ==
    /\ At(t, "find_again")
    /\ Goto(t, IF counter[I2(t)] # loc[t].c2 THEN "find_even1" ELSE "find_victim")
    /\ UNCHANGED <<counter, table, num_items, victim, write_lock, loc>>

\* Mutant: the victim cache is not looked at.
FindVictim_Ignored(t) ==
    /\ At(t, "find_victim")
    /\ Goto(t, Adaptation(loc[t].fps))
    /\ UNCHANGED <<counter, table, num_items, victim, write_lock, loc>>

FindVictim(t) ==
    /\ At(t, "find_victim")
    /\ Goto(t, IF victim.used THEN "find_vkey" ELSE Adaptation(loc[t].fps))
    /\ UNCHANGED <<counter, table, num_items, victim, write_lock, loc>>

\* A hit in the victim cache returns at once: no adaptation.
FindVKey(t) ==
    /\ At(t, "find_vkey")
    /\ \/ /\ victim.key = loc[t].key
          /\ loc' = [loc EXCEPT ![t].out = TRUE]
          /\ Goto(t, IF loc[t].op = "find" THEN "find_vval" ELSE "ret")
       \/ /\ victim.key # loc[t].key
          /\ Goto(t, Adaptation(loc[t].fps))
          /\ UNCHANGED loc
    /\ UNCHANGED <<counter, table, num_items, victim, write_lock>>

FindVVal(t) ==
    /\ At(t, "find_vval")
    /\ loc' = [loc EXCEPT ![t].got = victim.val]
    /\ Goto(t, "ret")
    /\ UNCHANGED <<counter, table, num_items, victim, write_lock>>

-----------------------------------------------------------------------------
(* The adaptation: each false positive moves one slot further, because the *)
(* tag of a key depends on the slot.  Only i1 is locked.                   *)

AdaptLock(t) ==
    /\ At(t, "adapt_lock")
    /\ increment_odd(I1(t))
    /\ Goto(t, "rf_read")
    /\ UNCHANGED <<table, num_items, victim, write_lock, loc>>

FpBucket(t) == Head(loc[t].fps)[1]
FpSlot(t)   == Head(loc[t].fps)[2]
NewSlot(t)  == (FpSlot(t) + 1) % SlotsPerBucket

\* Where the tag of the next slot is zero, no pair is read from there.
RfReadTag(t) ==
    /\ At(t, "rf_read")
    /\ loc' = [loc EXCEPT ![t].empty = tags[FpBucket(t)][NewSlot(t)] = 0]
    /\ Goto(t, "rf_slot")
    /\ UNCHANGED <<counter, table, num_items, victim, write_lock>>

RfReadSlot(t) ==
    /\ At(t, "rf_slot")
    /\ loc' = [loc EXCEPT ![t].carried = kv[FpBucket(t)][FpSlot(t)]]
    /\ Goto(t, IF loc[t].empty THEN "rf_tag_new" ELSE "rf_spare")
    /\ UNCHANGED <<counter, table, num_items, victim, write_lock>>

RfReadNewSlot(t) ==
    /\ At(t, "rf_spare")
    /\ loc' = [loc EXCEPT ![t].spare = kv[FpBucket(t)][NewSlot(t)]]
    /\ Goto(t, "rf_tag_new")
    /\ UNCHANGED <<counter, table, num_items, victim, write_lock>>

RfRead(t) == RfReadTag(t) \/ RfReadSlot(t) \/ RfReadNewSlot(t)

RfTagNew(t) ==
    /\ At(t, "rf_tag_new")
    /\ WriteTag(FpBucket(t), NewSlot(t), Tag[loc[t].carried[1]][NewSlot(t)])
    /\ Goto(t, "rf_tag_slot")
    /\ UNCHANGED <<counter, kv, occupied, num_items, victim, write_lock, loc>>

RfTagSlot(t) ==
    /\ At(t, "rf_tag_slot")
    /\ WriteTag(FpBucket(t), FpSlot(t),
                IF loc[t].empty THEN 0 ELSE Tag[loc[t].spare[1]][FpSlot(t)])
    /\ Goto(t, "rf_kv_new")
    /\ UNCHANGED <<counter, kv, occupied, num_items, victim, write_lock, loc>>

RfKVNew(t) ==
    /\ At(t, "rf_kv_new")
    /\ setKV(FpBucket(t), NewSlot(t), loc[t].carried)
    /\ Goto(t, "rf_kv_slot")
    /\ UNCHANGED <<counter, tags, num_items, victim, write_lock, loc>>

RfKVSlot(t) ==
    /\ At(t, "rf_kv_slot")
    /\ \/ loc[t].empty  /\ eraseKV(FpBucket(t), FpSlot(t)) /\ UNCHANGED kv
       \/ ~loc[t].empty /\ setKV(FpBucket(t), FpSlot(t), loc[t].spare)
    /\ loc' = [loc EXCEPT ![t].fps = Tail(@)]
    /\ Goto(t, IF Tail(loc[t].fps) = <<>> THEN "adapt_unlock" ELSE "rf_read")
    /\ UNCHANGED <<counter, tags, num_items, victim, write_lock>>

\* Mutant: the adapted bucket stays locked.
AdaptUnlock_Forgotten(t) ==
    /\ At(t, "adapt_unlock")
    /\ Goto(t, "ret")
    /\ UNCHANGED <<counter, table, num_items, victim, write_lock, loc>>

AdaptUnlock(t) ==
    /\ At(t, "adapt_unlock")
    /\ increment_even(I1(t))
    /\ Goto(t, "ret")
    /\ UNCHANGED <<table, num_items, victim, write_lock, loc>>

-----------------------------------------------------------------------------
InsertStep(t) ==
    \/ FirstLock(t) \/ TakeFreeSlot(t) \/ FirstFull(t) \/ PutKV(t) \/ PutCount(t)
    \/ PutUnlock(t) \/ FullUnlock(t) \/ InsertMutex(t) \/ InsertRefused(t)
    \/ InsertProceed(t) \/ SecondLock(t) \/ KickOut(t) \/ KickRead(t) \/ KickKV(t)
    \/ KickLock(t) \/ KickUnlock(t) \/ VictimKV(t) \/ VictimUsed(t) \/ VictimUnlock(t)
    \/ VictimCount(t) \/ MutexUnlock(t)

PairStep(t) ==
    \/ PairLock1(t) \/ PairLock2(t) \/ PairHit(t) \/ PairMiss(t) \/ EraseTag(t)
    \/ EraseKV(t) \/ EraseUnlock1(t) \/ EraseUnlock2(t) \/ EraseCount(t) \/ UpdateKV(t)
    \/ PairUnlock2(t) \/ PairUnlock1(t) \/ MissMutex(t) \/ MissVictim(t) \/ MissUnlock(t)

FindStep(t) ==
    \/ FindEven1(t) \/ FindEven2(t) \/ FindBreak(t) \/ FindRead1(t) \/ FindKey1(t)
    \/ FindRead2(t) \/ FindKey2(t) \/ FindVal(t) \/ FindAgain(t) \/ FindVictim(t)
    \/ FindVKey(t) \/ FindVVal(t)

AdaptStep(t) ==
    \/ AdaptLock(t) \/ RfRead(t) \/ RfTagNew(t) \/ RfTagSlot(t) \/ RfKVNew(t)
    \/ RfKVSlot(t) \/ AdaptUnlock(t)

\* What a thread that is inside a call does next.
Step(t) == InsertStep(t) \/ PairStep(t) \/ FindStep(t) \/ AdaptStep(t) \/ Return(t)

Next == \E t \in Threads : Begin(t) \/ Step(t)

Spec == Init /\ [][Next]_vars

\* The operating system runs every thread that can take a step.
FairSpec == Spec /\ \A t \in Threads : WF_vars(Step(t))

-----------------------------------------------------------------------------
(* Who holds what, read off the control state. *)

CurPCs == {"first_tag", "put_kv", "put_count", "put_unlock", "full_unlock", "kick_tag",
           "kick_read", "kick_kv", "kick_unlock", "victim_kv", "victim_val", "victim_used",
           "victim_unlock"}
OldPCs == {"kick_lock", "kick_unlock"}
FirstPCs == {"pair_lock2", "pair_scan", "erase_tag", "erase_kv", "erase_unlock1", "update_kv",
             "pair_unlock2", "pair_unlock1", "rf_read", "rf_slot", "rf_spare", "rf_tag_new",
             "rf_tag_slot", "rf_kv_new", "rf_kv_slot", "adapt_unlock"}
SecondPCs == {"pair_scan", "erase_tag", "erase_kv", "erase_unlock1", "erase_unlock2",
              "update_kv", "pair_unlock2"}
MutexPCs == {"insert_victim", "second_lock", "kick_tag", "kick_read", "kick_kv", "kick_lock",
             "kick_unlock", "victim_kv", "victim_val", "victim_used", "victim_unlock",
             "victim_count", "mutex_unlock", "miss_victim", "miss_unlock"}

Holds(t, b) ==
    \/ pc[t] \in CurPCs /\ b = loc[t].cur
    \/ pc[t] \in OldPCs /\ b = loc[t].old
    \/ pc[t] \in FirstPCs /\ b = I1(t)
    \/ pc[t] \in SecondPCs /\ b = I2(t)

KeyPCs   == {"find_key1", "find_key2"}
AdaptPCs == {"adapt_lock", "rf_read", "rf_slot", "rf_spare", "rf_tag_new", "rf_tag_slot",
             "rf_kv_new", "rf_kv_slot"}

\* Types, and the two work lists that are never empty while they are consumed.
TypeOK ==
    /\ counter \in [Buckets -> 0 .. CounterMax]
    /\ tags \in [Buckets -> [Slots -> Nat]]
    /\ kv \in [Buckets -> [Slots -> Pairs]]
    /\ occupied \in [Buckets -> [Slots -> BOOLEAN]]
    /\ num_items \in Int
    /\ victim \in [used : BOOLEAN, key : Keys, val : Vals]
    /\ write_lock \in Threads \cup {NoThread}
    /\ pc \in [Threads -> PCs]
    /\ loc \in [Threads -> LocType]
    /\ \A t \in Threads : pc[t] \in KeyPCs => loc[t].todo # {}
    /\ \A t \in Threads : pc[t] \in AdaptPCs => loc[t].fps # <<>>

\* A bucket has at most one owner, and its counter is odd exactly while it has
\* one: the versioned counters are locks, whatever the displaced keys are and
\* however the kick chain moves hand over hand.
LockInv ==
    /\ \A t, u \in Threads, b \in Buckets : Holds(t, b) /\ Holds(u, b) => t = u
    /\ \A b \in Buckets : ~Even(counter[b]) <=> \E t \in Threads : Holds(t, b)

\* A kick chain, the victim cache and the calls that fall back on it run under
\* the one mutex; no path leaves it locked or runs such a step without it.
MutexInv ==
    \A t \in Threads :
        /\ pc[t] \in MutexPCs => write_lock = t
        /\ write_lock = t => pc[t] \in MutexPCs \cup {"put_kv", "put_count", "put_unlock"}

\* An adaptation is rewriting bucket b, which it owns only if b is its i1.
Adapting(t, b) ==
    /\ pc[t] \in {"rf_tag_new", "rf_tag_slot", "rf_kv_new", "rf_kv_slot"}
    /\ FpBucket(t) = b

\* Where nobody is writing, the filter and the hash table agree: a tag is set
\* exactly where a pair is stored, it is the tag of that pair's key for that
\* slot, and the pair is in one of its key's two buckets.
SlotInv ==
    \A b \in Buckets :
        Even(counter[b]) /\ ~(\E t \in Threads : Adapting(t, b)) =>
            \A s \in Slots :
                /\ occupied[b][s] <=> tags[b][s] # 0
                /\ occupied[b][s] => /\ tags[b][s] = Tag[kv[b][s][1]][s]
                                     /\ b \in {Index1[kv[b][s][1]], Index2[kv[b][s][1]]}

\* A bucket changes only while its counter is odd, and only by a step of the
\* thread that made it so.  True of insert, erase and update; an adaptation of
\* a slot of i2 breaks it.
OnlyOwnersWrite ==
    [][\A b \in Buckets :
          <<tags[b], kv[b], occupied[b]>>' # <<tags[b], kv[b], occupied[b]>> =>
              /\ ~Even(counter[b])
              /\ \E t \in Threads : Holds(t, b) /\ pc'[t] # pc[t]]_vars
=============================================================================
