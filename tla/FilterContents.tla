--------------------------- MODULE FilterContents ---------------------------
(***************************************************************************)
(* What the adaptive filter stores, as its callers see it: the abstract    *)
(* contents of a state of AdaptiveFilter, the exactness of num_items, and  *)
(* the refinement of the atomic collection KeyValueBag.                    *)
(***************************************************************************)
EXTENDS AdaptiveFilter, SequencesExt

CONSTANTS
    NoCall,   \* the call of an idle thread
    NoReply   \* the reply of a call that has not taken effect

ASSUME NoneAssumption ==
    /\ NoCall \notin CallSet
    /\ NoReply \notin [found : BOOLEAN, val : Vals]

\* Thread t has displaced a pair that is in no slot for the moment.
CarriesDisplaced(t) ==
    /\ loc[t].kicks > 0
    /\ pc[t] \in {"kick_lock", "kick_unlock", "kick_tag", "kick_read", "kick_kv", "put_kv",
                  "victim_kv", "victim_val", "victim_used"}

\* The adaptation has moved a pair out of this slot and not yet refilled it.
HalfMoved(t, b, s) == pc[t] = "rf_kv_slot" /\ Head(loc[t].fps) = <<b, s>>

\* The pairs a slot stands for: none or one.
InSlot(b, s) ==
    IF \E t \in Threads : HalfMoved(t, b, s)
    THEN {loc[t].spare : t \in {u \in Threads : HalfMoved(u, b, s) /\ ~loc[u].empty}}
    ELSE {p \in {kv[b][s]} : occupied[b][s]}

\* Where a copy of a pair can be: in a slot, in the hands of a thread, in the
\* victim cache.
InSlots(p) == {x \in Buckets \X Slots : p \in InSlot(x[1], x[2])}
InHands(p) == {t \in Threads : CarriesDisplaced(t) /\ loc[t].carried = p}
InVictim(p) == victim.used /\ <<victim.key, victim.val>> = p

Contents ==
    [p \in Pairs |-> Cardinality(InSlots(p)) + Cardinality(InHands(p))
                        + (IF InVictim(p) THEN 1 ELSE 0)]

Stored(key) == \E v \in Vals : Contents[<<key, v>>] > 0

-----------------------------------------------------------------------------
(* num_items_ *)

\* The pair is in, the counter does not know yet.
Uncounted(t) ==
    \/ pc[t] = "put_count"
    \/ pc[t] = "victim_count"
    \/ pc[t] = "victim_unlock"
    \/ CarriesDisplaced(t)

\* The pair is out, the counter still has it.
Overcounted(t) ==
    /\ loc[t].op = "erase" /\ loc[t].out
    /\ pc[t] \in {"erase_unlock1", "erase_unlock2", "erase_count", "miss_unlock"}

StoredPairs ==
    Cardinality({x \in Buckets \X Slots : InSlot(x[1], x[2]) # {}})
        + Cardinality({t \in Threads : CarriesDisplaced(t)})
        + (IF victim.used THEN 1 ELSE 0)

\* num_items_ is the number of stored pairs, up to the calls that have changed
\* the table and not yet the counter: no path of insert, update and erase counts
\* twice or forgets to.
CountExact ==
    num_items + Cardinality({t \in Threads : Uncounted(t)})
        = StoredPairs + Cardinality({t \in Threads : Overcounted(t)})

\* The answer of find when no other call is running.  A value it returns is
\* stored under the key.  A key it does not find is not stored, unless the word
\* of the key's first bucket reads zero: then it never looked at the second.
FindAnswer ==
    \A t \in Threads : pc[t] = "ret" /\ loc[t].op = "find" =>
        IF loc[t].out THEN Contents[<<loc[t].key, loc[t].got>>] > 0
                      ELSE ~Stored(loc[t].key) \/ WordIsZero(I1(t))

-----------------------------------------------------------------------------
(* iterate_all, asked for between calls *)

\* The pairs in the order of the storage.
OccupiedPairs ==
    LET Pos == SetToSortSeq({x \in Buckets \X Slots : occupied[x[1]][x[2]]},
                            LAMBDA x, y : x[1] < y[1] \/ (x[1] = y[1] /\ x[2] < y[2]))
    IN  [i \in DOMAIN Pos |-> kv[Pos[i][1]][Pos[i][2]]]

\* cuckoohash_map::iterate_all: num_items stays 0, so each pair replaces the one
\* before at position 0, and the others keep what resize gave them (zeros: where
\* this is used, Garbage is the zero pair).
table_listing ==
    [i \in 1..num_items |-> IF i = 1 /\ OccupiedPairs # <<>> THEN Last(OccupiedPairs) ELSE Garbage]

\* The caller of it adds the victim where the table's pairs end: at position 0,
\* and only if it is the only pair.
iterate_all ==
    IF num_items = 1 /\ victim.used THEN <<<<victim.key, victim.val>>>> ELSE table_listing

\* iterate_all lists every stored pair as often as it is stored.
IteratesAll ==
    (\A t \in Threads : pc[t] = "idle") =>
        \A p \in Pairs : Cardinality({i \in DOMAIN iterate_all : iterate_all[i] = p}) = Contents[p]

-----------------------------------------------------------------------------
(* What the tests and the README expect of the calls.  The code violates   *)
(* these: the README of this directory says where.                         *)

\* find and contains report a key that is stored.
InsertedIsFound ==
    \A t \in Threads : pc[t] = "ret" /\ loc[t].op = "find" /\ ~loc[t].out => ~Stored(loc[t].key)

\* find returns a value stored under the key it was asked for.
FoundValueIsStored ==
    \A t \in Threads : pc[t] = "ret" /\ loc[t].op = "find" /\ loc[t].out =>
        Contents[<<loc[t].key, loc[t].got>>] > 0

\* An erased key, inserted once, is gone.
ErasedIsGone ==
    \A t \in Threads : pc[t] = "ret" /\ loc[t].op = "erase" /\ loc[t].out => ~Stored(loc[t].key)

\* A key stored at the start stays stored between calls.
InsertedStays ==
    (\A t \in Threads : pc[t] = "idle") =>
        \A b \in Buckets, s \in Slots : \A p \in Preload[b][s] : Stored(p[1])

-----------------------------------------------------------------------------
(* Refinement: a call takes effect when the hash table or the victim cache *)
(* changes, or when it finds that there is nothing to do.                  *)

TookEffect(t) ==
    \/ loc[t].kicks > 0
    \/ pc[t] \in {"put_count", "put_unlock", "victim_unlock", "victim_count", "mutex_unlock",
                  "erase_unlock1", "erase_unlock2", "erase_count"}
    \/ loc[t].out /\ pc[t] \in {"pair_unlock2", "pair_unlock1", "miss_unlock"}

AbstractCall(t) ==
    IF pc[t] = "idle" THEN NoCall ELSE [op |-> loc[t].op, key |-> loc[t].key, val |-> loc[t].val]

AbstractReply(t) ==
    CASE pc[t] = "ret"  -> [found |-> loc[t].out, val |-> loc[t].got]
      [] pc[t] # "ret" /\ TookEffect(t) -> [found |-> TRUE, val |-> loc[t].got]
      [] OTHER -> NoReply

Abstract == INSTANCE KeyValueBag WITH
    bag <- Contents,
    call <- [t \in Threads |-> AbstractCall(t)],
    reply <- [t \in Threads |-> AbstractReply(t)]

\* Every call is atomic: a displaced key is never missing, an erase removes one
\* copy, an update that finds its key replaces it, a key that is stored is never
\* reported absent.
AtomicCalls == Abstract!Spec
=============================================================================
