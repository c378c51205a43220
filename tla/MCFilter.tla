------------------------------ MODULE MCFilter ------------------------------
(***************************************************************************)
(* Small instances of the adaptive filter for TLC: the hash layouts, the   *)
(* calls of each thread and the initial contents the configurations choose *)
(* from.                                                                   *)
(***************************************************************************)
EXTENDS FilterContents, TLC

CONSTANTS t1, t2, k1, k2, k3, k4, v1, v2

ZeroPair == <<k1, v1>>   \* zeroed storage reads as key 0, which k1 is

\* k1 and k2 share both buckets, k3 has them the other way round, and k4 hashes
\* to one bucket only.
FirstBuckets  == [k \in Keys |-> IF k = k3 THEN 1 ELSE 0]
SecondBuckets == [k \in Keys |-> IF k \in {k3, k4} THEN 0 ELSE 1]

\* k1 and k2 collide in slot 0 only, k2 and k3 in slot 1 only, with a tag whose
\* low four bits are zero: the word of the bucket before does not show it.
CollidingTags ==
    [k \in Keys |-> [s \in Slots |->
        CASE s = 0 -> IF k \in {k1, k2} THEN 1 ELSE IF k = k3 THEN 2 ELSE 3
          [] s = 1 -> IF k \in {k2, k3} THEN 16 ELSE IF k = k1 THEN 1 ELSE 2
          [] OTHER -> IF k = k1 THEN 1 ELSE IF k = k2 THEN 2 ELSE 3]]

\* No two keys share a tag.
DistinctTags ==
    [k \in Keys |-> [s \in Slots |-> CASE k = k1 -> 1 [] k = k2 -> 2 [] k = k3 -> 3 [] OTHER -> 4]]

Empty == [b \in Buckets |-> [s \in Slots |-> {}]]

Call(op, key, val) == [op |-> op, key |-> key, val |-> val]
CallsOf(ops, keys, vals) == {Call(o, k, v) : o \in ops, k \in keys, v \in vals}

\* Every operation on every key.
SequentialCalls == [t \in Threads |-> CallsOf(Ops, Keys, {v1})]

\* Each thread writes its own keys, as the threads of old_test.cc did before
\* their body was commented out; the buckets are shared.
WriterCalls == (t1 :> CallsOf({"insert", "erase"}, {k1}, {v1})
                      \cup CallsOf({"update"}, {k1}, {v2}))
            @@ (t2 :> CallsOf({"insert", "erase"}, {k2, k3}, {v1}))
=============================================================================
