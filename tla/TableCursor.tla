----------------------------- MODULE TableCursor -----------------------------
(***************************************************************************)
(* What the iterators of a locked_table promise. A cursor divides the keys *)
(* of its map into those it has passed, the one it is at, and those ahead  *)
(* of it. It moves by one key at a time; removing a key leaves every       *)
(* cursor that is elsewhere as it was; anything that adds or rearranges    *)
(* elements drops the cursors of that map.                                 *)
(***************************************************************************)
EXTENDS FiniteSets

CONSTANTS Keys, Maps, Iterators, NoCursor, End

VARIABLES
  keys,    \* the keys of every map
  cursor   \* [map, passed, at, ahead], or NoCursor

Placed(i) == cursor[i] # NoCursor
OfMap(m) == {i \in Iterators : Placed(i) /\ cursor[i].map = m}
Divides(c, K) ==
  LET at == IF c.at = End THEN {} ELSE {c.at} IN
  /\ c.passed \union at \union c.ahead = K
  /\ c.passed \intersect c.ahead = {} /\ c.at \notin c.passed \union c.ahead
  /\ c.at = End => c.ahead = {}

Init ==
  /\ keys \in [Maps -> SUBSET Keys]
  /\ cursor = [i \in Iterators |-> NoCursor]

(* begin, end, find and assigning an iterator.                             *)
Place(i) ==
  /\ Placed(i)'
  /\ \E m \in Maps : cursor'[i].map = m /\ Divides(cursor'[i], keys[m])
  /\ \A j \in Iterators \ {i} : cursor'[j] = cursor[j]
  /\ UNCHANGED keys

Advanced(c, d) ==
  /\ c.at # End
  /\ d.map = c.map
  /\ d.passed = c.passed \union {c.at}
  /\ d.ahead = c.ahead \ {d.at} /\ (d.at = End <=> c.ahead = {})
  /\ d.at # End => d.at \in c.ahead

Forward(i) ==
  /\ Placed(i) /\ Placed(i)'
  /\ Advanced(cursor[i], cursor'[i])
  /\ \A j \in Iterators \ {i} : cursor'[j] = cursor[j]
  /\ UNCHANGED keys

Back(i) ==
  /\ Placed(i) /\ Placed(i)'
  /\ Advanced(cursor'[i], cursor[i])
  /\ \A j \in Iterators \ {i} : cursor'[j] = cursor[j]
  /\ UNCHANGED keys

Without(c, k) == [c EXCEPT !.passed = @ \ {k}, !.ahead = @ \ {k}]

(* Erase a key: one cursor that was at it, if it is the one that erased    *)
(* it, goes on to the next key; others at that key are dropped.            *)
Remove(m, k) ==
  /\ k \in keys[m]
  /\ keys' = [keys EXCEPT ![m] = @ \ {k}]
  /\ \A j \in Iterators \ OfMap(m) : cursor'[j] = cursor[j]
  /\ \A j \in OfMap(m) :
       IF cursor[j].at # k THEN cursor'[j] = Without(cursor[j], k)
       ELSE \/ cursor'[j] = NoCursor
            \/ Placed(j)' /\ Advanced(cursor[j], [cursor'[j] EXCEPT !.passed = @ \union {k}])

Rearrange(m) ==
  /\ \A n \in Maps \ {m} : keys'[n] = keys[n]
  /\ \A i \in Iterators \ OfMap(m) : cursor'[i] = cursor[i]
  /\ \A i \in OfMap(m) : cursor'[i] = NoCursor

Next ==
  \/ \E i \in Iterators : Place(i) \/ Forward(i) \/ Back(i)
  \/ \E m \in Maps, k \in Keys : Remove(m, k)
  \/ \E m \in Maps : Rearrange(m)

Step == [Next]_<<keys, cursor>>
Spec == Init /\ [][Next]_<<keys, cursor>>
=============================================================================
