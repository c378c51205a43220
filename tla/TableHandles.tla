----------------------------- MODULE TableHandles -----------------------------
(***************************************************************************)
(* Who owns the locks of a map: locked_tables take them all, hand them on  *)
(* when moved, and give them back when unlocked, destroyed or assigned to. *)
(* LockedTable adds what they do with the map and its iterators.           *)
(***************************************************************************)
CONSTANTS Maps, Handles, NoMap

VARIABLES
  locked,   \* the maps whose locks are all taken
  lt        \* every handle: the map it refers to and whether it is active

HandlesInit ==
  /\ locked = {}
  /\ lt = [h \in Handles |-> [ref |-> NoMap, active |-> FALSE]]

Ref(h) == lt[h].ref
Active(h) == lt[h].active

TakeLocks(h, m) ==
  /\ ~Active(h) /\ m \notin locked
  /\ lt' = [lt EXCEPT ![h] = [ref |-> m, active |-> TRUE]]
  /\ locked' = locked \union {m}

\* Mutant: nothing is unlocked.
Unlocked_Never(h) == locked

Unlocked(h) == IF Active(h) THEN locked \ {Ref(h)} ELSE locked
GiveBack(h) ==
  /\ locked' = Unlocked(h)
  /\ lt' = [lt EXCEPT ![h].active = FALSE]

(* The locks change hands. A handle assigned to itself has unlocked before *)
(* it takes over its own locks.                                            *)
HandOver(h, g) ==
  /\ locked' = Unlocked(h)
  /\ lt' = IF h = g THEN [lt EXCEPT ![h].active = FALSE]
                    ELSE [lt EXCEPT ![h] = lt[g], ![g].active = FALSE]

HandlesNext == \E h \in Handles :
  \/ \E m \in Maps : TakeLocks(h, m)
  \/ GiveBack(h)
  \/ \E g \in Handles : HandOver(h, g)
HandlesSpec == HandlesInit /\ [][HandlesNext]_<<locked, lt>>

-----------------------------------------------------------------------------
(* The locks of a map have one owner: an active handle refers to a locked  *)
(* map, no other active handle refers to the same, and no map stays locked *)
(* without a handle that could unlock it (locked_table's moves, unlock).   *)
OneOwner ==
  /\ \A h \in DOMAIN lt : Active(h) => Ref(h) \in locked
  /\ \A g, h \in DOMAIN lt : Active(g) /\ Active(h) /\ Ref(g) = Ref(h) => g = h
  /\ \A m \in locked : \E h \in DOMAIN lt : Active(h) /\ Ref(h) = m
=============================================================================
