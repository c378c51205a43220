------------------------------- MODULE TagArray -------------------------------
(***************************************************************************)
(* What a table of tags in fixed slots promises to threads that share it:  *)
(* an array, each of whose slots is written at once.                       *)
(***************************************************************************)
EXTENDS Naturals

CONSTANTS Indices, Slots, TagSets, Free

VARIABLE tags    \* tags[i][j]: the tag in slot j of bucket i, or Free

Init == tags = [i \in Indices |-> [j \in Slots |-> Free]]

Write(i, j, tag) == tags' = [tags EXCEPT ![i][j] = tag]

FirstWith(i, tag, j) == tags[i][j] = tag /\ \A k \in Slots : k < j => tags[i][k] # tag

\* A tag goes to the first free slot; in a full bucket it replaces any other.
Insert(i, tag) == \E j \in Slots :
    /\ FirstWith(i, Free, j) \/ \A k \in Slots : tags[i][k] # Free
    /\ Write(i, j, tag[j])

Delete(i, tag) == \E j \in Slots : FirstWith(i, tag, j) /\ Write(i, j, Free)

Next == \E i \in Indices, tag \in TagSets :
            Insert(i, tag) \/ \E j \in Slots : Delete(i, tag[j])

Step == [Next]_tags
Spec == Init /\ [][Next]_tags
=============================================================================
