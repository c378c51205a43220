------------------------------ MODULE TagBuckets ------------------------------
(***************************************************************************)
(* What a tag table that is free to order its slots promises: every bucket *)
(* is a bag of at most Room tags.  A tag that does not fit is refused, or  *)
(* takes the place of one that is handed back.                             *)
(***************************************************************************)
EXTENDS Naturals, FiniteSets

CONSTANTS Indices, Tags, Room, Nothing

VARIABLES
    copies,  \* <<i, tag, k>> is in it iff bucket i holds k copies of tag or more
    reply    \* the last call, what it answered, and the tag it displaced

Reply(i, tag, ok, oldtag) == [i |-> i, tag |-> tag, ok |-> ok, oldtag |-> oldtag]

In(i) == {c \in copies : c[1] = i}
Held(i) == {c[2] : c \in In(i)}
Count(i, tag) == Cardinality({c \in In(i) : c[2] = tag})

Last(i, tag) == {<<i, tag, Count(i, tag)>>}
Another(i, tag) == {<<i, tag, Count(i, tag) + 1>>}
Full(i) == Cardinality(In(i)) = Room

Init == copies = {} /\ reply = Reply(Nothing, Nothing, TRUE, Nothing)

Insert(i, tag) == /\ reply' = Reply(i, tag, TRUE, Nothing)
                  /\ ~Full(i)
                  /\ copies' = copies \cup Another(i, tag)

Refuse(i, tag) == /\ reply' = Reply(i, tag, FALSE, Nothing)
                  /\ Full(i)
                  /\ UNCHANGED copies

Displace(i, tag, old) == /\ reply' = Reply(i, tag, FALSE, old)
                         /\ Full(i)
                         /\ old \in Held(i)
                         /\ copies' = IF old = tag THEN copies
                                      ELSE (copies \ Last(i, old)) \cup Another(i, tag)

Delete(i, tag) == /\ reply' = Reply(i, tag, TRUE, Nothing)
                  /\ tag \in Held(i)
                  /\ copies' = copies \ Last(i, tag)

Miss(i, tag) == /\ reply' = Reply(i, tag, FALSE, Nothing)
                /\ tag \notin Held(i)
                /\ UNCHANGED copies

Next == \E i \in Indices, tag \in Tags :
            /\ reply'.tag = tag /\ reply'.i = i
            /\ \/ Insert(i, tag) \/ Refuse(i, tag) \/ Delete(i, tag) \/ Miss(i, tag)
               \/ \E old \in Tags : Displace(i, tag, old)

Spec == Init /\ [][Next]_<<copies, reply>>
=============================================================================
