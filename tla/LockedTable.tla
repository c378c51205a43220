----------------------------- MODULE LockedTable -----------------------------
(***************************************************************************)
(* locked_table: a handle that owns all locks of a cuckoohash_map until it *)
(* is unlocked, moved from or assigned to, and its iterators. Maps that no *)
(* active handle owns are left alone; the threads that wait for their      *)
(* locks are the business of CuckooMapLocks.                               *)
(***************************************************************************)
EXTENDS SequentialMap, TableHandles

CONSTANTS
  Iterators,
  Vals,
  Preload,      \* the elements every map starts with
  InitHp,       \* their hashpower
  Hashpowers,   \* bound: arguments of rehash
  Limits,       \* bound: arguments of maximum_hashpower
  Traversable,  \* bound: the maps that are traversed
  Writable,     \* bound: the maps that are written to a stream
  Zero,         \* the value-initialized mapped value, T()
  NoIterator

VARIABLES
  map,      \* the maps
  it,       \* every iterator: a map and a position
  file,     \* what a handle has written to a stream
  hung      \* the handles one of whose calls never returns

vars == <<map, locked, lt, it, file, hung>>

Empties(hp) == [NewMap(0) EXCEPT !.T = EmptyTable(hp), !.cnt = Counters(hashsize[hp])]
Init ==
  /\ map = [m \in Maps |-> FoldLeft(LAMBDA n, e : Insert(n, e).m, Empties(InitHp), Preload[m])]
  /\ HandlesInit
  /\ it = [i \in Iterators |-> NoIterator]
  /\ file = <<>>
  /\ hung = {}

Map(h) == map[Ref(h)]
Over(m) == {i \in Iterators : it[i] # NoIterator /\ it[i].ref = m}
Iter(m, p) == [ref |-> m, pos |-> p]
Drop(I) == [i \in Iterators |-> IF i \in I THEN NoIterator ELSE it[i]]

lock_table(h, m) == TakeLocks(h, m) /\ UNCHANGED <<map, it, file, hung>>

(* The iterators of a handle end with its locks.                           *)
EndIterators(h) ==
  /\ it' = IF Active(h) THEN Drop(Over(Ref(h))) ELSE it
  /\ UNCHANGED <<map, file, hung>>
unlock(h) == GiveBack(h) /\ EndIterators(h)

(* The iterators of the table that is moved stay valid.                    *)
move_assign(h, g) == HandOver(h, g) /\ EndIterators(h)

-----------------------------------------------------------------------------
(* Iterators: begin, end and find place one, ++ and -- move it.            *)
Place(h, i) ==
  /\ Active(h) /\ Ref(h) \in Traversable
  /\ \E p \in {begin(Map(h)), EndPos(Map(h))} \union {find(Map(h), k) : k \in Keys}
              \union {equal_range(Map(h), k)[2] : k \in Keys} :
       it' = [it EXCEPT ![i] = Iter(Ref(h), p)]
  /\ UNCHANGED <<map, locked, lt, file, hung>>

Move(i, p) == it' = [it EXCEPT ![i].pos = p] /\ UNCHANGED <<map, locked, lt, file, hung>>
Increment(i) ==
  /\ it[i] # NoIterator
  /\ it[i].pos # EndPos(map[it[i].ref])
  /\ Move(i, increment(map[it[i].ref], it[i].pos))
Decrement(i) ==
  /\ it[i] # NoIterator
  /\ Behind(map[it[i].ref], it[i].pos) # {}
  /\ Move(i, decrement(map[it[i].ref], it[i].pos))

(* Every change of a map goes through an active handle. A call that looks  *)
(* for the same path for ever is the last one of its handle.               *)
Ends(h, r, m) ==
  /\ map' = [map EXCEPT ![Ref(h)] = m]
  /\ hung' = IF r = "livelock" THEN hung \union {h} ELSE hung
  /\ UNCHANGED <<locked, lt, file>>
Change(h, m) == Ends(h, "ok", m)
At_(h, p) == {j \in Over(Ref(h)) : it[j].pos = p}

erase_it(h, i) ==
  /\ Active(h) /\ i \in Over(Ref(h)) /\ it[i].pos # EndPos(Map(h))
  /\ LET m == del_from_bucket(Map(h), it[i].pos) IN
       /\ Change(h, m)
       /\ it' = [Drop(At_(h, it[i].pos)) EXCEPT ![i] = Iter(Ref(h), iterator(m, it[i].pos))]

erase(h, k) ==
  /\ Active(h) /\ Found(Map(h), k) # {}
  /\ Change(h, Erase(Map(h), k).m)
  /\ it' = Drop(At_(h, find(Map(h), k)))

(* insert, and operator[] which assigns to what it has found or inserted.  *)
insert(h, k, v) ==
  /\ Active(h)
  /\ LET r == Insert(Map(h), Elem(k, v)) IN Ends(h, r.r, r.m)
  /\ it' = Drop(Over(Ref(h)))

Assigned(r, e) ==
  IF r.r \in {"inserted", "duplicate"} THEN [r.m EXCEPT !.T = Put(@, r.p, e)] ELSE r.m
subscript(h, k, v) ==
  /\ Active(h)
  /\ LET r == Insert(Map(h), Elem(k, Zero)) IN Ends(h, r.r, Assigned(r, Elem(k, v)))
  /\ it' = Drop(Over(Ref(h)))

clear(h) ==
  /\ Active(h)
  /\ Change(h, cuckoo_clear(Map(h)))
  /\ it' = Drop(Over(Ref(h)))

rehash(h, n) ==
  /\ Active(h)
  /\ \E r \in Rehash(Map(h), n) : Ends(h, r.r, r.m)
  /\ it' = Drop(Over(Ref(h)))

limits(h, n) ==
  /\ Active(h)
  /\ Change(h, maximum_hashpower(Map(h), n).m)
  /\ UNCHANGED it

write(h) ==
  /\ Active(h) /\ Ref(h) \in Writable
  /\ file' = <<Written(Map(h))>>
  /\ UNCHANGED <<map, locked, lt, it, hung>>

read(h) ==
  /\ Active(h) /\ file # <<>>
  /\ Change(h, Read(Map(h), file[1]).m)
  /\ it' = Drop(Over(Ref(h)))

Handle(h) ==
  \/ \E m \in Maps : lock_table(h, m)
  \/ unlock(h)
  \/ \E g \in Handles \ hung : move_assign(h, g)
Iterate(h) ==
  \E i \in Iterators : Place(h, i) \/ Increment(i) \/ Decrement(i) \/ erase_it(h, i)
Modify(h) ==
  \/ \E k \in Keys : erase(h, k) \/ \E v \in Vals : insert(h, k, v) \/ subscript(h, k, v)
  \/ \E n \in Hashpowers : rehash(h, n)
  \/ \E n \in Limits : limits(h, n)
  \/ clear(h) \/ write(h) \/ read(h)
Next == \E h \in Handles \ hung : Handle(h) \/ Iterate(h) \/ Modify(h)
Spec == Init /\ [][Next]_vars

-----------------------------------------------------------------------------
(* Every variable keeps to its type; an iterator belongs to a locked map   *)
(* and points to an element or to the end, whatever was erased.            *)
TypeOK ==
  /\ locked \subseteq Maps /\ hung \subseteq Handles
  /\ \A h \in Handles : Ref(h) \in Maps \union {NoMap} /\ Active(h) \in BOOLEAN
  /\ \A i \in Iterators : it[i] # NoIterator =>
       /\ it[i].ref \in locked
       /\ it[i].pos \in Elements(map[it[i].ref].T) \union {EndPos(map[it[i].ref])}

(* Erasing, inserting, resizing and reading a stream leave every map       *)
(* sound: exact counters that cover all buckets, unique keys at home.      *)
MapsSound == \A m \in Maps : Sound(map[m])

(* operator== and operator!= tell equal contents, whatever the hashpowers, *)
(* positions and counters of the two maps.                                 *)
EqualityIsContents ==
  \A m \in Maps : \A n \in Maps \ {m} :
    LET same == Contents(map[m]) = Contents(map[n]) IN
      /\ Equal(map[m], map[n]) <=> same
      /\ Unequal(map[m], map[n]) <=> ~same

(* The iterators implement cursors: a traversal visits every element once, *)
(* in both directions and whatever is erased on the way.                   *)
KeyAt(m, p) == At(map[m].T, p).k
KeysAt(m, P) == {KeyAt(m, p) : p \in P}
Cursor == INSTANCE TableCursor WITH
  NoCursor <- NoIterator,
  End <- NoMap,
  keys <- [m \in Maps |-> KeysAt(m, Elements(map[m].T))],
  cursor <- [i \in Iterators |->
    IF it[i] = NoIterator THEN NoIterator
    ELSE LET m == it[i].ref p == it[i].pos IN
         [map |-> m, passed |-> KeysAt(m, Behind(map[m], p)), ahead |-> KeysAt(m, Ahead(map[m], p)),
          at |-> IF p = EndPos(map[m]) THEN NoMap ELSE KeyAt(m, p)]]
TraversalsExact == Cursor!Spec
=============================================================================
