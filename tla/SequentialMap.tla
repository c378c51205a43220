---------------------------- MODULE SequentialMap ----------------------------
(***************************************************************************)
(* A cuckoohash_map in the hands of its only user: the owner of all its    *)
(* locks (locked_table), or a program with one thread (the C interface).   *)
(* A map is a record [T, cnt, minload, maxhp]: the table, the element      *)
(* counters of the current lock container and the two limits. An operation *)
(* is a function of the map; [r, m, p] is what it answers, the map it      *)
(* leaves and the position it returns. The operations are recursive; what  *)
(* rebuilding a table comes to is a parameter of CuckooMap.                *)
(***************************************************************************)
EXTENDS CuckooTable

CONSTANT kMaxNumLocks   \* the largest lock container

(* One thread alone inserts, in this map or in the new one of              *)
(* cuckoo_expand_simple: the result is a table and how it ended;           *)
(* "livelock" is a path that is found again and again and can never be     *)
(* followed.                                                               *)
RECURSIVE Searched(_, _)
Searched(T, s) == IF s.status = "look" THEN Searched(T, LookAt(T, s)) ELSE s

RECURSIVE Filled(_, _, _, _)
Filled(T, path, n, start) ==
  IF n > Len(path) THEN path
  ELSE LET b == PathBucket(T.hp, path, n, start)
           seen == SeenAt(T, path, n, b)
       IN IF ~Occupied(T, Hop(seen, n)) THEN SubSeq(seen, 1, n)
                                        ELSE Filled(T, seen, n + 1, start)

RECURSIVE Moved(_, _, _)
Moved(T, path, n) ==
  IF n = 1 THEN {T}
  ELSE IF HopValid(T, path, n) THEN Moved(MoveHop(T, path, n), path, n - 1)
  ELSE {}

Inserted(T, p, e) == [end |-> "ok", T |-> Put(T, p, e)]
AlongPath(T, e, path) ==
  LET moved == Moved(T, path, Len(path))
  IN IF moved = {} THEN [end |-> "livelock", T |-> T]
                   ELSE Inserted(CHOOSE m \in moved : TRUE, Hop(path, 1), e)

(* InsertFull goes on from the search when both buckets are full.          *)
RECURSIVE InsertAlone(_, _, _, _), InsertFull(_, _, _, _, _)
InsertFull(T, e, minload, maxhp, s) ==
  IF s.status = "found"
    THEN AlongPath(T, e, Filled(T, Path(s), 1, StartBucket(s, I1(T.hp, e.k), I2(T.hp, e.k))))
  ELSE IF T.hp + 1 > maxhp THEN [end |-> "maximum_hashpower_exceeded", T |-> T]
  ELSE IF BelowLoad(Cardinality(Elements(T)), T.hp, minload)
    THEN [end |-> "load_factor_too_low", T |-> T]
  ELSE InsertAlone(DoubleTable(T), e, minload, maxhp)
InsertAlone(T, e, minload, maxhp) ==
  IF cuckoo_find(T, e.k) # {} THEN [end |-> "duplicate", T |-> T]
  ELSE IF FreeSlot(T, e.k) # {} THEN Inserted(T, CHOOSE p \in FreeSlot(T, e.k) : TRUE, e)
  ELSE InsertFull(T, e, minload, maxhp,
                  Searched(T, StartSearch(I1(T.hp, e.k), I2(T.hp, e.k))))

(* A new map filled with elements in the given order; n of them are in.    *)
WithElement(x, r) ==
  IF r.end = "ok" THEN [x EXCEPT !.T = r.T, !.n = @ + 1] ELSE [x EXCEPT !.end = r.end]
Rebuilt(N, es) ==
  FoldLeft(LAMBDA x, e : IF x.end # "ok" THEN x
                         ELSE WithElement(x, InsertAlone(x.T, e, DefaultMinLoad, NoMaximum)),
           [end |-> "ok", T |-> N, n |-> 0], es)

-----------------------------------------------------------------------------
Counters(n) == [l \in 1..(IF n < kMaxNumLocks THEN n ELSE kMaxNumLocks) |-> 0]

(* The constructor, for n elements.                                        *)
NewMap(n) ==
  [T |-> EmptyTable(reserve_calc(n)), cnt |-> Counters(hashsize[reserve_calc(n)]),
   minload |-> DefaultMinLoad, maxhp |-> NoMaximum]

Lock(b) == (b % kMaxNumLocks) + 1
Count(cnt, b, d) == [cnt EXCEPT ![Lock(b)] = @ + d]
size(m) == FoldSeq(LAMBDA x, y : x + y, 0, m.cnt)

(* maybe_resize_locks                                                      *)
Widened(cnt, buckets) ==
  LET new == Counters(buckets)
  IN [l \in 1..(IF Len(new) > Len(cnt) THEN Len(new) ELSE Len(cnt)) |->
        IF l <= Len(cnt) THEN cnt[l] ELSE 0]
WithTable(m, T) == [m EXCEPT !.T = T, !.cnt = Widened(@, hashsize[T.hp])]

add_to_bucket(m, p, e) == [m EXCEPT !.T = Put(@, p, e), !.cnt = Count(@, p[1], 1)]

del_from_bucket(m, p) == [m EXCEPT !.T = Put(@, p, Empty), !.cnt = Count(@, p[1], -1)]

EndPos(m) == <<hashsize[m.T.hp], 0>>
Found(m, k) == cuckoo_find(m.T, k)
find(m, k) == IF Found(m, k) = {} THEN EndPos(m) ELSE CHOOSE p \in Found(m, k) : TRUE

(* cuckoo_insert_loop and add_to_bucket. The table may have been doubled   *)
(* before the insertion gives up with an exception.                        *)
Outcome(m, end, grown, p) ==
  CASE end = "ok" -> [r |-> "inserted", p |-> p, m |-> [grown EXCEPT !.cnt = Count(@, p[1], 1)]]
    [] end = "duplicate" -> [r |-> "duplicate", p |-> p, m |-> m]
    [] OTHER -> [r |-> end, p |-> EndPos(grown), m |-> grown]
After(m, e, r) == Outcome(m, r.end, WithTable(m, r.T), find([m EXCEPT !.T = r.T], e.k))
Insert(m, e) == After(m, e, InsertAlone(m.T, e, m.minload, m.maxhp))

Erase(m, k) ==
  IF Found(m, k) = {} THEN [r |-> 0, m |-> m] ELSE [r |-> 1, m |-> del_from_bucket(m, find(m, k))]
Update(m, e) ==
  IF Found(m, e.k) = {} THEN [r |-> 0, m |-> m] ELSE [r |-> 1, m |-> [m EXCEPT !.T = Put(@, find(m, e.k), e)]]

cuckoo_clear(m) == [m EXCEPT !.T = EmptyTable(@.hp), !.cnt = [l \in DOMAIN @ |-> 0]]

Replaced(m, r) ==
  IF r.end = "ok" THEN [r |-> "resized", m |-> WithTable(m, r.T)] ELSE [r |-> r.end, m |-> m]

(* cuckoo_rehash: every outcome of a resize to hashpower p. Elements of    *)
(* trivial types are copied: a resize that fails leaves the old ones.      *)
Rehash(m, p) ==
  IF p = m.T.hp THEN {[r |-> "unchanged", m |-> m]}
  ELSE IF p > m.maxhp THEN {[r |-> "maximum_hashpower_exceeded", m |-> m]}
  ELSE {Replaced(m, Rebuilt(EmptyTable(p), [i \in DOMAIN order |-> At(m.T, order[i])])) :
          order \in SetToSeqs(Elements(m.T))}

minimum_load_factor(m, load) ==
  IF load[1] > load[2] THEN [r |-> "invalid_argument", m |-> m]
                       ELSE [r |-> "ok", m |-> [m EXCEPT !.minload = load]]
maximum_hashpower(m, n) ==
  IF m.T.hp > n THEN [r |-> "invalid_argument", m |-> m]
                ELSE [r |-> "ok", m |-> [m EXCEPT !.maxhp = n]]

-----------------------------------------------------------------------------
(* const_iterator: positions in order of bucket and slot.                  *)
Less(p, q) == p[1] < q[1] \/ (p[1] = q[1] /\ p[2] < q[2])
First(P) == CHOOSE p \in P : \A q \in P \ {p} : Less(p, q)
Final(P) == CHOOSE p \in P : \A q \in P \ {p} : Less(q, p)
Ahead(m, p) == {q \in Elements(m.T) : Less(p, q)}
Behind(m, p) == {q \in Elements(m.T) : Less(q, p)}

\* Mutant: the rest of the bucket is skipped.
increment_NextBucket(m, p) ==
  LET next == {q \in Ahead(m, p) : q[1] > p[1]}
  IN  IF next = {} THEN EndPos(m) ELSE First(next)

(* operator++: ++slot_, then forward to an occupied slot or the end.       *)
increment(m, p) == IF Ahead(m, p) = {} THEN EndPos(m) ELSE First(Ahead(m, p))
(* operator--: defined only where an element lies before the position.     *)
decrement(m, p) == Final(Behind(m, p))

\* Mutant: an iterator may start at an empty slot.
iterator_InPlace(m, p) == p

(* The constructor steps forward from an empty slot.                       *)
iterator(m, p) == IF p # EndPos(m) /\ ~Occupied(m.T, p) THEN increment(m, p) ELSE p

begin(m) == iterator(m, <<0, 0>>)
equal_range(m, k) ==
  IF find(m, k) = EndPos(m) THEN <<EndPos(m), EndPos(m)>>
                            ELSE <<find(m, k), increment(m, find(m, k))>>

(* What a loop from begin() to end() visits.                               *)
RECURSIVE Visited(_, _)
Visited(m, p) ==
  IF p = EndPos(m) THEN <<>> ELSE <<At(m.T, p)>> \o Visited(m, increment(m, p))
Listing(m) == Visited(m, begin(m))

\* Mutant: the sizes are not compared.
Equal_NoSizes(m, n) ==
  \A e \in ToSet(Listing(n)) :
    LET p == find(m, e.k) IN p # EndPos(m) /\ At(m.T, p).v = e.v

(* operator==                                                              *)
Equal(m, n) ==
  /\ size(m) = size(n)
  /\ \A e \in ToSet(Listing(n)) :
       LET p == find(m, e.k) IN p # EndPos(m) /\ At(m.T, p).v = e.v
(* operator!=                                                              *)
Unequal(m, n) ==
  \/ size(m) # size(n)
  \/ \E e \in ToSet(Listing(n)) :
       LET p == find(m, e.k) IN p = EndPos(m) \/ At(m.T, p).v # e.v

(* operator<<: the buckets, the size and the two limits.                   *)
Written(m) == [T |-> m.T, n |-> size(m), minload |-> m.minload, maxhp |-> m.maxhp]

\* Mutant: the counters keep what they counted.
Read_AddsSize(m, f) ==
  maximum_hashpower(
    [m EXCEPT !.T = f.T,
              !.cnt = [Widened(@, hashsize[f.T.hp]) EXCEPT ![1] = @ + f.n],
              !.minload = f.minload],
    f.maxhp)

(* operator>>: the counters are reset, the size goes to the first one. A   *)
(* maximum below the hashpower is refused after everything else was read.  *)
Read(m, f) ==
  maximum_hashpower(
    [m EXCEPT !.T = f.T,
              !.cnt = [l \in DOMAIN Widened(@, hashsize[f.T.hp]) |-> IF l = 1 THEN f.n ELSE 0],
              !.minload = f.minload],
    f.maxhp)

-----------------------------------------------------------------------------
Contents(m) == {At(m.T, p) : p \in Elements(m.T)}
(* The counters of a map add up to its elements and cover its buckets, and *)
(* every key is stored once, in one of its buckets.                        *)
Sound(m) ==
  /\ size(m) = Cardinality(Elements(m.T))
  /\ \A b \in BucketsOf(m.T.hp) : Lock(b) \in DOMAIN m.cnt
  /\ AtHome(m.T)
=============================================================================
