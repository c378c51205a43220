------------------------------ MODULE CuckooMap ------------------------------
(***************************************************************************)
(* cuckoohash_map as several threads use it. What a thread does while it   *)
(* holds the locks of its buckets, or all locks, is one step: the module   *)
(* CuckooMapLocks shows when those locks exclude. Everything that happens  *)
(* between two such sections is a step of its own: the search for a cuckoo *)
(* path locks one bucket at a time, the path is followed hop by hop, and   *)
(* the table may change, or be resized, in between.                        *)
(***************************************************************************)
EXTENDS CuckooTable

CONSTANTS
  Threads,
  Vals,
  Calls,           \* the operations the threads may call, see below
  Start,           \* the table the map starts with
  kMaxNumLocks,    \* the largest lock container
  MinLoad,         \* minimum_load_factor() as <<num, den>>
  InitMaximum,     \* maximum_hashpower() at the start
  NothrowTypes,    \* are keys and values nothrow move constructible?
  TrivialTypes,    \* does moving an element leave it as it was?
  MaxCalls,        \* bound: calls per thread
  Rebuild(_, _)    \* what becomes of a table when elements are inserted into it
                   \* in the given order, as SequentialMap has it: [end, T, n]

(* A call is [op |-> "apply", k, fn, v] (find, contains, update and erase  *)
(* in all their forms), [op |-> "uprase", k, fn, v] (insert,               *)
(* insert_or_assign, upsert), [op |-> "resize", n] (rehash; reserve of as  *)
(* many elements as fit into hashpower n), clear, size and, for            *)
(* maximum_hashpower(n), [op |-> "limit", n].                              *)
NoCall == [op |-> "none"]
NoValue == "no value"
AllCalls ==
  [op : {"apply", "uprase"}, k : Keys, fn : {"keep", "assign", "erase"}, v : Vals]
    \union [op : {"resize"}, by : {"rehash", "reserve"}, n : Nat]
    \union [op : {"limit"}, n : Nat] \union [op : {"clear", "size"}]

ASSUME MapAssumption ==
  /\ Calls \subseteq AllCalls /\ NoValue \notin Vals
  /\ IsTable(Start, Vals) /\ AtHome(Start)
  /\ kMaxNumLocks \in Nat \ {0}
  /\ NothrowTypes \in BOOLEAN /\ TrivialTypes \in BOOLEAN

NoAnswer == [r |-> "none"]
Answer(r, v) == [r |-> r, v |-> v]
Number(n) == [r |-> "number", n |-> n]

VARIABLES
  tbl,                \* buckets_
  all_locks,          \* all_locks_: the element counters of every lock container
  maximum_hashpower,  \* maximum_hashpower_
  loc                 \* where each thread is, and its local variables

vars == <<tbl, all_locks, maximum_hashpower, loc>>

Idle == [pc |-> "idle", call |-> NoCall, answer |-> NoAnswer, hp |-> 0, i1 |-> 0, i2 |-> 0,
         s |-> Dequeue(<<>>), path |-> <<>>, n |-> 0, sum |-> 0, left |-> 0]

Go(t, l) == loc' = [loc EXCEPT ![t] = l]
(* The call has taken effect: only its return is left.                     *)
Reply(t, answer) ==
  Go(t, [Idle EXCEPT !.pc = "done", !.call = loc[t].call, !.answer = answer,
                     !.left = loc[t].left])
Answered(t, r, v) == Reply(t, Answer(r, v))

lock_ind(b) == b % kMaxNumLocks
Current == Len(all_locks)

Counted(b, d) == [all_locks EXCEPT ![Current][lock_ind(b) + 1] = @ + d]
Sum(c) ==
  LET upto[n \in 0..Len(c)] == IF n = 0 THEN 0 ELSE upto[n - 1] + c[n] IN upto[Len(c)]
size == Sum(all_locks[Current])

(* What Rebuild has to be: elements that all have different keys either    *)
(* all get into a new map, or the insertion of one of them throws or never *)
(* returns.                                                                *)
Exceptions == {"load_factor_too_low", "maximum_hashpower_exceeded"}
Distinct(es) == \A i, j \in 1..Len(es) : es[i].k = es[j].k => i = j
RebuiltRight(p, es) ==
  LET r == Rebuild(EmptyTable(p), es) IN
  Distinct(es) =>
    /\ r.end \in {"ok", "livelock"} \union Exceptions
    /\ r.end = "ok" => /\ IsTable(r.T, Vals) /\ AtHome(r.T)
                       /\ Stored(r.T) = {es[i] : i \in 1..Len(es)}

(* A thread that livelocks while it rebuilds the table holds every lock    *)
(* for good.                                                               *)
LocksFree == \A t \in Threads : loc[t].pc # "hung"

(* The size of a lock container for a table of hashpower p.                *)
LocksWanted(p) == IF hashsize[p] < kMaxNumLocks THEN hashsize[p] ELSE kMaxNumLocks

Init ==
  /\ tbl = Start
  /\ all_locks = <<[l \in 1..LocksWanted(tbl.hp) |->
                      Cardinality({p \in Elements(tbl) : lock_ind(p[1]) + 1 = l})]>>
  /\ maximum_hashpower = InitMaximum
  /\ loc = [t \in Threads |-> [Idle EXCEPT !.left = MaxCalls]]

Begin(t) ==
  /\ loc[t].pc = "idle" /\ loc[t].left > 0
  /\ \E c \in Calls :
       Go(t, [Idle EXCEPT !.pc = c.op, !.call = c, !.left = loc[t].left - 1])
  /\ UNCHANGED <<tbl, all_locks, maximum_hashpower>>

Return(t) ==
  /\ loc[t].pc = "done"
  /\ Go(t, [Idle EXCEPT !.left = loc[t].left])
  /\ UNCHANGED <<tbl, all_locks, maximum_hashpower>>

-----------------------------------------------------------------------------
(* The element of the call's key is at p of table T: apply the function.  *)
Visit(t, T, p) ==
  LET c == loc[t].call IN
  /\ tbl' = CASE c.fn = "keep" -> T
              [] c.fn = "assign" -> Put(T, p, Elem(c.k, c.v))
              [] c.fn = "erase" -> Put(T, p, Empty)
  /\ all_locks' = IF c.fn = "erase" THEN Counted(p[1], -1) ELSE all_locks
  /\ Answered(t, "found", At(T, p).v)

(* add_to_bucket *)
Add(t, T, p) ==
  /\ tbl' = Put(T, p, Elem(loc[t].call.k, loc[t].call.v))
  /\ all_locks' = Counted(p[1], 1)
  /\ Answered(t, "inserted", NoValue)

(* find_fn, update_fn, erase_fn: both buckets are locked throughout.       *)
Apply(t) ==
  LET found == cuckoo_find(tbl, loc[t].call.k) IN
  /\ loc[t].pc = "apply" /\ LocksFree
  /\ \/ \E p \in found : Visit(t, tbl, p)
     \/ found = {} /\ Answered(t, "absent", NoValue) /\ UNCHANGED <<tbl, all_locks>>
  /\ UNCHANGED maximum_hashpower

(* cuckoo_insert with the locks of both buckets; when they are full the    *)
(* locks are given up and run_cuckoo searches.                             *)
cuckoo_insert(t) ==
  LET k == loc[t].call.k
      found == cuckoo_find(tbl, k)
      free == FreeSlot(tbl, k)
  IN
  /\ loc[t].pc = "uprase" /\ LocksFree
  /\ \/ \E p \in found : Visit(t, tbl, p)
     \/ found = {} /\ \E p \in free : Add(t, tbl, p)
     \/ /\ found = {} /\ free = {}
        /\ Go(t, [loc[t] EXCEPT !.pc = "search", !.hp = tbl.hp,
                    !.i1 = I1(tbl.hp, k), !.i2 = I2(tbl.hp, k),
                    !.s = StartSearch(I1(tbl.hp, k), I2(tbl.hp, k))])
        /\ UNCHANGED <<tbl, all_locks>>
  /\ UNCHANGED maximum_hashpower

(* hashpower_changed: back to the locks of the key's new buckets.          *)
Again(t) == [Idle EXCEPT !.pc = "uprase", !.call = loc[t].call, !.left = loc[t].left]

HashpowerChanged(t) == tbl.hp # loc[t].hp

SearchStep(t) ==
  LET s == LookAt(tbl, loc[t].s) IN
  /\ loc[t].pc = "search" /\ LocksFree
  /\ CASE HashpowerChanged(t) -> Go(t, Again(t))
       [] ~HashpowerChanged(t) /\ s.status = "look" -> Go(t, [loc[t] EXCEPT !.s = s])
       [] ~HashpowerChanged(t) /\ s.status = "failed" ->
            Go(t, [Again(t) EXCEPT !.pc = "double", !.hp = loc[t].hp])
       [] ~HashpowerChanged(t) /\ s.status = "found" ->
            Go(t, [loc[t] EXCEPT !.pc = "path", !.s = s, !.path = Path(s), !.n = 1])
  /\ UNCHANGED <<tbl, all_locks, maximum_hashpower>>

(* cuckoopath_search, one bucket at a time; it stops at an empty slot.     *)
PathStep(t) ==
  LET n == loc[t].n
      b == PathBucket(loc[t].hp, loc[t].path, n, StartBucket(loc[t].s, loc[t].i1, loc[t].i2))
      seen == SeenAt(tbl, loc[t].path, n, b)
  IN
  /\ loc[t].pc = "path" /\ LocksFree
  /\ IF HashpowerChanged(t) THEN Go(t, Again(t))
     ELSE IF n < Len(seen) /\ Occupied(tbl, Hop(seen, n))
       THEN Go(t, [loc[t] EXCEPT !.path = seen, !.n = n + 1])
     ELSE Go(t, [loc[t] EXCEPT !.pc = "move", !.path = seen, !.s = Idle.s])
  /\ UNCHANGED <<tbl, all_locks, maximum_hashpower>>

(* cuckoopath_move, one hop at a time. The last hop holds the locks of the *)
(* insert's own buckets, which stay locked for the duplicate check and the *)
(* insertion. A hop that is not valid any more starts a new search.        *)
Restart(t) ==
  Go(t, [loc[t] EXCEPT !.pc = "search", !.path = <<>>, !.n = 0,
                       !.s = StartSearch(loc[t].i1, loc[t].i2)])

\* Mutant: nobody else can have inserted the key meanwhile.
Arrived_Unchecked(t, T, p) == Add(t, T, p)

(* Slot p is free, and the locks of the key's buckets are held again.      *)
Arrived(t, T, p) ==
  LET found == cuckoo_find(T, loc[t].call.k) IN
  \/ found = {} /\ Add(t, T, p)
  \/ \E q \in found : Visit(t, T, q)

MoveStep(t) ==
  LET path == loc[t].path
      n == loc[t].n
      T == IF n = 1 THEN tbl ELSE MoveHop(tbl, path, n)
  IN
  /\ loc[t].pc = "move" /\ LocksFree
  /\ \/ HashpowerChanged(t) /\ Go(t, Again(t)) /\ UNCHANGED <<tbl, all_locks>>
     \/ /\ ~HashpowerChanged(t)
        /\ IF n = 1 THEN Occupied(tbl, Hop(path, 1)) ELSE ~HopValid(tbl, path, n)
        /\ Restart(t) /\ UNCHANGED <<tbl, all_locks>>
     \/ /\ ~HashpowerChanged(t) /\ n > 2 /\ HopValid(tbl, path, n)
        /\ tbl' = T
        /\ Go(t, [loc[t] EXCEPT !.n = n - 1])
        /\ UNCHANGED all_locks
     \/ /\ ~HashpowerChanged(t)
        /\ IF n = 1 THEN ~Occupied(tbl, Hop(path, 1)) ELSE n = 2 /\ HopValid(tbl, path, 2)
        /\ Arrived(t, T, Hop(path, 1))
  /\ UNCHANGED maximum_hashpower

-----------------------------------------------------------------------------
(* Resizing, with every lock held.                                         *)

(* check_resize_validity, up to the comparison with the old hashpower.     *)
Invalid(p, automatic) ==
  IF p > maximum_hashpower THEN {"maximum_hashpower_exceeded"}
  ELSE IF automatic /\ BelowLoad(size, tbl.hp, MinLoad) THEN {"load_factor_too_low"}
  ELSE {}

\* Mutant: the new container's counters start at zero.
LocksFor_Zero(p) ==
  LET n == LocksWanted(p)
  IN IF Len(all_locks[Current]) >= n THEN all_locks
     ELSE Append(all_locks, [l \in 1..n |-> 0])

(* maybe_resize_locks: a larger container takes over the counters.         *)
LocksFor(p) ==
  LET n == LocksWanted(p)
      c == all_locks[Current]
  IN IF Len(c) >= n THEN all_locks
     ELSE Append(all_locks, [l \in 1..n |-> IF l <= Len(c) THEN c[l] ELSE 0])

Throw(t, T, es) == \E e \in es : Answered(t, e, NoValue) /\ tbl' = T /\ UNCHANGED all_locks

(* cuckoo_expand_simple: the elements are moved into a new map of          *)
(* hashpower p, in any order since several threads share the work; when    *)
(* that throws, those already moved are left behind as moved-from objects. *)
MovedFrom(e) == IF TrivialTypes THEN e ELSE Elem("moved", "moved")
Abandoned(T, P) ==
  [T EXCEPT !.slots = [b \in DOMAIN @ |-> [s \in DOMAIN @[b] |->
     IF <<b, s>> \in P THEN MovedFrom(@[b][s]) ELSE @[b][s]]]]
Replace(t, order, r, resized) ==
  CASE r.end = "ok" ->
         tbl' = r.T /\ all_locks' = LocksFor(r.T.hp) /\ Go(t, resized)
    [] r.end = "livelock" ->
         Go(t, [loc[t] EXCEPT !.pc = "hung"]) /\ UNCHANGED <<tbl, all_locks>>
    [] OTHER ->
         Throw(t, Abandoned(tbl, {order[i] : i \in 1..r.n}), {r.end})
cuckoo_expand_simple(t, p, automatic, resized) ==
  LET bad == Invalid(p, automatic) IN
  \/ Throw(t, tbl, bad)
  \/ /\ bad = {}
     /\ \E order \in SetToSeqs(Elements(tbl)) :
          Replace(t, order, Rebuild(EmptyTable(p), [i \in DOMAIN order |-> At(tbl, order[i])]),
                  resized)

(* An insertion has found the table full at the hashpower it read.         *)
cuckoo_fast_double(t) ==
  LET p == loc[t].hp + 1
      bad == Invalid(p, TRUE)
  IN
  /\ loc[t].pc = "double" /\ LocksFree
  /\ \/ ~NothrowTypes /\ cuckoo_expand_simple(t, p, TRUE, Again(t))
     \/ NothrowTypes /\ Throw(t, tbl, bad)
     \/ NothrowTypes /\ bad = {} /\ HashpowerChanged(t) /\ Go(t, Again(t)) /\ UNCHANGED <<tbl, all_locks>>
     \/ /\ NothrowTypes /\ bad = {} /\ ~HashpowerChanged(t)
        /\ tbl' = DoubleTable(tbl)
        /\ all_locks' = LocksFor(p)
        /\ Go(t, Again(t))
  /\ UNCHANGED maximum_hashpower

(* cuckoo_rehash and cuckoo_reserve read the hashpower without a lock.     *)
Target(c) == IF c.by = "reserve" THEN reserve_calc(c.n) ELSE c.n
cuckoo_rehash(t) ==
  /\ loc[t].pc = "resize"
  /\ IF Target(loc[t].call) = tbl.hp THEN Answered(t, "unchanged", NoValue)
                                      ELSE Go(t, [loc[t] EXCEPT !.pc = "expand"])
  /\ UNCHANGED <<tbl, all_locks, maximum_hashpower>>

Expand(t) ==
  /\ loc[t].pc = "expand" /\ LocksFree
  /\ cuckoo_expand_simple(t, Target(loc[t].call), FALSE,
       [Idle EXCEPT !.pc = "done", !.call = loc[t].call,
                    !.answer = Answer("resized", NoValue), !.left = loc[t].left])
  /\ UNCHANGED maximum_hashpower

cuckoo_clear(t) ==
  /\ loc[t].pc = "clear" /\ LocksFree
  /\ tbl' = EmptyTable(tbl.hp)
  /\ all_locks' = [all_locks EXCEPT ![Current] = [l \in DOMAIN @ |-> 0]]
  /\ Answered(t, "cleared", NoValue)
  /\ UNCHANGED maximum_hashpower

-----------------------------------------------------------------------------
(* size() adds up the counters without any lock, one after the other, in   *)
(* the container that is current when it starts.                           *)
BeginSize(t) ==
  /\ loc[t].pc = "size"
  /\ Go(t, [loc[t] EXCEPT !.pc = "sum", !.hp = Current, !.n = 1])
  /\ UNCHANGED <<tbl, all_locks, maximum_hashpower>>

SizeStep(t) ==
  LET c == all_locks[loc[t].hp]
      n == loc[t].n
  IN
  /\ loc[t].pc = "sum"
  /\ IF n <= Len(c) THEN Go(t, [loc[t] EXCEPT !.sum = @ + c[n], !.n = n + 1])
                     ELSE Reply(t, Number(loc[t].sum))
  /\ UNCHANGED <<tbl, all_locks, maximum_hashpower>>

(* maximum_hashpower(n) compares with the hashpower, then stores.          *)
LimitCheck(t) ==
  /\ loc[t].pc = "limit"
  /\ IF tbl.hp > loc[t].call.n THEN Reply(t, Number(0))
                               ELSE Go(t, [loc[t] EXCEPT !.pc = "store"])
  /\ UNCHANGED <<tbl, all_locks, maximum_hashpower>>

LimitStore(t) ==
  /\ loc[t].pc = "store"
  /\ maximum_hashpower' = loc[t].call.n
  /\ Reply(t, Number(1))
  /\ UNCHANGED <<tbl, all_locks>>

-----------------------------------------------------------------------------
Locked(t) ==
  \/ Apply(t) \/ cuckoo_insert(t) \/ SearchStep(t) \/ PathStep(t) \/ MoveStep(t)
  \/ cuckoo_fast_double(t) \/ Expand(t) \/ cuckoo_clear(t)
Unlocked(t) ==
  \/ Begin(t) \/ Return(t) \/ cuckoo_rehash(t) \/ BeginSize(t) \/ SizeStep(t)
  \/ LimitCheck(t) \/ LimitStore(t)
Step(t) == Locked(t) \/ Unlocked(t)
Next == \E t \in Threads : Step(t)
Spec == Init /\ [][Next]_vars
FairSpec == Spec /\ \A t \in Threads : WF_vars(Step(t))

-----------------------------------------------------------------------------
(* The table and the counters keep their shape: a slot holds nothing or an *)
(* element, and there is a counter for every bucket up to the maximum.     *)
TypeOK ==
  /\ IsTable(tbl, Vals)
  /\ Len(all_locks[Current]) <= kMaxNumLocks
  /\ \A b \in BucketsOf(tbl.hp) : lock_ind(b) + 1 \in DOMAIN all_locks[Current]

(* A key is stored at most once, in one of its two buckets: two inserts of *)
(* the same key that both searched for room, hops of other threads' paths  *)
(* and resizes in between never duplicate or misplace it (run_cuckoo).     *)
UniqueHome == AtHome(tbl)

(* The counters of the current container add up to the number of elements, *)
(* although hops and resizes move elements from one lock's buckets to      *)
(* another's without touching them (size).                                 *)
SizeExact == size = Cardinality(Elements(tbl))

(* Every call returns.                                                     *)
CallsReturn == \A t \in Threads : loc[t].pc # "idle" ~> loc[t].pc = "idle"

(* An insertion refuses for the load factor only when there is no room for *)
(* its key (cuckoo_insert_loop).                                           *)
RefusedWhenFull ==
  [][\A t \in Threads :
       loc[t].pc = "double" /\ loc'[t].answer.r = "load_factor_too_low"
         => FreeSlot(tbl, loc[t].call.k) = {}]_vars

(* A resize that throws leaves the elements as they were                   *)
(* (cuckoo_expand_simple).                                                 *)
StrongGuarantee ==
  [][\A t \in Threads :
       loc[t].pc = "expand" /\ loc'[t].answer.r \in Exceptions
         => tbl' = tbl]_vars

(* No expansion, explicit or automatic, takes the table beyond the maximum *)
(* hashpower (maximum_hashpower).                                          *)
MaximumRespected == [][tbl'.hp > tbl.hp => tbl'.hp <= maximum_hashpower]_vars

(* What size() returns is a number of elements (its assertion s >= 0).     *)
SizeNotNegative == \A t \in Threads : loc[t].answer.r = "number" => loc[t].answer.n >= 0

(* The map as its callers see it: every operation is atomic.               *)
ValueOf(k) ==
  LET P == {p \in Elements(tbl) : At(tbl, p).k = k}
  IN IF P = {} THEN NoValue ELSE At(tbl, CHOOSE p \in P : TRUE).v
Atomic == INSTANCE AtomicMap WITH
  map <- [k \in Keys |-> ValueOf(k)],
  call <- [t \in Threads |-> loc[t].call],
  answer <- [t \in Threads |-> loc[t].answer]
AtomicCalls == Atomic!Spec
=============================================================================
