---------------------------- MODULE LocksProofs ----------------------------
(***************************************************************************)
(* Proofs about CuckooMapLocks, for every number of threads, of resizers,  *)
(* of locks and of hashpowers: locks exist and lie in their container      *)
(* (TypeOK, IndexInContainer) and are taken in one order (LockOrder),      *)
(* whoever resizes and however; and with one resizer that only grows the   *)
(* map, buckets that are locked stay the right ones (Exclusion).           *)
(***************************************************************************)
EXTENDS CuckooMapLocks, TLAPS

Owners == {"lockall", "all", "swap", "unlockall"}

(* A bucket container is reached by at most three buckets at a time, so    *)
(* that a thread's lock indices have a smallest one.                       *)
ThreeBuckets ==
  \A t \in Threads : \E i1, i2, i3 \in Nat : buckets[t] \subseteq {i1, i2, i3}

(* The current container has a lock for every bucket of the map, of the    *)
(* map a resizer is about to make and of the map a thread has seen.        *)
Sizes ==
  /\ \A c \in 1..Current : all_locks[c] >= 1
  /\ Smaller(kMaxNumLocks, hashsize(hashpower)) <= all_locks[Current]
  /\ \A t \in Threads :
       /\ cont[t] \in 1..Current
       /\ pc[t] = "swap" =>
            Smaller(kMaxNumLocks, hashsize(target[t])) <= all_locks[Current]
       /\ pc[t] = "locks" => \A l \in LockInds(t) : l < all_locks[Current]

(* What an operation believes to have locked, and that it holds no more.   *)
Taken ==
  \A t \in Threads :
    /\ taken[t] \subseteq LockInds(t)
    /\ pc[t] \in {"locks", "first", "check", "rest"} => buckets[t] # {}
    /\ pc[t] \notin {"check", "rest", "unlock"} => taken[t] = {}
    /\ pc[t] = "check" => taken[t] = {Min(LockInds(t))}
    /\ pc[t] = "rest" => \A l \in taken[t] : \A w \in Todo(t) : l < w
HeldIsTaken ==
  \A h \in held : pc[h[3]] \notin Owners => h[1] = cont[h[3]] /\ h[2] \in taken[h[3]]

(* What a walk over the lock containers has behind it and before it.       *)
Walks ==
  /\ \A t \in Threads : pc[t] = "lockall" =>
       /\ cont[t] <= pos[t][1]
       /\ pos[t][2] = 0 \/ (pos[t][1] <= Current /\ pos[t][2] < all_locks[pos[t][1]])
  /\ \A h \in held :
       /\ pc[h[3]] \in {"lockall", "all", "swap"} => cont[h[3]] <= h[1]
       /\ pc[h[3]] = "lockall" => Before(h, pos[h[3]])
       /\ pc[h[3]] = "unlockall" => ~Before(h, pos[h[3]])

OrderInv ==
  /\ TypeOK /\ ThreeBuckets /\ Sizes /\ IndexInContainer /\ Taken /\ HeldIsTaken /\ Walks

-----------------------------------------------------------------------------
(* One resizer, which only grows the map.                                  *)
GrowsAlone == ~Shrinks /\ \A r, s \in Resizers : r = s

(* A lock has one holder, and who takes or walks over locks holds them.    *)
OneHolder ==
  \A g, h \in held : g[1] = h[1] /\ g[2] = h[2] => g[3] = h[3]
TakenIsHeld ==
  \A t \in Threads : \A l \in taken[t] : <<cont[t], l, t>> \in held
Owned ==
  /\ \A t \in Threads : pc[t] \in Owners => t \in Resizers
  /\ \A t \in Threads : pc[t] = "lockall" => cont[t] = Current
  /\ \A t \in Threads : \A c \in 1..Current : \A l \in 0..all_locks[c] - 1 :
       \/ pc[t] \in {"all", "swap"} /\ cont[t] <= c
       \/ pc[t] = "lockall" /\ cont[t] <= c /\ Before(<<c, l>>, pos[t])
       \/ pc[t] = "unlockall" /\ ~Before(<<c, l>>, pos[t])
       => <<c, l, t>> \in held

(* A hashpower that is still the map's was read together with the current  *)
(* container, unless a resizer that holds the container is about to swap.  *)
Seen ==
  \A t \in Threads :
    /\ hp[t] <= hashpower
    /\ pc[t] = "swap" => hashpower < target[t]
    /\ pc[t] = "rest" => hp[t] = hashpower /\ cont[t] = Current /\ taken[t] # {}
    /\ pc[t] \in {"first", "check"} /\ hp[t] = hashpower =>
         cont[t] = Current \/ \E r \in Threads : pc[r] = "swap" /\ cont[r] <= cont[t]

GrowthInv == OneHolder /\ TakenIsHeld /\ Owned /\ Seen

-----------------------------------------------------------------------------
(* Indices.                                                                *)
LEMMA LeastOfThree ==
  ASSUME NEW i1 \in Nat, NEW i2 \in Nat, NEW i3 \in Nat,
         NEW S, S \subseteq {i1, i2, i3}, S # {}
  PROVE  /\ Min(S) \in S
         /\ \A x \in S : Min(S) <= x
<1> DEFINE Least(i) == i \in S /\ \A y \in S : i <= y
<1>1. CASE i1 \in S /\ (i2 \in S => i1 <= i2) /\ (i3 \in S => i1 <= i3)
  <2>1. Least(i1)
    BY <1>1
  <2>2. QED  BY <2>1 DEF Min
<1>2. CASE i2 \in S /\ (i1 \in S => i2 <= i1) /\ (i3 \in S => i2 <= i3)
  <2>1. Least(i2)
    BY <1>2
  <2>2. QED  BY <2>1 DEF Min
<1>3. CASE i3 \in S /\ (i1 \in S => i3 <= i1) /\ (i2 \in S => i3 <= i2)
  <2>1. Least(i3)
    BY <1>3
  <2>2. QED  BY <2>1 DEF Min
<1>4. i1 \in S \/ i2 \in S \/ i3 \in S
  OBVIOUS
<1>5. QED  BY <1>1, <1>2, <1>3, <1>4

LEMMA LockIndType ==
  ASSUME NEW b \in Nat PROVE lock_ind(b) \in Nat
BY LocksAssumption DEF lock_ind

LEMMA LockIndBound ==
  ASSUME NEW p \in 0..MaxHp, NEW b \in 0..hashsize(p) - 1
  PROVE  lock_ind(b) < Smaller(kMaxNumLocks, hashsize(p))
<1>1. hashsize(p) \in Nat
  BY PowersAssumption
<1>2. b % kMaxNumLocks < kMaxNumLocks /\ b % kMaxNumLocks <= b
  BY <1>1, LocksAssumption
<1>3. QED  BY <1>1, <1>2, LocksAssumption DEF lock_ind, Smaller

LEMMA SizeType ==
  ASSUME NEW p \in 0..MaxHp
  PROVE  Smaller(kMaxNumLocks, hashsize(p)) \in Nat \ {0}
BY PowersAssumption, LocksAssumption DEF Smaller

(* The least of a thread's lock indices is one of them.                    *)
LEMMA LeastLock ==
  ASSUME TypeOK, ThreeBuckets, NEW t \in Threads,
         NEW S, S \subseteq LockInds(t), S # {}
  PROVE  /\ Min(S) \in S
         /\ Min(S) \in Nat
         /\ \A l \in S : l \in Nat /\ Min(S) <= l
<1>1. PICK i1, i2, i3 \in Nat : buckets[t] \subseteq {i1, i2, i3}
  BY DEF ThreeBuckets
<1>2. /\ lock_ind(i1) \in Nat /\ lock_ind(i2) \in Nat /\ lock_ind(i3) \in Nat
  BY LockIndType
<1>3. S \subseteq {lock_ind(i1), lock_ind(i2), lock_ind(i3)}
  BY <1>1 DEF LockInds
<1>4. Min(S) \in S /\ \A l \in S : Min(S) <= l
  BY <1>2, <1>3, LeastOfThree
<1>5. QED  BY <1>2, <1>3, <1>4

LEMMA Containers ==
  ASSUME TypeOK
  PROVE  /\ Current \in Nat \ {0}
         /\ \A c \in 1..Current : all_locks[c] \in Nat
BY DEF TypeOK, Current

(* Taking a lock that exists leaves held well typed.                       *)
LEMMA HeldType ==
  ASSUME TypeOK, NEW t \in Threads, NEW c \in 1..Current, NEW l \in Nat, l < all_locks[c],
         held' = held \union {<<c, l, t>>}
  PROVE  /\ held' \subseteq Nat \X Nat \X Threads
         /\ \A h \in held' : h[1] \in 1..Current /\ h[2] < all_locks[h[1]]
         /\ \A h \in held' : h \in held \/ (h[1] = c /\ h[2] = l /\ h[3] = t)
<1>1. Current \in Nat
  BY Containers
<1>2. <<c, l, t>> \in Nat \X Nat \X Threads
  BY <1>1
<1>3. /\ held \subseteq Nat \X Nat \X Threads
      /\ \A h \in held : h[1] \in 1..Current /\ h[2] < all_locks[h[1]]
  BY DEF TypeOK
<1>4. \A h \in held' : h \in held \/ h = <<c, l, t>>
  OBVIOUS
<1>5. held' \subseteq Nat \X Nat \X Threads
  BY <1>2, <1>3
<1>6. \A h \in held' : h \in held \/ (h[1] = c /\ h[2] = l /\ h[3] = t)
  BY <1>4
<1>7. QED  BY <1>3, <1>5, <1>6

LEMMA InitOrder == Init => OrderInv
<1> SUFFICES ASSUME Init PROVE OrderInv
  OBVIOUS
<1> USE DEF Init
<1>1. Smaller(kMaxNumLocks, hashsize(InitHp)) \in Nat \ {0} /\ Current = 1
  BY SizeType, LocksAssumption DEF Current
<1>2. TypeOK
  BY <1>1, LocksAssumption DEF TypeOK, PC, Current
<1>3. ThreeBuckets /\ IndexInContainer /\ Taken /\ HeldIsTaken /\ Walks
  BY DEF ThreeBuckets, IndexInContainer, Taken, HeldIsTaken, Walks, LockInds
<1>4. Sizes
  BY <1>1 DEF Sizes
<1>5. QED  BY <1>2, <1>3, <1>4 DEF OrderInv

-----------------------------------------------------------------------------
(* One lemma per action: it preserves OrderInv.                            *)
LEMMA BeginOrder ==
  ASSUME OrderInv, NEW t \in Threads, Begin(t) PROVE OrderInv'
<1> USE DEF OrderInv, Begin, Goto
<1>0. pc' = [pc EXCEPT ![t] = "snapshot"] /\ pc[t] = "idle" /\ pc \in [Threads -> PC]
  BY DEF TypeOK
<1>1. TypeOK'
  BY LocksAssumption, SMTT(30) DEF TypeOK, PC, Current
<1>2. ThreeBuckets' /\ IndexInContainer'
  BY <1>0 DEF ThreeBuckets, IndexInContainer, LockInds
<1>3. Sizes'
  BY <1>0 DEF Sizes, Current, LockInds
<1>4. Taken'
  BY <1>0 DEF Taken, LockInds, Todo
<1>5. HeldIsTaken'
  BY <1>0 DEF HeldIsTaken, Owners, TypeOK
<1>6. Walks'
  BY <1>0, ZenonT(60) DEF Walks, Current, Before, TypeOK
<1>7. QED  BY <1>1, <1>2, <1>3, <1>4, <1>5, <1>6

LEMMA SnapshotOrder ==
  ASSUME OrderInv, NEW t \in Threads, Snapshot(t) PROVE OrderInv'
<1> USE DEF OrderInv, Snapshot, Goto
<1>0. pc' = [pc EXCEPT ![t] = "locks"] /\ pc[t] = "snapshot" /\ pc \in [Threads -> PC]
  BY DEF TypeOK
<1>1. PICK i1, i2, i3 \in 0..hashsize(hashpower) - 1 :
        buckets' = [buckets EXCEPT ![t] = {i1, i2, i3}]
  OBVIOUS
<1>2. hashpower \in 0..MaxHp /\ hashsize(hashpower) \in Nat \ {0}
  BY PowersAssumption DEF TypeOK
<1>3. i1 \in Nat /\ i2 \in Nat /\ i3 \in Nat
  BY <1>2
<1>4. buckets'[t] = {i1, i2, i3} /\ \A u \in Threads \ {t} : buckets'[u] = buckets[u]
  BY <1>1 DEF TypeOK
<1>5. TypeOK'
  BY <1>1, <1>2, <1>3, ZenonT(60) DEF TypeOK, PC, Current
<1>6. ThreeBuckets'
  BY <1>3, <1>4 DEF ThreeBuckets
<1>7. IndexInContainer'
  BY <1>0, <1>4 DEF IndexInContainer, LockInds
<1>8. \A l \in LockInds(t)' : l \in Nat /\ l < all_locks[Current]
  <2>1. \A b \in {i1, i2, i3} :
          /\ lock_ind(b) \in Nat
          /\ lock_ind(b) < Smaller(kMaxNumLocks, hashsize(hashpower))
    BY <1>2, <1>3, LockIndType, LockIndBound
  <2>2. Smaller(kMaxNumLocks, hashsize(hashpower)) \in Nat /\ all_locks[Current] \in Nat
    BY <1>2, SizeType, Containers
  <2>3. QED  BY <1>4, <2>1, <2>2 DEF LockInds, Sizes
<1>9. Sizes'
  BY <1>0, <1>4, <1>8 DEF Sizes, Current, LockInds
<1>10. Taken'
  BY <1>0, <1>4 DEF Taken, LockInds, Todo
<1>11. HeldIsTaken'
  BY <1>0 DEF HeldIsTaken, Owners, TypeOK
<1>12. Walks'
  BY <1>0, ZenonT(60) DEF Walks, Current, Before, TypeOK
<1>13. QED  BY <1>5, <1>6, <1>7, <1>9, <1>10, <1>11, <1>12

LEMMA GetLocksOrder ==
  ASSUME OrderInv, NEW t \in Threads, GetLocks(t) PROVE OrderInv'
<1> USE DEF OrderInv, GetLocks, Goto
<1>0. pc' = [pc EXCEPT ![t] = "first"] /\ pc[t] = "locks" /\ pc \in [Threads -> PC]
  BY DEF TypeOK
<1>1. /\ cont' = [cont EXCEPT ![t] = Current]
      /\ cont'[t] = Current
      /\ \A u \in Threads \ {t} : cont'[u] = cont[u]
      /\ Current \in 1..Current
  BY DEF TypeOK, Current
<1>2. TypeOK'
  BY <1>1, SMTT(30) DEF TypeOK, PC, Current
<1>3. ThreeBuckets'
  BY DEF ThreeBuckets
<1>4. IndexInContainer'
  BY <1>0, <1>1 DEF IndexInContainer, LockInds, Sizes
<1>5. Sizes'
  BY <1>0, <1>1 DEF Sizes, Current, LockInds
<1>6. Taken'
  BY <1>0 DEF Taken, LockInds, Todo
<1>7. HeldIsTaken'
  BY <1>0, <1>1 DEF HeldIsTaken, Owners, TypeOK, Taken
<1>8. Walks'
  <2>1. \A u \in Threads : pc'[u] \in {"lockall", "all", "swap", "unlockall"} =>
          pc'[u] = pc[u] /\ cont'[u] = cont[u]
    BY <1>0, <1>1
  <2>2. \A h \in held : h[3] \in Threads
    BY DEF TypeOK
  <2>3. held' = held /\ pos' = pos /\ all_locks' = all_locks
    OBVIOUS
  <2>4. Walks
    OBVIOUS
  <2> HIDE DEF OrderInv, GetLocks, Goto
  <2>5. \A u \in Threads : pc'[u] = "lockall" =>
          /\ cont'[u] <= pos'[u][1]
          /\ pos'[u][2] = 0 \/ (pos'[u][1] <= Current' /\ pos'[u][2] < all_locks'[pos'[u][1]])
    BY <2>1, <2>3, <2>4 DEF Walks, Current
  <2>6. QED
    BY <2>1, <2>2, <2>3, <2>4, <2>5 DEF Walks, Before
<1>9. QED  BY <1>2, <1>3, <1>4, <1>5, <1>6, <1>7, <1>8

LEMMA LockFirstOrder ==
  ASSUME OrderInv, NEW t \in Threads, LockFirst(t) PROVE OrderInv'
<1> USE DEF OrderInv
<1> DEFINE l == Min(LockInds(t))
<1>1. /\ pc' = [pc EXCEPT ![t] = "check"] /\ pc[t] = "first" /\ pc \in [Threads -> PC]
      /\ held' = held \union {<<cont[t], l, t>>}
      /\ UNCHANGED <<hashpower, all_locks, hp, cont, buckets, pos, target, left>>
  BY DEF TypeOK, LockFirst, Goto
<1>2. l \in LockInds(t) /\ l \in Nat /\ l < all_locks[cont[t]]
  <2>1. LockInds(t) # {}
    BY <1>1 DEF Taken, LockInds
  <2>2. QED  BY <1>1, <2>1, LeastLock DEF IndexInContainer
<1>3. /\ taken' = [taken EXCEPT ![t] = {l}]
      /\ taken'[t] = {l} /\ \A u \in Threads \ {t} : taken'[u] = taken[u]
  <2>1. taken[t] = {}
    BY <1>1 DEF Taken
  <2>2. QED  BY <2>1 DEF LockFirst, TypeOK
<1>4. LockInds(t)' = LockInds(t) /\ Min(LockInds(t)') = l
  BY <1>1 DEF LockInds
<1> HIDE DEF l
<1>5. /\ held' \subseteq Nat \X Nat \X Threads
      /\ \A h \in held' : h[1] \in 1..Current /\ h[2] < all_locks[h[1]]
      /\ \A h \in held' : h \in held \/ (h[1] = cont[t] /\ h[2] = l /\ h[3] = t)
  <2>1. cont[t] \in 1..Current
    BY DEF Sizes
  <2>2. QED  BY <1>1, <1>2, <2>1, HeldType
<1>6. TypeOK'
  <2>1. taken' \in [Threads -> SUBSET Nat] /\ pc' \in [Threads -> PC]
    BY <1>1, <1>2, <1>3 DEF TypeOK, PC
  <2>2. QED  BY <1>1, <1>5, <2>1 DEF TypeOK, Current
<1>7. ThreeBuckets' /\ IndexInContainer' /\ Sizes'
  BY <1>1 DEF ThreeBuckets, IndexInContainer, LockInds, Sizes, Current
<1>8. Taken'
  BY <1>1, <1>2, <1>3, <1>4 DEF Taken, LockInds, Todo
<1>9. HeldIsTaken'
  BY <1>1, <1>3, <1>5, ZenonT(60) DEF HeldIsTaken, Owners, TypeOK, Taken
<1>10. Walks'
  <2>1. \A u \in Threads : pc'[u] \in Owners => pc[u] = pc'[u] /\ u # t
    BY <1>1 DEF Owners
  <2>2. \A h \in held' : h[3] \in Threads /\ (h \in held \/ h[3] = t)
    BY <1>5 DEF TypeOK
  <2>3. QED  BY <1>1, <2>1, <2>2 DEF Walks, Current, Before, Owners
<1>11. QED  BY <1>6, <1>7, <1>8, <1>9, <1>10

LEMMA CheckOrder ==
  ASSUME OrderInv, NEW t \in Threads, check_hashpower(t) PROVE OrderInv'
<1> USE DEF OrderInv
<1>1. /\ pc[t] = "check" /\ pc \in [Threads -> PC] /\ pc' \in [Threads -> PC]
      /\ pc'[t] \in {"rest", "snapshot"}
      /\ \A u \in Threads \ {t} : pc'[u] = pc[u]
      /\ UNCHANGED <<hashpower, all_locks, hp, cont, buckets, pos, target, left>>
  BY DEF TypeOK, PC, check_hashpower, Goto
<1>2. taken[t] = {Min(LockInds(t))} /\ Min(LockInds(t)) \in LockInds(t)
  BY <1>1, LeastLock DEF Taken, LockInds
<1>3. /\ taken' \in [Threads -> SUBSET Nat] /\ held' \subseteq held
      /\ pc'[t] = "rest" => taken' = taken /\ held' = held
      /\ pc'[t] = "snapshot" =>
           taken'[t] = {} /\ held' = Without(cont[t], Min(LockInds(t)))
      /\ \A u \in Threads \ {t} : taken'[u] = taken[u]
  BY <1>1 DEF check_hashpower, Goto, TypeOK, Without
<1>4. TypeOK'
  BY <1>1, <1>3 DEF TypeOK, Current
<1>5. ThreeBuckets' /\ IndexInContainer' /\ Sizes'
  BY <1>1 DEF ThreeBuckets, IndexInContainer, LockInds, Sizes, Current
<1>6. Taken'
  <2>1. \A w \in LockInds(t) : w \in Nat /\ Min(LockInds(t)) <= w
    BY <1>2, LeastLock
  <2>2. \A u \in Threads : LockInds(u)' = LockInds(u)
    BY <1>1 DEF LockInds
  <2>3. pc'[t] = "rest" => \A l \in taken'[t] : \A w \in Todo(t)' : l < w
    BY <1>2, <1>3, <2>1, <2>2 DEF Todo
  <2>4. QED  BY <1>1, <1>2, <1>3, <2>2, <2>3 DEF Taken, Todo
<1>7. HeldIsTaken'
  <2>1. \A h \in held' : h[3] \in Threads /\ h \in held
    BY <1>3 DEF TypeOK
  <2>2. \A h \in held' : h[3] = t => pc'[t] = "rest"
    BY <1>1, <1>2, <1>3, <2>1 DEF HeldIsTaken, Without, Owners
  <2>3. QED  BY <1>1, <1>3, <2>1, <2>2 DEF HeldIsTaken, Owners
<1>8. Walks'
  <2>1. \A h \in held' : h[3] \in Threads /\ h \in held
    BY <1>3 DEF TypeOK
  <2>2. QED  BY <1>1, <2>1 DEF Walks, Current, Before
<1>9. QED  BY <1>4, <1>5, <1>6, <1>7, <1>8

LEMMA LockNextOrder ==
  ASSUME OrderInv, NEW t \in Threads, LockNext(t) PROVE OrderInv'
<1> USE DEF OrderInv
<1> DEFINE l == Min(Todo(t))
<1>1. /\ pc[t] = "rest" /\ Todo(t) # {}
      /\ held' = held \union {<<cont[t], l, t>>}
      /\ taken' = [taken EXCEPT ![t] = @ \union {l}]
      /\ UNCHANGED <<hashpower, all_locks, pc, hp, cont, buckets, pos, target, left>>
  BY DEF LockNext
<1>2. /\ l \in Todo(t) /\ l \in LockInds(t) /\ l \in Nat /\ l < all_locks[cont[t]]
      /\ \A w \in Todo(t) : w \in Nat /\ l <= w
  <2>1. Todo(t) \subseteq LockInds(t)
    BY DEF Todo
  <2>2. QED  BY <1>1, <2>1, LeastLock DEF IndexInContainer
<1>3. /\ taken'[t] = taken[t] \union {l} /\ \A u \in Threads \ {t} : taken'[u] = taken[u]
      /\ \A u \in Threads : LockInds(u)' = LockInds(u)
  BY <1>1 DEF TypeOK, LockInds
<1>4. \A w \in taken'[t] : \A v \in Todo(t)' : w < v
  <2>1. \A v \in Todo(t)' : v \in Todo(t) /\ v # l
    BY <1>3 DEF Todo
  <2>2. \A w \in taken[t] : \A v \in Todo(t) : w < v
    BY <1>1 DEF Taken
  <2>3. \A v \in Todo(t)' : l < v
    BY <1>2, <2>1
  <2>4. QED  BY <1>3, <2>1, <2>2, <2>3
<1> HIDE DEF l
<1>5. /\ held' \subseteq Nat \X Nat \X Threads
      /\ \A h \in held' : h[1] \in 1..Current /\ h[2] < all_locks[h[1]]
      /\ \A h \in held' : h \in held \/ (h[1] = cont[t] /\ h[2] = l /\ h[3] = t)
  <2>1. cont[t] \in 1..Current
    BY DEF Sizes
  <2>2. QED  BY <1>1, <1>2, <2>1, HeldType
<1>6. TypeOK'
  <2>1. taken' \in [Threads -> SUBSET Nat]
    BY <1>1, <1>2 DEF TypeOK
  <2>2. QED  BY <1>1, <1>5, <2>1 DEF TypeOK, Current
<1>7. ThreeBuckets' /\ IndexInContainer' /\ Sizes'
  BY <1>1 DEF ThreeBuckets, IndexInContainer, LockInds, Sizes, Current
<1>8. Taken'
  BY <1>1, <1>2, <1>3, <1>4, ZenonT(60) DEF Taken, Todo
<1>9. HeldIsTaken'
  BY <1>1, <1>3, <1>5 DEF HeldIsTaken, TypeOK
<1>10. Walks'
  BY <1>1, <1>5 DEF Walks, Current, Before
<1>11. QED  BY <1>6, <1>7, <1>8, <1>9, <1>10

LEMMA StartUnlockOrder ==
  ASSUME OrderInv, NEW t \in Threads, StartUnlock(t) PROVE OrderInv'
<1> USE DEF OrderInv
<1>1. /\ pc[t] = "rest" /\ pc \in [Threads -> PC] /\ pc' = [pc EXCEPT ![t] = "unlock"]
      /\ UNCHANGED <<hashpower, all_locks, held, taken, hp, cont, buckets, pos, target, left>>
  BY DEF TypeOK, StartUnlock, Goto, Working
<1>2. TypeOK'
  BY <1>1 DEF TypeOK, Current, PC
<1>3. ThreeBuckets' /\ IndexInContainer' /\ Sizes'
  BY <1>1 DEF ThreeBuckets, IndexInContainer, LockInds, Sizes, Current
<1>4. Taken'
  BY <1>1 DEF Taken, LockInds, Todo
<1>5. HeldIsTaken'
  BY <1>1 DEF HeldIsTaken, Owners, TypeOK
<1>6. Walks'
  BY <1>1 DEF Walks, Current, Before, TypeOK
<1>7. QED  BY <1>2, <1>3, <1>4, <1>5, <1>6

LEMMA UnlockOneOrder ==
  ASSUME OrderInv, NEW t \in Threads, UnlockOne(t) PROVE OrderInv'
<1> USE DEF OrderInv
<1>1. PICK l \in taken[t] :
        /\ pc[t] = "unlock"
        /\ held' = Without(cont[t], l)
        /\ taken' = [taken EXCEPT ![t] = @ \ {l}]
        /\ UNCHANGED <<hashpower, all_locks, pc, hp, cont, buckets, pos, target, left>>
  BY DEF UnlockOne
<1>2. /\ taken'[t] = taken[t] \ {l} /\ \A u \in Threads \ {t} : taken'[u] = taken[u]
      /\ taken' \in [Threads -> SUBSET Nat]
      /\ \A h \in held' : h \in held /\ h[3] \in Threads /\ (h[1] # cont[t] \/ h[2] # l)
  BY <1>1 DEF TypeOK, Without
<1>3. TypeOK'
  BY <1>1, <1>2 DEF TypeOK, Current
<1>4. ThreeBuckets' /\ IndexInContainer' /\ Sizes'
  BY <1>1 DEF ThreeBuckets, IndexInContainer, LockInds, Sizes, Current
<1>5. Taken'
  BY <1>1, <1>2 DEF Taken, LockInds, Todo
<1>6. HeldIsTaken'
  BY <1>1, <1>2 DEF HeldIsTaken
<1>7. Walks'
  BY <1>1, <1>2 DEF Walks, Current, Before
<1>8. QED  BY <1>3, <1>4, <1>5, <1>6, <1>7

LEMMA ReturnOrder ==
  ASSUME OrderInv, NEW t \in Threads, Return(t) PROVE OrderInv'
<1> USE DEF OrderInv
<1>1. /\ pc[t] = "unlock" /\ pc \in [Threads -> PC] /\ pc' = [pc EXCEPT ![t] = "idle"]
      /\ taken[t] = {} /\ buckets' = [buckets EXCEPT ![t] = {}]
      /\ UNCHANGED <<hashpower, all_locks, held, taken, hp, cont, pos, target, left>>
  BY DEF TypeOK, Return, Goto
<1>2. buckets'[t] = {} /\ \A u \in Threads \ {t} : buckets'[u] = buckets[u]
  BY <1>1 DEF TypeOK
<1>3. TypeOK'
  BY <1>1 DEF TypeOK, Current, PC
<1>4. ThreeBuckets' /\ IndexInContainer' /\ Sizes'
  <2>1. ThreeBuckets'
    BY <1>2 DEF ThreeBuckets
  <2>2. QED  BY <1>1, <1>2, <2>1 DEF IndexInContainer, LockInds, Sizes, Current
<1>5. Taken'
  BY <1>1, <1>2 DEF Taken, LockInds, Todo
<1>6. HeldIsTaken'
  BY <1>1 DEF HeldIsTaken, Owners, TypeOK
<1>7. Walks'
  BY <1>1 DEF Walks, Current, Before, TypeOK
<1>8. QED  BY <1>3, <1>4, <1>5, <1>6, <1>7

LEMMA BeginAllOrder ==
  ASSUME OrderInv, NEW t \in Threads, BeginAll(t) PROVE OrderInv'
<1> USE DEF OrderInv
<1>1. /\ pc[t] = "idle" /\ pc \in [Threads -> PC] /\ pc' = [pc EXCEPT ![t] = "lockall"]
      /\ left[t] > 0 /\ left' = [left EXCEPT ![t] = @ - 1]
      /\ cont' = [cont EXCEPT ![t] = Current]
      /\ pos' = [pos EXCEPT ![t] = <<Current, 0>>]
      /\ UNCHANGED <<hashpower, all_locks, held, taken, hp, buckets, target>>
  BY DEF TypeOK, BeginAll, Goto
<1>2. /\ cont'[t] = Current /\ pos'[t] = <<Current, 0>>
      /\ \A u \in Threads \ {t} : cont'[u] = cont[u] /\ pos'[u] = pos[u]
      /\ Current' = Current /\ Current \in 1..Current /\ Current \in Nat
      /\ cont' \in [Threads -> Nat] /\ pos' \in [Threads -> Nat \X Nat]
  <2>1. Current \in Nat /\ Current \in 1..Current
    BY Containers
  <2>2. Current' = Current
    BY <1>1 DEF Current
  <2>3. <<Current, 0>> \in Nat \X Nat
    BY <2>1
  <2>4. cont \in [Threads -> Nat] /\ pos \in [Threads -> Nat \X Nat]
    BY DEF TypeOK
  <2>5. QED  BY <1>1, <2>1, <2>2, <2>3, <2>4
<1>3. TypeOK'
  <2>1. pc' \in [Threads -> PC] /\ left' \in [Threads -> 0..MaxCalls]
    BY <1>1, LocksAssumption DEF TypeOK, PC
  <2>2. QED  BY <1>1, <1>2, <2>1 DEF TypeOK
<1>4. ThreeBuckets' /\ IndexInContainer' /\ Sizes'
  BY <1>1, <1>2 DEF ThreeBuckets, IndexInContainer, LockInds, Sizes
<1>5. Taken'
  BY <1>1 DEF Taken, LockInds, Todo
<1>6. \A h \in held : h[3] \in Threads \ {t}
  BY <1>1 DEF HeldIsTaken, Taken, TypeOK, Owners
<1>7. HeldIsTaken'
  BY <1>1, <1>2, <1>6 DEF HeldIsTaken, Owners
<1>8. Walks'
  BY <1>1, <1>2, <1>6, Containers DEF Walks, Before, Sizes
<1>9. QED  BY <1>3, <1>4, <1>5, <1>7, <1>8

(* The place after p: no lock lies between, and it exists when its         *)
(* container does.                                                         *)
LEMMA FollowingPlace ==
  ASSUME TypeOK, Sizes, NEW p \in Nat \X Nat, p[1] \in 1..Current, p[2] < all_locks[p[1]]
  PROVE  /\ Following(p) \in Nat \X Nat
         /\ p[1] <= Following(p)[1]
         /\ Following(p)[2] = 0
              \/ (Following(p)[1] <= Current /\ Following(p)[2] < all_locks[Following(p)[1]])
         /\ Before(p, Following(p))
         /\ \A c \in 1..Current : \A l \in Nat :
              l < all_locks[c] =>
                (Before(<<c, l>>, Following(p)) <=> Before(<<c, l>>, p) \/ (c = p[1] /\ l = p[2]))
<1>1. /\ p[1] \in Nat /\ p[2] \in Nat /\ Current \in Nat
      /\ \A c \in 1..Current : all_locks[c] \in Nat /\ all_locks[c] >= 1
  BY Containers DEF Sizes
<1>2. CASE p[2] + 1 < all_locks[p[1]]
  <2>1. Following(p) = <<p[1], p[2] + 1>>
    BY <1>2 DEF Following
  <2>2. QED  BY <1>1, <1>2, <2>1 DEF Before
<1>3. CASE ~(p[2] + 1 < all_locks[p[1]])
  <2>1. Following(p) = <<p[1] + 1, 0>> /\ p[2] + 1 = all_locks[p[1]]
    BY <1>1, <1>3 DEF Following
  <2>2. QED  BY <1>1, <2>1 DEF Before
<1>4. QED  BY <1>2, <1>3

LEMMA LockAllNextOrder ==
  ASSUME OrderInv, NEW t \in Threads, LockAllNext(t) PROVE OrderInv'
<1> USE DEF OrderInv
<1> DEFINE p == pos[t]
<1>1. /\ pc[t] = "lockall" /\ p[1] <= Current
      /\ held' = held \union {<<p[1], p[2], t>>}
      /\ pos' = [pos EXCEPT ![t] = Following(p)]
      /\ UNCHANGED <<hashpower, all_locks, taken, pc, hp, cont, buckets, target, left>>
  BY DEF LockAllNext
<1>2. /\ p \in Nat \X Nat /\ p[1] \in Nat /\ p[2] \in Nat
      /\ p[1] \in 1..Current /\ p[2] < all_locks[p[1]]
      /\ cont[t] \in Nat /\ cont[t] <= p[1] /\ Current \in Nat
  BY <1>1, Containers, SMTT(30) DEF TypeOK, Walks, Sizes
<1>3. /\ Following(p) \in Nat \X Nat /\ Following(p)[1] \in Nat
      /\ p[1] <= Following(p)[1]
      /\ Following(p)[2] = 0
           \/ (Following(p)[1] <= Current /\ Following(p)[2] < all_locks[Following(p)[1]])
      /\ Before(p, Following(p))
      /\ \A c \in 1..Current : \A l \in Nat :
           l < all_locks[c] =>
             (Before(<<c, l>>, Following(p)) <=> Before(<<c, l>>, p) \/ (c = p[1] /\ l = p[2]))
  BY <1>2, FollowingPlace
<1>4. /\ pos'[t] = Following(p) /\ \A u \in Threads \ {t} : pos'[u] = pos[u]
      /\ pos' \in [Threads -> Nat \X Nat]
  BY <1>1, <1>3 DEF TypeOK
<1> HIDE DEF p
<1>5. /\ held' \subseteq Nat \X Nat \X Threads
      /\ \A h \in held' : h[1] \in 1..Current /\ h[2] < all_locks[h[1]]
      /\ \A h \in held' : h \in held \/ (h[1] = p[1] /\ h[2] = p[2] /\ h[3] = t)
  BY <1>1, <1>2, HeldType
<1>6. TypeOK'
  BY <1>1, <1>4, <1>5 DEF TypeOK, Current
<1>7. ThreeBuckets' /\ IndexInContainer' /\ Sizes' /\ Taken'
  BY <1>1 DEF ThreeBuckets, IndexInContainer, LockInds, Sizes, Current, Taken, Todo
<1>8. HeldIsTaken'
  BY <1>1, <1>5 DEF HeldIsTaken, TypeOK, Owners
<1>9. Walks'
  <2>1. \A h \in held' : h[3] = t => cont[t] <= h[1] /\ Before(h, Following(p))
    <3> SUFFICES ASSUME NEW h \in held', h[3] = t
                 PROVE  cont[t] <= h[1] /\ Before(h, Following(p))
      OBVIOUS
    <3>1. CASE h \in held
      <4>1. cont[t] <= h[1] /\ Before(h, p)
        BY <1>1, <3>1 DEF Walks, p
      <4>2. h[1] \in 1..Current /\ h[2] \in Nat /\ h[2] < all_locks[h[1]]
        BY <3>1 DEF TypeOK
      <4>3. QED  BY <1>3, <4>1, <4>2 DEF Before
    <3>2. CASE h[1] = p[1] /\ h[2] = p[2]
      BY <1>2, <1>3, <3>2 DEF Before
    <3>3. QED  BY <1>5, <3>1, <3>2
  <2>2. \A h \in held' : h[3] # t => h \in held /\ h[3] \in Threads
    BY <1>5 DEF TypeOK
  <2>3. cont[t] <= Following(p)[1]
    BY <1>2, <1>3
  <2>4. QED  BY <1>1, <1>3, <1>4, <2>1, <2>2, <2>3 DEF Walks, Current, Before
<1>10. QED  BY <1>6, <1>7, <1>8, <1>9

LEMMA LockAllDoneOrder ==
  ASSUME OrderInv, NEW t \in Threads, LockAllDone(t) PROVE OrderInv'
<1> USE DEF OrderInv
<1>1. /\ pc[t] = "lockall" /\ pc \in [Threads -> PC] /\ pc' = [pc EXCEPT ![t] = "all"]
      /\ UNCHANGED <<hashpower, all_locks, held, taken, hp, cont, buckets, pos, target, left>>
  BY DEF TypeOK, LockAllDone, Goto
<1>2. TypeOK'
  BY <1>1 DEF TypeOK, Current, PC
<1>3. ThreeBuckets' /\ IndexInContainer' /\ Sizes' /\ Taken'
  BY <1>1 DEF ThreeBuckets, IndexInContainer, LockInds, Sizes, Current, Taken, Todo
<1>4. HeldIsTaken'
  BY <1>1 DEF HeldIsTaken, Owners, TypeOK
<1>5. Walks'
  BY <1>1 DEF Walks, Current, Before, TypeOK
<1>6. QED  BY <1>2, <1>3, <1>4, <1>5

LEMMA ResizeOrder ==
  ASSUME OrderInv, NEW t \in Threads, maybe_resize_locks(t) PROVE OrderInv'
<1> USE DEF OrderInv
<1>1. PICK n \in 0..MaxHp :
        /\ pc[t] = "all" /\ pc \in [Threads -> PC] /\ pc' = [pc EXCEPT ![t] = "swap"]
        /\ target' = [target EXCEPT ![t] = n]
        /\ LET size == Smaller(kMaxNumLocks, hashsize(n)) IN
             IF all_locks[Current] < size
               THEN /\ all_locks' = Append(all_locks, size)
                    /\ held' = held \union {<<Current + 1, l, t>> : l \in 0..size - 1}
               ELSE UNCHANGED <<all_locks, held>>
        /\ UNCHANGED <<hashpower, taken, hp, cont, buckets, pos, left>>
  BY DEF TypeOK, maybe_resize_locks, Goto
<1> DEFINE size == Smaller(kMaxNumLocks, hashsize(n))
<1>2. size \in Nat \ {0}
  BY SizeType
<1>3. /\ Current \in Nat \ {0} /\ all_locks[Current] \in Nat
      /\ \A c \in 1..Current : all_locks[c] \in Nat /\ all_locks[c] >= 1
  BY Containers DEF Sizes
<1> HIDE DEF size
<1>4. /\ all_locks' \in Seq(Nat) /\ Current' \in Nat /\ Current <= Current'
      /\ \A c \in 1..Current' : all_locks'[c] \in Nat /\ all_locks'[c] >= 1
      /\ \A c \in 1..Current : all_locks'[c] = all_locks[c]
      /\ all_locks[Current] <= all_locks'[Current'] /\ size <= all_locks'[Current']
      /\ Current' = Current \/ (Current' = Current + 1 /\ all_locks'[Current'] = size)
  <2>1. CASE all_locks[Current] < size
    <3>1. all_locks' = Append(all_locks, size) /\ all_locks \in Seq(Nat)
      BY <1>1, <2>1 DEF TypeOK, size
    <3>2. QED  BY <1>2, <1>3, <2>1, <3>1 DEF Current
  <2>2. CASE ~(all_locks[Current] < size)
    <3>1. all_locks' = all_locks /\ all_locks \in Seq(Nat)
      BY <1>1, <2>2 DEF TypeOK, size
    <3>2. QED  BY <1>2, <1>3, <2>2, <3>1 DEF Current
  <2>3. QED  BY <2>1, <2>2
<1>5. /\ held' \subseteq Nat \X Nat \X Threads
      /\ \A h \in held' :
           \/ h \in held
           \/ h[1] = Current + 1 /\ h[1] = Current' /\ h[2] < size /\ h[3] = t
                /\ all_locks'[Current'] = size
  <2>1. CASE all_locks[Current] < size
    <3>1. /\ held' = held \union {<<Current + 1, l, t>> : l \in 0..size - 1}
          /\ all_locks' = Append(all_locks, size) /\ all_locks \in Seq(Nat)
      BY <1>1, <2>1 DEF TypeOK, size
    <3>2. Current' = Current + 1 /\ all_locks'[Current'] = size
      BY <1>2, <3>1 DEF Current
    <3>3. \A l \in 0..size - 1 : l \in Nat /\ l < size /\ <<Current + 1, l, t>> \in Nat \X Nat \X Threads
      BY <1>2, <1>3
    <3>4. held \subseteq Nat \X Nat \X Threads
      BY DEF TypeOK
    <3>5. held' \subseteq Nat \X Nat \X Threads
      BY <3>1, <3>3, <3>4
    <3>6. \A h \in held' : h \in held \/ \E l \in 0..size - 1 : h = <<Current + 1, l, t>>
      BY <3>1
    <3>7. QED  BY <3>2, <3>3, <3>5, <3>6
  <2>2. CASE ~(all_locks[Current] < size)
    <3>1. held' = held
      BY <1>1, <2>2 DEF size
    <3>2. QED  BY <3>1 DEF TypeOK
  <2>3. QED  BY <2>1, <2>2
<1>6. TypeOK'
  <2>1. \A h \in held : h[1] \in 1..Current /\ h[2] < all_locks[h[1]]
    BY DEF TypeOK
  <2>2. \A h \in held' : h[1] \in 1..Current' /\ h[2] < all_locks'[h[1]]
    BY <1>2, <1>3, <1>4, <1>5, <2>1, SMTT(30)
  <2>3. pc' \in [Threads -> PC] /\ target' \in [Threads -> 0..MaxHp]
    BY <1>1 DEF TypeOK, PC
  <2>4. Current' >= 1
    BY <1>3, <1>4
  <2>5. QED  BY <1>1, <1>4, <1>5, <2>2, <2>3, <2>4 DEF TypeOK
<1>7. ThreeBuckets'
  BY <1>1 DEF ThreeBuckets
<1>8. \A u \in Threads : LockInds(u)' = LockInds(u) /\ LockInds(u) \subseteq Nat
  BY <1>1, LockIndType DEF LockInds, TypeOK
<1>9. IndexInContainer'
  <2>1. \A u \in Threads : cont[u] \in 1..Current
    BY DEF Sizes
  <2>2. QED  BY <1>1, <1>4, <1>8, <2>1 DEF IndexInContainer
<1>10. Sizes'
  <2>1. /\ Smaller(kMaxNumLocks, hashsize(hashpower)) \in Nat
        /\ \A u \in Threads : Smaller(kMaxNumLocks, hashsize(target[u])) \in Nat
    BY SizeType DEF TypeOK
  <2>2. Smaller(kMaxNumLocks, hashsize(hashpower')) <= all_locks'[Current']
    BY <1>1, <1>3, <1>4, <2>1 DEF Sizes
  <2>3. \A u \in Threads : cont'[u] \in 1..Current'
    BY <1>1, <1>3, <1>4 DEF Sizes
  <2>4. \A u \in Threads : pc'[u] = "swap" =>
          Smaller(kMaxNumLocks, hashsize(target'[u])) <= all_locks'[Current']
    <3>1. target'[t] = n /\ \A u \in Threads \ {t} : target'[u] = target[u]
      BY <1>1 DEF TypeOK
    <3>2. CASE Current' = Current
      BY <1>1, <1>3, <1>4, <2>1, <3>1, SMTT(30) DEF Sizes, size
    <3>3. QED  BY <1>1, <1>3, <1>4, <2>1, <3>1, SMTT(30) DEF Sizes, size
  <2>5. \A u \in Threads : pc'[u] = "locks" => \A l \in LockInds(u)' : l < all_locks'[Current']
    BY <1>1, <1>3, <1>4, <1>8, SMTT(30) DEF Sizes
  <2>6. QED  BY <1>4, <2>2, <2>3, <2>4, <2>5 DEF Sizes
<1>11. Taken'
  BY <1>1, <1>8 DEF Taken, Todo
<1>12. HeldIsTaken'
  <2>1. \A h \in held' : h[3] \in Threads /\ (h \in held \/ h[3] = t)
    BY <1>5
  <2>2. QED  BY <1>1, <2>1 DEF HeldIsTaken, Owners
<1>13. Walks'
  <2>1. \A h \in held' : h[3] \in Threads /\ (h \in held \/ (h[3] = t /\ h[1] = Current + 1))
    BY <1>5
  <2>2. cont[t] \in 1..Current
    BY DEF Sizes
  <2>3. \A u \in Threads : pc'[u] = "lockall" =>
          /\ cont'[u] <= pos'[u][1]
          /\ pos'[u][2] = 0
               \/ (pos'[u][1] <= Current' /\ pos'[u][2] < all_locks'[pos'[u][1]])
    <3>1. \A u \in Threads : pc'[u] = "lockall" =>
            pc[u] = "lockall" /\ pos[u][1] \in Nat /\ cont[u] \in 1..Current
      BY <1>1 DEF TypeOK, Sizes
    <3>2. \A u \in Threads : pc'[u] = "lockall" =>
            /\ cont[u] <= pos[u][1]
            /\ pos[u][2] = 0
                 \/ (pos[u][1] \in 1..Current /\ pos[u][2] < all_locks[pos[u][1]])
      BY <1>3, <3>1 DEF Walks
    <3>3. \A c \in 1..Current : c <= Current' /\ all_locks'[c] = all_locks[c]
      BY <1>3, <1>4
    <3>4. pos' = pos /\ cont' = cont
      BY <1>1
    <3>5. QED  BY <3>2, <3>3, <3>4
  <2>4. QED  BY <1>1, <1>3, <2>1, <2>2, <2>3 DEF Walks, Before
<1>14. QED  BY <1>6, <1>7, <1>9, <1>10, <1>11, <1>12, <1>13

LEMMA SwapOrder ==
  ASSUME OrderInv, NEW t \in Threads, SwapBuckets(t) PROVE OrderInv'
<1> USE DEF OrderInv
<1>1. /\ pc[t] = "swap" /\ pc \in [Threads -> PC] /\ pc' = [pc EXCEPT ![t] = "all"]
      /\ hashpower' = target[t] /\ target[t] \in 0..MaxHp
      /\ UNCHANGED <<all_locks, held, taken, hp, cont, buckets, pos, target, left>>
  BY DEF TypeOK, SwapBuckets, Goto
<1>2. TypeOK'
  BY <1>1 DEF TypeOK, Current, PC
<1>3. ThreeBuckets' /\ IndexInContainer' /\ Taken'
  BY <1>1 DEF ThreeBuckets, IndexInContainer, LockInds, Taken, Todo
<1>4. Sizes'
  BY <1>1 DEF Sizes, LockInds, Current
<1>5. HeldIsTaken'
  BY <1>1 DEF HeldIsTaken, Owners, TypeOK
<1>6. Walks'
  BY <1>1 DEF Walks, Current, Before, TypeOK
<1>7. QED  BY <1>2, <1>3, <1>4, <1>5, <1>6

LEMMA BeginUnlockAllOrder ==
  ASSUME OrderInv, NEW t \in Threads, BeginUnlockAll(t) PROVE OrderInv'
<1> USE DEF OrderInv
<1>1. /\ pc[t] = "all" /\ pc \in [Threads -> PC] /\ pc' = [pc EXCEPT ![t] = "unlockall"]
      /\ pos' = [pos EXCEPT ![t] = <<cont[t], 0>>]
      /\ UNCHANGED <<hashpower, all_locks, held, taken, hp, cont, buckets, target, left>>
  BY DEF TypeOK, BeginUnlockAll, Goto
<1>2. /\ pos'[t] = <<cont[t], 0>> /\ \A u \in Threads \ {t} : pos'[u] = pos[u]
      /\ pos' \in [Threads -> Nat \X Nat]
  <2>1. <<cont[t], 0>> \in Nat \X Nat /\ pos \in [Threads -> Nat \X Nat]
    BY DEF TypeOK
  <2>2. QED  BY <1>1, <2>1
<1>3. TypeOK'
  BY <1>1, <1>2 DEF TypeOK, Current, PC
<1>4. ThreeBuckets' /\ IndexInContainer' /\ Sizes' /\ Taken'
  BY <1>1 DEF ThreeBuckets, IndexInContainer, LockInds, Sizes, Current, Taken, Todo
<1>5. HeldIsTaken'
  BY <1>1 DEF HeldIsTaken, Owners, TypeOK
<1>6. Walks'
  <2>1. \A h \in held : h[1] \in Nat /\ h[2] \in Nat /\ h[3] \in Threads
    BY DEF TypeOK
  <2>2. cont[t] \in Nat
    BY DEF TypeOK
  <2>3. \A h \in held : h[3] = t => ~Before(h, <<cont[t], 0>>)
    BY <1>1, <2>1, <2>2 DEF Walks, Before
  <2>4. QED  BY <1>1, <1>2, <2>1, <2>3 DEF Walks, Current, Before
<1>7. QED  BY <1>3, <1>4, <1>5, <1>6

LEMMA UnlockAllNextOrder ==
  ASSUME OrderInv, NEW t \in Threads, UnlockAllNext(t) PROVE OrderInv'
<1> USE DEF OrderInv
<1> DEFINE p == pos[t]
<1>1. /\ pc[t] = "unlockall" /\ p[1] <= Current
      /\ held' = Without(p[1], p[2])
      /\ pos' = [pos EXCEPT ![t] = Following(p)]
      /\ UNCHANGED <<hashpower, all_locks, taken, pc, hp, cont, buckets, target, left>>
  BY DEF UnlockAllNext
<1>2. \A h \in held' : /\ h \in held /\ (h[1] # p[1] \/ h[2] # p[2])
                       /\ h[1] \in Nat /\ h[2] \in Nat /\ h[3] \in Threads
                       /\ h[2] < all_locks[h[1]] /\ h[1] \in 1..Current
  BY <1>1 DEF Without, TypeOK
<1>3. p \in Nat \X Nat /\ p[1] \in Nat /\ p[2] \in Nat /\ Current \in Nat
  BY Containers DEF TypeOK
<1>4. /\ Following(p) \in Nat \X Nat
      /\ \A h \in held' : ~Before(h, p) => ~Before(h, Following(p))
  <2>1. CASE p[2] + 1 < all_locks[p[1]]
    <3>1. Following(p) = <<p[1], p[2] + 1>>
      BY <2>1 DEF Following
    <3>2. QED  BY <1>2, <1>3, <3>1 DEF Before
  <2>2. CASE ~(p[2] + 1 < all_locks[p[1]])
    <3>1. Following(p) = <<p[1] + 1, 0>>
      BY <2>2 DEF Following
    <3>2. \A h \in held' : h[1] = p[1] => h[2] <= p[2]
      BY <1>2, <1>3, <2>2, Containers
    <3>3. QED  BY <1>2, <1>3, <3>1, <3>2 DEF Before
  <2>3. QED  BY <2>1, <2>2
<1>5. /\ pos'[t] = Following(p) /\ \A u \in Threads \ {t} : pos'[u] = pos[u]
      /\ pos' \in [Threads -> Nat \X Nat]
  BY <1>1, <1>4 DEF TypeOK
<1> HIDE DEF p
<1>6. TypeOK'
  BY <1>1, <1>2, <1>5 DEF TypeOK, Current
<1>7. ThreeBuckets' /\ IndexInContainer' /\ Sizes' /\ Taken'
  BY <1>1 DEF ThreeBuckets, IndexInContainer, LockInds, Sizes, Current, Taken, Todo
<1>8. HeldIsTaken'
  BY <1>1, <1>2 DEF HeldIsTaken
<1>9. Walks'
  <2>1. \A h \in held' : h[3] = t => ~Before(h, Following(p))
    BY <1>1, <1>2, <1>4 DEF Walks, p
  <2>2. QED  BY <1>1, <1>2, <1>5, <2>1 DEF Walks, Current, Before
<1>10. QED  BY <1>6, <1>7, <1>8, <1>9

LEMMA UnlockAllDoneOrder ==
  ASSUME OrderInv, NEW t \in Threads, UnlockAllDone(t) PROVE OrderInv'
<1> USE DEF OrderInv
<1>1. /\ pc[t] = "unlockall" /\ pos[t][1] > Current
      /\ pc \in [Threads -> PC] /\ pc' = [pc EXCEPT ![t] = "idle"]
      /\ UNCHANGED <<hashpower, all_locks, held, taken, hp, cont, buckets, pos, target, left>>
  BY DEF TypeOK, UnlockAllDone, Goto
<1>2. TypeOK'
  BY <1>1 DEF TypeOK, Current, PC
<1>3. ThreeBuckets' /\ IndexInContainer' /\ Sizes' /\ Taken'
  BY <1>1 DEF ThreeBuckets, IndexInContainer, LockInds, Sizes, Current, Taken, Todo
<1>4. \A h \in held : h[3] \in Threads \ {t}
  <2>1. \A h \in held : h[1] \in 1..Current /\ h[3] \in Threads
    BY DEF TypeOK
  <2>2. pos[t][1] \in Nat /\ Current \in Nat
    BY Containers DEF TypeOK
  <2>3. \A h \in held : Before(h, pos[t])
    BY <1>1, <2>1, <2>2 DEF Before
  <2>4. QED  BY <1>1, <2>1, <2>3 DEF Walks
<1>5. HeldIsTaken'
  BY <1>1, <1>4 DEF HeldIsTaken, Owners
<1>6. Walks'
  BY <1>1, <1>4 DEF Walks, Current, Before
<1>7. QED  BY <1>2, <1>3, <1>5, <1>6

-----------------------------------------------------------------------------
LEMMA NextOrder == OrderInv /\ [Next]_vars => OrderInv'
<1> SUFFICES ASSUME OrderInv, [Next]_vars PROVE OrderInv'
  OBVIOUS
<1>1. CASE UNCHANGED vars
  BY <1>1 DEF vars, OrderInv, TypeOK, ThreeBuckets, Sizes, IndexInContainer, Taken,
     HeldIsTaken, Walks, Before, LockInds, Todo, Current
<1>2. ASSUME NEW t \in Threads, Operate(t) PROVE OrderInv'
  BY <1>2, BeginOrder, SnapshotOrder, GetLocksOrder, LockFirstOrder, CheckOrder,
     LockNextOrder, StartUnlockOrder, UnlockOneOrder, ReturnOrder DEF Operate
<1>3. ASSUME NEW t \in Threads, OperateAll(t) PROVE OrderInv'
  BY <1>3, BeginAllOrder, LockAllNextOrder, LockAllDoneOrder, ResizeOrder, SwapOrder,
     BeginUnlockAllOrder, UnlockAllNextOrder, UnlockAllDoneOrder DEF OperateAll
<1>4. QED  BY <1>1, <1>2, <1>3 DEF Next, Step

LEMMA OrderAlways == Spec => []OrderInv
<1>1. QED  BY InitOrder, NextOrder, PTL DEF Spec

(***************************************************************************)
(* Every lock that is held exists in its container, whoever takes and      *)
(* frees locks and however the map is resized.                             *)
(***************************************************************************)
THEOREM LocksTypeCorrect == Spec => []TypeOK
<1>1. OrderInv => TypeOK
  BY DEF OrderInv
<1>2. QED  BY <1>1, OrderAlways, PTL

(***************************************************************************)
(* An index computed from the hashpower a thread has read lies in the lock *)
(* container it reads afterwards (get_current_locks, lock_two).            *)
(***************************************************************************)
THEOREM IndicesInContainer == Spec => []IndexInContainer
<1>1. OrderInv => IndexInContainer
  BY DEF OrderInv
<1>2. QED  BY <1>1, OrderAlways, PTL

(***************************************************************************)
(* Who waits for a lock holds only locks that come before it in one order: *)
(* lock_two, lock_three, snapshot_and_lock_all and the resizes never wait  *)
(* for each other in a circle, however many of them there are.             *)
(***************************************************************************)
THEOREM LocksInOrder == Spec => []LockOrder
<1>1. OrderInv => LockOrder
  <2> SUFFICES ASSUME OrderInv, NEW t \in Threads, NEW w \in Awaited(t), NEW h \in Mine(t)
               PROVE  Before(h, w)
    BY DEF LockOrder
  <2> USE DEF OrderInv
  <2>1. h \in held /\ h[3] = t
    BY DEF Mine
  <2>2. CASE pc[t] = "first"
    <3>1. taken[t] = {}
      BY <2>2 DEF Taken
    <3>2. QED  BY <2>1, <2>2, <3>1 DEF HeldIsTaken, Owners
  <2>3. CASE pc[t] = "rest"
    <3>1. Todo(t) # {} /\ w = <<cont[t], Min(Todo(t))>>
      BY <2>3 DEF Awaited
    <3>2. Min(Todo(t)) \in Todo(t)
      BY <3>1, LeastLock DEF Todo
    <3>3. h[1] = cont[t] /\ h[2] \in taken[t]
      BY <2>1, <2>3 DEF HeldIsTaken, Owners
    <3>4. h[2] < Min(Todo(t))
      BY <2>3, <3>2, <3>3 DEF Taken
    <3>5. QED  BY <3>1, <3>3, <3>4 DEF Before
  <2>4. CASE pc[t] = "lockall"
    <3>1. w = pos[t]
      BY <2>4 DEF Awaited
    <3>2. QED  BY <2>1, <2>4, <3>1 DEF Walks
  <2>5. QED  BY <2>2, <2>3, <2>4 DEF Awaited
<1>2. QED  BY <1>1, OrderAlways, PTL

-----------------------------------------------------------------------------
(* One resizer that only grows the map. What a lock or an unlock changes:  *)
LEMMA TakeOne ==
  ASSUME OneHolder, TypeOK, NEW t \in Threads, NEW c, NEW l, Free(c, l),
         held' = held \union {<<c, l, t>>}
  PROVE  OneHolder' /\ held \subseteq held' /\ <<c, l, t>> \in held'
<1>1. \A h \in held : ~(h[1] = c /\ h[2] = l)
  <2> SUFFICES ASSUME NEW h \in held, h[1] = c, h[2] = l PROVE FALSE
    OBVIOUS
  <2>1. h[3] \in Threads /\ h = <<h[1], h[2], h[3]>>
    BY DEF TypeOK
  <2>2. QED  BY <2>1 DEF Free
<1>2. \A h \in held' : h \in held \/ (h[1] = c /\ h[2] = l /\ h[3] = t)
  OBVIOUS
<1>3. QED  BY <1>1, <1>2 DEF OneHolder

LEMMA FreeOne ==
  ASSUME OneHolder, TypeOK, NEW t \in Threads, NEW c, NEW l, NEW T \in SUBSET held,
         T = Without(c, l), \A h \in held : h[1] = c /\ h[2] = l => h[3] = t
  PROVE  \A h \in held : h[3] # t \/ h[1] # c \/ h[2] # l => h \in T
BY DEF Without

(* There is at most one owner of all locks, and nobody works beside it.    *)
LEMMA OneOwner ==
  ASSUME GrowsAlone, Owned, NEW t \in Threads, NEW u \in Threads,
         pc[t] \in Owners, pc[u] \in Owners
  PROVE  t = u
BY DEF GrowsAlone, Owned

LEMMA OwnerExcludes ==
  ASSUME OrderInv, GrowthInv, NEW t \in Threads, NEW u \in Threads,
         pc[u] \in {"all", "swap"}, cont[u] <= cont[t], taken[t] # {},
         pc[t] \in {"check", "rest"}
  PROVE  FALSE
<1> USE DEF OrderInv, GrowthInv
<1>1. PICK l \in taken[t] : TRUE
  OBVIOUS
<1>2. l \in Nat /\ l < all_locks[cont[t]] /\ cont[t] \in 1..Current
  BY <1>1 DEF Taken, IndexInContainer, TypeOK, Sizes
<1>3. all_locks[cont[t]] \in Nat
  BY <1>2, Containers
<1>4. l \in 0..all_locks[cont[t]] - 1
  BY <1>2, <1>3
<1>5. <<cont[t], l, u>> \in held
  BY <1>2, <1>4 DEF Owned
<1>6. <<cont[t], l, t>> \in held
  BY <1>1 DEF TakenIsHeld
<1>7. t = u
  BY <1>5, <1>6 DEF OneHolder
<1>8. QED  BY <1>7

LEMMA NobodyWorks ==
  ASSUME OrderInv, GrowthInv, NEW t \in Threads, NEW u \in Threads, pc[t] = "rest"
  PROVE  pc[u] \notin {"all", "swap"}
<1>1. cont[t] = Current /\ taken[t] # {} /\ cont[u] \in 1..Current
  BY DEF GrowthInv, OrderInv, Seen, Sizes
<1>2. cont[u] <= cont[t]
  BY <1>1
<1>3. QED  BY <1>1, <1>2, OwnerExcludes

LEMMA InitGrowth == Init => GrowthInv
<1> SUFFICES ASSUME Init PROVE GrowthInv
  OBVIOUS
<1>1. OneHolder /\ TakenIsHeld
  BY DEF Init, OneHolder, TakenIsHeld
<1>2. Owned
  BY DEF Init, Owned, Owners
<1>3. Seen
  BY LocksAssumption DEF Init, Seen
<1>4. QED  BY <1>1, <1>2, <1>3 DEF GrowthInv

(* Steps that take and free no lock, of a thread that owns not all.        *)
LEMMA BeginGrowth ==
  ASSUME OrderInv, GrowthInv, NEW t \in Threads, Begin(t) \/ Snapshot(t) \/ StartUnlock(t) \/ Return(t)
  PROVE  GrowthInv'
<1> USE DEF OrderInv, GrowthInv
<1>1. /\ pc \in [Threads -> PC] /\ pc' \in [Threads -> PC]
      /\ pc[t] \notin Owners /\ pc'[t] \notin Owners
      /\ pc'[t] \notin {"first", "check", "rest"}
      /\ \A u \in Threads \ {t} : pc'[u] = pc[u] /\ hp'[u] = hp[u]
      /\ hp'[t] = hp[t] \/ hp'[t] = hashpower
      /\ UNCHANGED <<hashpower, all_locks, held, taken, cont, pos, target>>
  BY DEF TypeOK, PC, Owners, Begin, Snapshot, StartUnlock, Return, Goto, Working
<1>2. OneHolder' /\ TakenIsHeld'
  BY <1>1 DEF OneHolder, TakenIsHeld
<1>3. Owned'
  BY <1>1 DEF Owned, Owners, Current, Before
<1>4. Seen'
  <2>1. \A r \in Threads : pc[r] = "swap" => pc'[r] = "swap"
    BY <1>1 DEF Owners
  <2>2. pc'[t] # "swap" /\ hashpower \in Nat /\ hp'[t] <= hashpower
    BY <1>1 DEF Owners, Seen, TypeOK
  <2>3. QED  BY <1>1, <2>1, <2>2 DEF Seen, Current
<1>5. QED  BY <1>2, <1>3, <1>4

LEMMA GetLocksGrowth ==
  ASSUME OrderInv, GrowthInv, NEW t \in Threads, GetLocks(t) PROVE GrowthInv'
<1> USE DEF OrderInv, GrowthInv
<1>1. /\ pc \in [Threads -> PC] /\ pc[t] = "locks" /\ pc' = [pc EXCEPT ![t] = "first"]
      /\ cont'[t] = Current /\ \A u \in Threads \ {t} : cont'[u] = cont[u]
      /\ UNCHANGED <<hashpower, all_locks, held, taken, hp, pos, target>>
  BY DEF TypeOK, GetLocks, Goto
<1>2. taken[t] = {}
  BY <1>1 DEF Taken
<1>3. OneHolder' /\ TakenIsHeld'
  BY <1>1, <1>2 DEF OneHolder, TakenIsHeld
<1>4. Owned'
  BY <1>1 DEF Owned, Owners, Current, Before
<1>5. Seen'
  <2>1. \A r \in Threads : pc[r] = "swap" => r # t /\ pc'[r] = "swap" /\ cont'[r] = cont[r]
    BY <1>1
  <2>2. QED  BY <1>1, <2>1 DEF Seen, Current
<1>6. QED  BY <1>3, <1>4, <1>5

(* Steps that take one lock.                                               *)
LEMMA LockGrowth ==
  ASSUME OrderInv, GrowthInv, NEW t \in Threads, LockFirst(t) \/ LockNext(t)
  PROVE  GrowthInv'
<1> USE DEF OrderInv, GrowthInv
<1>1. PICK l \in Nat :
        /\ Free(cont[t], l) /\ held' = held \union {<<cont[t], l, t>>}
        /\ taken' = [taken EXCEPT ![t] = @ \union {l}]
  <2>1. CASE LockFirst(t)
    <3>1. LockInds(t) # {}
      BY <2>1 DEF LockFirst, Taken, LockInds
    <3>2. Min(LockInds(t)) \in Nat
      BY <3>1, LeastLock
    <3>3. QED  BY <2>1, <3>2 DEF LockFirst
  <2>2. CASE LockNext(t)
    <3>1. Todo(t) # {} /\ Todo(t) \subseteq LockInds(t)
      BY <2>2 DEF LockNext, Todo
    <3>2. Min(Todo(t)) \in Nat
      BY <3>1, LeastLock
    <3>3. QED  BY <2>2, <3>2 DEF LockNext
  <2>3. QED  BY <2>1, <2>2
<1>2. /\ pc \in [Threads -> PC]
      /\ (pc[t] = "first" /\ pc'[t] = "check") \/ (pc[t] = "rest" /\ pc'[t] = "rest")
      /\ \A u \in Threads \ {t} : pc'[u] = pc[u]
      /\ UNCHANGED <<hashpower, all_locks, hp, cont, pos, target>>
  BY DEF TypeOK, LockFirst, LockNext, Goto
<1>3. taken'[t] = taken[t] \union {l} /\ \A u \in Threads \ {t} : taken'[u] = taken[u]
  BY <1>1 DEF TypeOK
<1>4. OneHolder' /\ held \subseteq held' /\ <<cont[t], l, t>> \in held'
  BY <1>1, TakeOne
<1>5. TakenIsHeld'
  BY <1>2, <1>3, <1>4 DEF TakenIsHeld
<1>6. Owned'
  <2>1. \A u \in Threads : pc'[u] \in Owners => u # t /\ pc'[u] = pc[u]
    BY <1>2 DEF Owners
  <2>2. QED  BY <1>2, <1>4, <2>1 DEF Owned, Owners, Current, Before
<1>7. Seen'
  <2>1. \A r \in Threads : pc[r] = "swap" => pc'[r] = "swap" /\ cont'[r] = cont[r]
    BY <1>2
  <2>2. QED  BY <1>2, <1>3, <2>1 DEF Seen, Current
<1>8. QED  BY <1>4, <1>5, <1>6, <1>7

LEMMA CheckGrowth ==
  ASSUME OrderInv, GrowthInv, NEW t \in Threads, check_hashpower(t) PROVE GrowthInv'
<1> USE DEF OrderInv, GrowthInv
<1>1. /\ pc[t] = "check" /\ pc \in [Threads -> PC] /\ pc' \in [Threads -> PC]
      /\ pc'[t] \in {"rest", "snapshot"}
      /\ \A u \in Threads \ {t} : pc'[u] = pc[u]
      /\ UNCHANGED <<hashpower, all_locks, hp, cont, pos, target>>
  BY DEF TypeOK, PC, check_hashpower, Goto
<1>2. taken[t] = {Min(LockInds(t))} /\ <<cont[t], Min(LockInds(t)), t>> \in held
  BY <1>1 DEF Taken, TakenIsHeld
<1>3. \A r \in Threads : pc[r] = "swap" => pc'[r] = "swap"
  BY <1>1
<1>4. CASE hashpower = hp[t]
  <2>1. pc'[t] = "rest" /\ UNCHANGED <<held, taken>>
    BY <1>1, <1>4 DEF check_hashpower, Goto
  <2>2. OneHolder' /\ TakenIsHeld'
    BY <1>1, <2>1 DEF OneHolder, TakenIsHeld
  <2>3. Owned'
    BY <1>1, <2>1 DEF Owned, Owners, Current, Before
  <2>4. \A r \in Threads : pc[r] = "swap" => ~(cont[r] <= cont[t])
    BY <1>1, <1>2, OwnerExcludes
  <2>5. cont[t] = Current
    BY <1>1, <1>4, <2>4 DEF Seen
  <2>6. Seen'
    BY <1>1, <1>2, <1>3, <1>4, <2>1, <2>5 DEF Seen, Current
  <2>7. QED  BY <2>2, <2>3, <2>6
<1>5. CASE hashpower # hp[t]
  <2> DEFINE l == Min(LockInds(t))
  <2>1. /\ pc'[t] = "snapshot" /\ held' = Without(cont[t], l)
        /\ taken'[t] = {} /\ \A u \in Threads \ {t} : taken'[u] = taken[u]
    BY <1>1, <1>5 DEF check_hashpower, Goto, TypeOK
  <2> HIDE DEF l
  <2>2. /\ held' \in SUBSET held
        /\ \A h \in held : h[1] = cont[t] /\ h[2] = l => h[3] = t
    BY <1>2, <2>1 DEF Without, OneHolder, l
  <2>3. \A h \in held : h[3] # t \/ h[1] # cont[t] \/ h[2] # l => h \in held'
    BY <2>1, <2>2, FreeOne
  <2>4. OneHolder'
    BY <2>2 DEF OneHolder
  <2>5. \A c, k : \A u \in Threads \ {t} : <<c, k, u>> \in held => <<c, k, u>> \in held'
    BY <2>3
  <2>6. TakenIsHeld'
    BY <1>1, <2>1, <2>5 DEF TakenIsHeld
  <2>7. Owned'
    BY <1>1, <2>1, <2>5 DEF Owned, Owners, Current, Before
  <2>8. Seen'
    BY <1>1, <1>3, <2>1 DEF Seen, Current
  <2>9. QED  BY <2>4, <2>6, <2>7, <2>8
<1>6. QED  BY <1>4, <1>5

LEMMA UnlockOneGrowth ==
  ASSUME OrderInv, GrowthInv, NEW t \in Threads, UnlockOne(t) PROVE GrowthInv'
<1> USE DEF OrderInv, GrowthInv
<1>1. PICK l \in taken[t] :
        /\ pc[t] = "unlock"
        /\ held' = Without(cont[t], l)
        /\ taken' = [taken EXCEPT ![t] = @ \ {l}]
        /\ UNCHANGED <<hashpower, all_locks, pc, hp, cont, pos, target>>
  BY DEF UnlockOne
<1>2. taken'[t] = taken[t] \ {l} /\ \A u \in Threads \ {t} : taken'[u] = taken[u]
  BY <1>1 DEF TypeOK
<1>3. /\ held' \in SUBSET held
      /\ \A h \in held : h[1] = cont[t] /\ h[2] = l => h[3] = t
  BY <1>1 DEF Without, OneHolder, TakenIsHeld
<1>4. \A h \in held : h[3] # t \/ h[1] # cont[t] \/ h[2] # l => h \in held'
  BY <1>1, <1>3, FreeOne
<1>5. OneHolder'
  BY <1>3 DEF OneHolder
<1>6. \A c, k : \A u \in Threads : <<c, k, u>> \in held /\ (u # t \/ k # l) => <<c, k, u>> \in held'
  BY <1>4
<1>7. TakenIsHeld'
  BY <1>1, <1>2, <1>6 DEF TakenIsHeld
<1>8. Owned'
  BY <1>1, <1>6 DEF Owned, Owners, Current, Before
<1>9. Seen'
  BY <1>1, <1>2 DEF Seen, Current
<1>10. QED  BY <1>5, <1>7, <1>8, <1>9

(* Steps of the owner of all locks.                                        *)
LEMMA BeginAllGrowth ==
  ASSUME OrderInv, GrowthInv, NEW t \in Threads, BeginAll(t) PROVE GrowthInv'
<1> USE DEF OrderInv, GrowthInv
<1>1. /\ t \in Resizers
      /\ pc[t] = "idle" /\ pc \in [Threads -> PC] /\ pc' = [pc EXCEPT ![t] = "lockall"]
      /\ UNCHANGED <<hashpower, all_locks, held, taken, hp, target>>
      /\ taken[t] = {}
  BY DEF TypeOK, BeginAll, Goto, Taken
<1>2. /\ cont'[t] = Current /\ pos'[t] = <<Current, 0>>
      /\ \A u \in Threads \ {t} : cont'[u] = cont[u] /\ pos'[u] = pos[u]
      /\ Current' = Current
  BY DEF BeginAll, TypeOK, Current
<1>3. OneHolder' /\ TakenIsHeld'
  BY <1>1, <1>2 DEF OneHolder, TakenIsHeld
<1>4. Owned'
  <2>1. \A c \in 1..Current : \A l \in 0..all_locks[c] - 1 :
          c >= Current => ~Before(<<c, l>>, <<Current, 0>>)
    BY Containers DEF Before
  <2>2. QED  BY <1>1, <1>2, <2>1 DEF Owned, Owners, Before
<1>5. Seen'
  <2>1. \A r \in Threads : pc[r] = "swap" => pc'[r] = "swap" /\ cont'[r] = cont[r]
    BY <1>1, <1>2
  <2>2. QED  BY <1>1, <1>2, <2>1 DEF Seen
<1>6. QED  BY <1>3, <1>4, <1>5

LEMMA LockAllNextGrowth ==
  ASSUME OrderInv, GrowthInv, NEW t \in Threads, LockAllNext(t) PROVE GrowthInv'
<1> USE DEF OrderInv, GrowthInv
<1> DEFINE p == pos[t]
<1>1. /\ pc[t] = "lockall" /\ p[1] <= Current
      /\ Free(p[1], p[2])
      /\ held' = held \union {<<p[1], p[2], t>>}
      /\ pos' = [pos EXCEPT ![t] = Following(p)]
      /\ UNCHANGED <<hashpower, all_locks, taken, pc, hp, cont, target>>
  BY DEF LockAllNext
<1>2. /\ p \in Nat \X Nat /\ p[1] \in 1..Current /\ p[2] < all_locks[p[1]]
  BY <1>1, Containers, SMTT(30) DEF TypeOK, Walks, Sizes
<1>3. /\ Following(p) \in Nat \X Nat
      /\ \A c \in 1..Current : \A l \in Nat :
           l < all_locks[c] =>
             (Before(<<c, l>>, Following(p)) <=> Before(<<c, l>>, p) \/ (c = p[1] /\ l = p[2]))
  BY <1>2, FollowingPlace
<1>4. pos'[t] = Following(p) /\ \A u \in Threads \ {t} : pos'[u] = pos[u]
  BY <1>1, <1>3 DEF TypeOK
<1> HIDE DEF p
<1>5. OneHolder' /\ held \subseteq held' /\ <<p[1], p[2], t>> \in held'
  BY <1>1, TakeOne
<1>6. TakenIsHeld'
  BY <1>1, <1>5 DEF TakenIsHeld
<1>7. Owned'
  <2>1. \A c \in 1..Current : \A l \in 0..all_locks[c] - 1 :
          cont[t] <= c /\ Before(<<c, l>>, Following(p)) => <<c, l, t>> \in held'
    <3> SUFFICES ASSUME NEW c \in 1..Current, NEW l \in 0..all_locks[c] - 1,
                        cont[t] <= c, Before(<<c, l>>, Following(p))
                 PROVE  <<c, l, t>> \in held'
      OBVIOUS
    <3>1. l \in Nat /\ l < all_locks[c]
      BY Containers
    <3>2. Before(<<c, l>>, p) \/ (c = p[1] /\ l = p[2])
      BY <1>3, <3>1
    <3>3. CASE Before(<<c, l>>, p)
      BY <1>1, <1>5, <3>3 DEF Owned, p
    <3>4. QED  BY <1>5, <3>2, <3>3
  <2>2. /\ \A u \in Threads : pc'[u] = pc[u] /\ cont'[u] = cont[u]
        /\ Current' = Current /\ all_locks' = all_locks
    BY <1>1 DEF Current
  <2>3. QED  BY <1>1, <1>4, <1>5, <2>1, <2>2 DEF Owned, Owners, Before
<1>8. Seen'
  BY <1>1 DEF Seen, Current
<1>9. QED  BY <1>5, <1>6, <1>7, <1>8

LEMMA LockAllDoneGrowth ==
  ASSUME OrderInv, GrowthInv, NEW t \in Threads, LockAllDone(t) PROVE GrowthInv'
<1> USE DEF OrderInv, GrowthInv
<1>1. /\ pc[t] = "lockall" /\ pos[t][1] > Current
      /\ pc \in [Threads -> PC] /\ pc' = [pc EXCEPT ![t] = "all"]
      /\ UNCHANGED <<hashpower, all_locks, held, taken, hp, cont, pos, target>>
  BY DEF TypeOK, LockAllDone, Goto
<1>2. OneHolder' /\ TakenIsHeld'
  BY <1>1 DEF OneHolder, TakenIsHeld
<1>3. Owned'
  <2>1. pos[t][1] \in Nat /\ Current \in Nat
    BY Containers DEF TypeOK
  <2>2. \A c \in 1..Current : \A l : Before(<<c, l>>, pos[t])
    BY <1>1, <2>1 DEF Before
  <2>3. QED  BY <1>1, <2>2 DEF Owned, Owners, Current, Before
<1>4. Seen'
  <2>1. \A r \in Threads : pc[r] = "swap" => pc'[r] = "swap"
    BY <1>1
  <2>2. QED  BY <1>1, <2>1 DEF Seen, Current
<1>5. QED  BY <1>2, <1>3, <1>4

LEMMA ResizeGrowth ==
  ASSUME GrowsAlone, OrderInv, GrowthInv, NEW t \in Threads, maybe_resize_locks(t)
  PROVE  GrowthInv'
<1> USE DEF OrderInv, GrowthInv
<1>1. PICK n \in 0..MaxHp :
        /\ pc[t] = "all" /\ pc \in [Threads -> PC] /\ pc' = [pc EXCEPT ![t] = "swap"]
        /\ n > hashpower /\ target' = [target EXCEPT ![t] = n]
        /\ LET size == Smaller(kMaxNumLocks, hashsize(n)) IN
             IF all_locks[Current] < size
               THEN /\ all_locks' = Append(all_locks, size)
                    /\ held' = held \union {<<Current + 1, l, t>> : l \in 0..size - 1}
               ELSE UNCHANGED <<all_locks, held>>
        /\ UNCHANGED <<hashpower, taken, hp, cont, pos>>
  BY DEF TypeOK, maybe_resize_locks, Goto, GrowsAlone
<1> DEFINE size == Smaller(kMaxNumLocks, hashsize(n))
<1>2. /\ size \in Nat \ {0} /\ Current \in Nat \ {0} /\ cont[t] \in 1..Current
      /\ target'[t] = n /\ \A u \in Threads \ {t} : target'[u] = target[u]
  BY <1>1, SizeType, Containers DEF Sizes, TypeOK
<1> HIDE DEF size
<1>3. \A u \in Threads \ {t} : pc[u] \notin Owners /\ pc'[u] = pc[u] /\ pc[u] # "rest"
  BY <1>1, OneOwner, NobodyWorks DEF Owners
<1>4. /\ held \subseteq held'
      /\ \A h \in held' : h \in held \/ (h[1] = Current + 1 /\ h[3] = t)
      /\ \A c \in 1..Current' : \A l \in 0..all_locks'[c] - 1 :
           \/ c \in 1..Current /\ l \in 0..all_locks[c] - 1
           \/ <<c, l, t>> \in held'
  <2>1. CASE all_locks[Current] < size
    <3>1. /\ held' = held \union {<<Current + 1, l, t>> : l \in 0..size - 1}
          /\ all_locks' = Append(all_locks, size) /\ all_locks \in Seq(Nat)
      BY <1>1, <2>1 DEF size, TypeOK
    <3>2. /\ Current' = Current + 1 /\ all_locks'[Current + 1] = size
          /\ \A c \in 1..Current : all_locks'[c] = all_locks[c]
      BY <1>2, <3>1 DEF Current
    <3>3. \A l \in 0..size - 1 : <<Current + 1, l, t>> \in held'
      BY <3>1
    <3>4. \A c \in 1..Current' : c \in 1..Current \/ c = Current + 1
      BY <1>2, <3>2
    <3>5. \A h \in held' : h \in held \/ \E l \in 0..size - 1 : h = <<Current + 1, l, t>>
      BY <3>1
    <3>6. \A h \in held' : h \in held \/ (h[1] = Current + 1 /\ h[3] = t)
      BY <3>5
    <3>7. held \subseteq held'
      BY <3>1
    <3>8. \A c \in 1..Current' : \A l \in 0..all_locks'[c] - 1 :
            (c \in 1..Current /\ l \in 0..all_locks[c] - 1) \/ <<c, l, t>> \in held'
      BY <3>2, <3>3, <3>4
    <3>9. QED  BY <3>6, <3>7, <3>8
  <2>2. CASE ~(all_locks[Current] < size)
    BY <1>1, <2>2 DEF size, Current
  <2>3. QED  BY <2>1, <2>2
<1>5. OneHolder'
  <2>1. \A h \in held : h[1] # Current + 1
    BY <1>2 DEF TypeOK
  <2>2. QED  BY <1>4, <2>1 DEF OneHolder
<1>6. TakenIsHeld'
  BY <1>1, <1>4 DEF TakenIsHeld
<1>7. Owned'
  <2>1. t \in Resizers
    BY <1>1 DEF Owned, Owners
  <2>2. \A u \in Threads : pc'[u] \in Owners => u = t
    BY <1>1, <1>3
  <2>3. \A c \in 1..Current' : \A l \in 0..all_locks'[c] - 1 : cont[t] <= c => <<c, l, t>> \in held'
    BY <1>1, <1>4 DEF Owned
  <2>4. pc'[t] = "swap" /\ cont' = cont
    BY <1>1
  <2>5. QED  BY <2>1, <2>2, <2>3, <2>4 DEF Owned, Owners, Before
<1>8. Seen'
  <2> SUFFICES ASSUME NEW u \in Threads
               PROVE  /\ hp'[u] <= hashpower'
                      /\ pc'[u] = "swap" => hashpower' < target'[u]
                      /\ pc'[u] = "rest" =>
                           hp'[u] = hashpower' /\ cont'[u] = Current' /\ taken'[u] # {}
                      /\ pc'[u] \in {"first", "check"} /\ hp'[u] = hashpower' =>
                           \/ cont'[u] = Current'
                           \/ \E r \in Threads : pc'[r] = "swap" /\ cont'[r] <= cont'[u]
    BY DEF Seen
  <2>1. pc'[t] = "swap" /\ cont' = cont /\ hp' = hp /\ hashpower' = hashpower
    BY <1>1
  <2>2. hp'[u] <= hashpower'
    BY <2>1 DEF Seen
  <2>3. pc'[u] = "swap" => hashpower' < target'[u]
    BY <1>1, <1>2, <1>3, <2>1 DEF Owners, TypeOK
  <2>4. pc'[u] # "rest"
    BY <1>3, <2>1
  <2>5. ASSUME pc'[u] \in {"first", "check"}, hp'[u] = hashpower'
        PROVE  cont[t] <= cont[u]
    <3>1. u # t /\ pc[u] = pc'[u] /\ hp[u] = hashpower
      BY <1>3, <2>1, <2>5
    <3>2. \A r \in Threads : pc[r] # "swap"
      BY <1>1, <1>3 DEF Owners
    <3>3. cont[u] = Current
      BY <2>5, <3>1, <3>2 DEF Seen
    <3>4. QED  BY <1>2, <3>3
  <2>6. QED  BY <2>1, <2>2, <2>3, <2>4, <2>5
<1>9. QED  BY <1>5, <1>6, <1>7, <1>8

LEMMA SwapGrowth ==
  ASSUME GrowsAlone, OrderInv, GrowthInv, NEW t \in Threads, SwapBuckets(t)
  PROVE  GrowthInv'
<1> USE DEF OrderInv, GrowthInv
<1>1. /\ pc[t] = "swap" /\ pc \in [Threads -> PC] /\ pc' = [pc EXCEPT ![t] = "all"]
      /\ hashpower' = target[t] /\ hashpower \in Nat /\ target[t] \in Nat
      /\ UNCHANGED <<all_locks, held, taken, hp, cont, pos, target>>
  BY DEF TypeOK, SwapBuckets, Goto
<1>2. hashpower < hashpower'
  BY <1>1 DEF Seen
<1>3. \A u \in Threads \ {t} : pc[u] \notin Owners /\ pc'[u] = pc[u] /\ pc[u] # "rest"
  BY <1>1, OneOwner, NobodyWorks DEF Owners
<1>4. OneHolder' /\ TakenIsHeld'
  BY <1>1 DEF OneHolder, TakenIsHeld
<1>5. Owned'
  BY <1>1 DEF Owned, Owners, Current, Before
<1>6. Seen'
  <2>1. \A u \in Threads : hp'[u] \in Nat /\ hp'[u] < hashpower'
    BY <1>1, <1>2 DEF Seen, TypeOK
  <2>2. \A u \in Threads : pc'[u] # "swap" /\ pc'[u] # "rest"
    BY <1>1, <1>3 DEF Owners
  <2>3. QED  BY <1>1, <2>1, <2>2 DEF Seen
<1>7. QED  BY <1>4, <1>5, <1>6

LEMMA BeginUnlockAllGrowth ==
  ASSUME OrderInv, GrowthInv, NEW t \in Threads, BeginUnlockAll(t) PROVE GrowthInv'
<1> USE DEF OrderInv, GrowthInv
<1>1. /\ pc[t] = "all" /\ pc \in [Threads -> PC] /\ pc' = [pc EXCEPT ![t] = "unlockall"]
      /\ pos'[t] = <<cont[t], 0>> /\ \A u \in Threads \ {t} : pos'[u] = pos[u]
      /\ UNCHANGED <<hashpower, all_locks, held, taken, hp, cont, target>>
  BY DEF TypeOK, BeginUnlockAll, Goto
<1>2. OneHolder' /\ TakenIsHeld'
  BY <1>1 DEF OneHolder, TakenIsHeld
<1>3. Owned'
  <2>1. \A c \in 1..Current : \A l \in 0..all_locks[c] - 1 :
          ~Before(<<c, l>>, <<cont[t], 0>>) => cont[t] <= c
    BY Containers DEF Before, Sizes
  <2>2. QED  BY <1>1, <2>1 DEF Owned, Owners, Current, Before
<1>4. Seen'
  <2>1. \A r \in Threads : pc[r] = "swap" => pc'[r] = "swap"
    BY <1>1
  <2>2. QED  BY <1>1, <2>1 DEF Seen, Current
<1>5. QED  BY <1>2, <1>3, <1>4

LEMMA UnlockAllNextGrowth ==
  ASSUME GrowsAlone, OrderInv, GrowthInv, NEW t \in Threads, UnlockAllNext(t)
  PROVE  GrowthInv'
<1> USE DEF OrderInv, GrowthInv
<1> DEFINE p == pos[t]
<1>1. /\ pc[t] = "unlockall" /\ p[1] <= Current
      /\ held' = Without(p[1], p[2])
      /\ pos' = [pos EXCEPT ![t] = Following(p)]
      /\ UNCHANGED <<hashpower, all_locks, taken, pc, hp, cont, target>>
  BY DEF UnlockAllNext
<1>2. p[1] \in Nat /\ p[2] \in Nat /\ Current \in Nat /\ pos \in [Threads -> Nat \X Nat]
  BY Containers DEF TypeOK
<1>3. \A h \in held : h[1] = p[1] /\ h[2] = p[2] => h[3] = t
  <2> SUFFICES ASSUME NEW h \in held, h[1] = p[1], h[2] = p[2] PROVE h[3] = t
    OBVIOUS
  <2>1. h[1] \in 1..Current /\ h[2] < all_locks[h[1]]
    BY DEF TypeOK
  <2>2. h[2] \in 0..all_locks[h[1]] - 1
    BY <1>2, <2>1, Containers
  <2>3. ~Before(<<h[1], h[2]>>, p)
    BY <1>2 DEF Before
  <2>4. <<h[1], h[2], t>> \in held
    BY <1>1, <2>1, <2>2, <2>3 DEF Owned
  <2>5. QED  BY <2>4 DEF OneHolder
<1> HIDE DEF p
<1>4. held' \in SUBSET held
  BY <1>1 DEF Without
<1>5. \A h \in held : h[3] # t \/ h[1] # p[1] \/ h[2] # p[2] => h \in held'
  BY <1>1, <1>3, <1>4, FreeOne
<1>6. OneHolder'
  BY <1>4 DEF OneHolder
<1>7. TakenIsHeld'
  <2>1. taken[t] = {}
    BY <1>1 DEF Taken
  <2>2. \A u \in Threads \ {t} : \A l \in taken[u] : <<cont[u], l, u>> \in held'
    BY <1>5 DEF TakenIsHeld
  <2>3. QED  BY <1>1, <2>1, <2>2 DEF TakenIsHeld
<1>8. Owned'
  <2>1. \A u \in Threads \ {t} : pc[u] \notin Owners
    BY <1>1, OneOwner DEF Owners
  <2>2. pos'[t] = Following(p)
    BY <1>1, <1>2
  <2>3. \A c \in 1..Current : \A l \in 0..all_locks[c] - 1 :
          ~Before(<<c, l>>, Following(p)) =>
             ~Before(<<c, l>>, p) /\ ~(c = p[1] /\ l = p[2])
    <3>1. Following(p) = <<p[1], p[2] + 1>> \/ Following(p) = <<p[1] + 1, 0>>
      BY DEF Following
    <3>2. \A c \in 1..Current : all_locks[c] \in Nat
      BY Containers
    <3>3. QED  BY <1>2, <3>1, <3>2 DEF Before
  <2>4. \A c \in 1..Current : \A l \in 0..all_locks[c] - 1 :
          ~Before(<<c, l>>, Following(p)) => <<c, l, t>> \in held'
    BY <1>1, <1>5, <2>3 DEF Owned, p
  <2>5. t \in Resizers
    BY <1>1 DEF Owned, Owners
  <2>6. pc' = pc /\ all_locks' = all_locks /\ Current' = Current /\ cont' = cont
    BY <1>1 DEF Current
  <2>7. QED  BY <1>1, <2>1, <2>2, <2>4, <2>5, <2>6 DEF Owned, Owners, Before
<1>9. Seen'
  BY <1>1 DEF Seen, Current
<1>10. QED  BY <1>6, <1>7, <1>8, <1>9

LEMMA UnlockAllDoneGrowth ==
  ASSUME OrderInv, GrowthInv, NEW t \in Threads, UnlockAllDone(t) PROVE GrowthInv'
<1> USE DEF OrderInv, GrowthInv
<1>1. /\ pc[t] = "unlockall" /\ pc \in [Threads -> PC] /\ pc' = [pc EXCEPT ![t] = "idle"]
      /\ UNCHANGED <<hashpower, all_locks, held, taken, hp, cont, pos, target>>
  BY DEF TypeOK, UnlockAllDone, Goto
<1>2. OneHolder' /\ TakenIsHeld'
  BY <1>1 DEF OneHolder, TakenIsHeld
<1>3. Owned'
  BY <1>1 DEF Owned, Owners, Current, Before
<1>4. Seen'
  <2>1. \A r \in Threads : pc[r] = "swap" => pc'[r] = "swap"
    BY <1>1
  <2>2. QED  BY <1>1, <2>1 DEF Seen, Current
<1>5. QED  BY <1>2, <1>3, <1>4

LEMMA NextGrowth ==
  ASSUME GrowsAlone
  PROVE  OrderInv /\ GrowthInv /\ [Next]_vars => GrowthInv'
<1> SUFFICES ASSUME OrderInv, GrowthInv, [Next]_vars PROVE GrowthInv'
  OBVIOUS
<1>1. CASE UNCHANGED vars
  BY <1>1 DEF vars, GrowthInv, OneHolder, TakenIsHeld, Owned, Seen, Before, Current
<1>2. ASSUME NEW t \in Threads, Operate(t) PROVE GrowthInv'
  BY <1>2, BeginGrowth, GetLocksGrowth, LockGrowth, CheckGrowth, UnlockOneGrowth DEF Operate
<1>3. ASSUME NEW t \in Threads, OperateAll(t) PROVE GrowthInv'
  BY <1>3, BeginAllGrowth, LockAllNextGrowth, LockAllDoneGrowth, ResizeGrowth, SwapGrowth,
     BeginUnlockAllGrowth, UnlockAllNextGrowth, UnlockAllDoneGrowth DEF OperateAll
<1>4. QED  BY <1>1, <1>2, <1>3 DEF Next, Step

(***************************************************************************)
(* With one resizer that only grows the map (the use the expansion in      *)
(* cuckoo_expand_simple and cuckoo_fast_double makes of the locks), a      *)
(* thread that has locked its buckets works with the map's hashpower,      *)
(* shares no bucket and is not interrupted by a resize                     *)
(* (snapshot_and_lock_two, snapshot_and_lock_all).                         *)
(***************************************************************************)
THEOREM BucketsExcluded ==
  ASSUME GrowsAlone
  PROVE  Spec => []Exclusion
<1>1. OrderInv /\ GrowthInv => Exclusion
  <2> SUFFICES ASSUME OrderInv, GrowthInv, NEW t \in Threads, Working(t)
               PROVE  /\ hp[t] = hashpower
                      /\ \A u \in Threads \ {t} :
                           /\ Working(u) => buckets[t] \intersect buckets[u] = {}
                           /\ pc[u] \notin {"all", "swap"}
    BY DEF Exclusion
  <2>1. pc[t] = "rest" /\ hp[t] = hashpower /\ cont[t] = Current
    BY DEF GrowthInv, Seen, Working
  <2>2. ASSUME NEW u \in Threads \ {t}, Working(u), NEW b \in buckets[t] \intersect buckets[u]
        PROVE  FALSE
    <3>1. cont[u] = Current
      BY <2>2 DEF GrowthInv, Seen, Working
    <3>2. lock_ind(b) \in taken[t] /\ lock_ind(b) \in taken[u]
      BY <2>2 DEF Working, Todo, LockInds
    <3>3. <<Current, lock_ind(b), t>> \in held /\ <<Current, lock_ind(b), u>> \in held
      BY <2>1, <3>1, <3>2 DEF GrowthInv, TakenIsHeld
    <3>4. t = u
      BY <3>3 DEF GrowthInv, OneHolder
    <3>5. QED  BY <3>4
  <2>3. \A u \in Threads : pc[u] \notin {"all", "swap"}
    BY <2>1, NobodyWorks
  <2>4. QED  BY <2>1, <2>2, <2>3
<1>2. OrderInv /\ GrowthInv /\ [Next]_vars => OrderInv' /\ GrowthInv'
  BY NextOrder, NextGrowth
<1>3. Init => OrderInv /\ GrowthInv
  BY InitOrder, InitGrowth
<1>4. QED  BY <1>1, <1>2, <1>3, PTL DEF Spec
=============================================================================
