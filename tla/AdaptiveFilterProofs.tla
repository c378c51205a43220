------------------------ MODULE AdaptiveFilterProofs ------------------------
(***************************************************************************)
(* Theorems about AdaptiveFilter, for every number of threads, keys and    *)
(* buckets, every hash function and every set of calls: its types, the     *)
(* mutual exclusion of the mutex and of the buckets' counters and, as long *)
(* as no thread calls find (an adaptation breaks both), that the tag table *)
(* and the storage of the slots agree and that a bucket changes only under *)
(* its owner's hands.                                                      *)
(***************************************************************************)
EXTENDS AdaptiveFilter, FiniteSetTheorems, WellFoundedInduction, TLAPS

-----------------------------------------------------------------------------
(* Lemmas about the operators of the model. *)

\* A non-empty set of slots has a first one.
LEMMA FirstOfIn ==
    ASSUME NEW S \in SUBSET Slots, S # {}
    PROVE  FirstOf(S) \in S
<1>1. S \in SUBSET Nat
  BY DEF Slots
<1>2. PICK s \in S : \A r \in S : ~ (<<r, s>> \in OpToRel(<, Nat))
  BY <1>1, NatLessThanWellFounded, WFMin, Zenon
<1>3. ASSUME NEW r \in S PROVE s <= r
  <2>1. r \in Nat /\ s \in Nat
    BY <1>1
  <2>2. ~ (<<r, s>> \in {ss \in Nat \X Nat : ss[1] < ss[2]})
    BY <1>2 DEF OpToRel
  <2>3. ~ (r < s)
    BY <2>1, <2>2
  <2>4. QED
    BY <2>1, <2>3
<1>4. QED
  BY <1>3 DEF FirstOf

\* A counter stays in its 16 bits when it is incremented.
LEMMA BumpType == \A c \in 0 .. CounterMax : Bump(c) \in 0 .. CounterMax
<1>1. CounterMax \in Nat
  BY SizeAssumption
<1>2. QED
  BY <1>1 DEF Bump

LEMMA CounterType ==
    ASSUME counter \in [Buckets -> 0 .. CounterMax]
    PROVE  \A b \in Buckets :
              [counter EXCEPT ![b] = Bump(counter[b])] \in [Buckets -> 0 .. CounterMax]
BY BumpType

\* The locals of a fresh call have their types.
LEMMA FreshType ==
    ASSUME NEW op \in Ops, NEW key \in Keys, NEW val \in Vals
    PROVE  Fresh(op, key, val) \in LocType
<1>1. 0 \in Buckets /\ 0 \in Slots /\ 0 \in 0 .. CounterMax
  BY SizeAssumption DEF Buckets, Slots
<1>2. <<>> \in Seq(Buckets \X Slots)
  OBVIOUS
<1>3. QED
  BY <1>1, <1>2 DEF Fresh, LocType, Pairs

\* Writing one local variable of its type.
LEMMA FieldTypes ==
    ASSUME NEW r \in LocType
    PROVE  /\ \A x \in Buckets : [r EXCEPT !.cur = x] \in LocType
           /\ \A x \in Slots : [r EXCEPT !.slot = x] \in LocType
           /\ \A x \in BOOLEAN : [r EXCEPT !.out = x] \in LocType
           /\ \A x \in Pairs : [r EXCEPT !.spare = x] \in LocType
           /\ \A x \in Vals : [r EXCEPT !.got = x] \in LocType
BY DEF LocType

LEMMA KickFields ==
    ASSUME NEW r \in LocType, NEW p \in Pairs, NEW n \in Nat, NEW x \in Buckets, NEW y \in Buckets
    PROVE  [r EXCEPT !.carried = p, !.kicks = n, !.old = x, !.cur = y] \in LocType
BY DEF LocType

\* The tag of a stored key.
LEMMA TagType ==
    ASSUME NEW p \in Pairs, NEW s \in Slots
    PROVE  Tag[p[1]][s] \in Nat
BY HashAssumption DEF Pairs

LEMMA HitFields ==
    ASSUME NEW r \in LocType, NEW b \in Buckets, NEW s \in Slots
    PROVE  [r EXCEPT !.cur = b, !.slot = s, !.out = TRUE] \in LocType
BY DEF LocType

LEMMA ScanFields ==
    ASSUME NEW r \in LocType, NEW c \in 0 .. CounterMax, NEW f \in Seq(Buckets \X Slots)
    PROVE  [r EXCEPT !.c2 = c, !.fps = f] \in LocType
BY DEF LocType

LEMMA WordFields ==
    ASSUME NEW r \in LocType, NEW m \in SUBSET Slots, NEW o \in BOOLEAN
    PROVE  [r EXCEPT !.todo = m, !.out = o] \in LocType
BY DEF LocType

LEMMA MatchFields ==
    ASSUME NEW r \in LocType, NEW b \in Buckets, NEW s \in Slots
    PROVE  [r EXCEPT !.cur = b, !.slot = s, !.todo = {}] \in LocType
BY DEF LocType

LEMMA FalseFields ==
    ASSUME NEW r \in LocType, NEW m \in SUBSET Slots, NEW f \in Seq(Buckets \X Slots)
    PROVE  [r EXCEPT !.todo = m, !.fps = f] \in LocType
BY DEF LocType

LEMMA FoundFields ==
    ASSUME NEW r \in LocType, NEW v \in Vals
    PROVE  [r EXCEPT !.got = v, !.out = TRUE] \in LocType
BY DEF LocType

LEMMA TailFields ==
    ASSUME NEW r \in LocType, NEW f \in Seq(Buckets \X Slots)
    PROVE  [r EXCEPT !.fps = f] \in LocType /\ [r EXCEPT !.fps = f].fps = f
BY DEF LocType

\* What the type invariant says of one thread's locals.
LEMMA LocalTypes ==
    ASSUME TypeOK, NEW t \in Threads
    PROVE  /\ I1(t) \in Buckets /\ I2(t) \in Buckets
           /\ loc[t] \in LocType
           /\ loc[t].cur \in Buckets /\ loc[t].old \in Buckets /\ loc[t].slot \in Slots
           /\ loc[t].key \in Keys /\ loc[t].val \in Vals
           /\ loc[t].carried \in Pairs /\ loc[t].spare \in Pairs
           /\ loc[t].kicks \in Nat
           /\ loc[t].todo \in SUBSET Slots
           /\ loc[t].fps \in Seq(Buckets \X Slots)
           /\ loc[t].out \in BOOLEAN /\ loc[t].empty \in BOOLEAN
BY HashAssumption DEF TypeOK, LocType, I1, I2

-----------------------------------------------------------------------------
(* Type correctness. *)

LEMMA InitType == Init => TypeOK
<1> SUFFICES ASSUME Init PROVE TypeOK
  OBVIOUS
<1>1. counter \in [Buckets -> 0 .. CounterMax]
  BY SizeAssumption DEF Init
<1>2. \A b \in Buckets, s \in Slots :
         Preload[b][s] # {} => (CHOOSE p \in Preload[b][s] : TRUE) \in Pairs
  BY PreloadAssumption
<1>3. tags \in [Buckets -> [Slots -> Nat]]
  BY <1>2, HashAssumption DEF Init, Pairs
<1>4. kv \in [Buckets -> [Slots -> Pairs]]
  BY <1>2, CallAssumption DEF Init
<1>5. occupied \in [Buckets -> [Slots -> BOOLEAN]]
  BY DEF Init
<1>6. victim \in [used : BOOLEAN, key : Keys, val : Vals]
  BY CallAssumption DEF Init, Pairs
<1>7. pc \in [Threads -> PCs] /\ \A t \in Threads : pc[t] = "idle"
  BY DEF Init, PCs
<1>8. idle \in LocType
  BY FreshType, CallAssumption DEF idle, Pairs, Ops
<1>9. loc \in [Threads -> LocType]
  BY <1>8 DEF Init
<1>10. num_items \in Int
  <2>1. IsFiniteSet(Buckets) /\ IsFiniteSet(Slots)
    BY FS_Interval, SizeAssumption DEF Buckets, Slots
  <2>2. IsFiniteSet(Buckets \X Slots)
    BY <2>1, FS_Product
  <2>3. Cardinality({x \in Buckets \X Slots : Preload[x[1]][x[2]] # {}}) \in Nat
    BY <2>2, FS_Subset, FS_CardinalityType
  <2>4. QED
    BY <2>3 DEF Init
<1>11. QED
  BY <1>1, <1>3, <1>4, <1>5, <1>6, <1>7, <1>9, <1>10 DEF TypeOK, Init, KeyPCs, AdaptPCs

\* A step of one thread that leaves the other threads' work lists alone, and
\* its own not empty where it is going to consume it.
LEMMA ShapeStep ==
    ASSUME TypeOK, NEW t \in Threads, NEW p \in PCs, Goto(t, p),
           \A u \in Threads \ {t} : loc'[u] = loc[u],
           p \in KeyPCs => loc'[t].todo # {},
           p \in AdaptPCs => loc'[t].fps # <<>>
    PROVE  /\ pc' \in [Threads -> PCs]
           /\ \A u \in Threads : pc'[u] \in KeyPCs => loc'[u].todo # {}
           /\ \A u \in Threads : pc'[u] \in AdaptPCs => loc'[u].fps # <<>>
<1>1. pc \in [Threads -> PCs] /\ pc' = [pc EXCEPT ![t] = p]
  BY DEF TypeOK, Goto
<1>2. \A u \in Threads \ {t} : pc'[u] = pc[u]
  BY <1>1
<1>3. pc'[t] = p
  BY <1>1
<1>4. QED
  BY <1>1, <1>2, <1>3 DEF TypeOK

\* The same for a step to a place where neither work list is in use.
LEMMA ShapeKept ==
    ASSUME TypeOK, NEW t \in Threads, NEW p \in PCs \ (KeyPCs \cup AdaptPCs), Goto(t, p),
           \A u \in Threads \ {t} : loc'[u] = loc[u]
    PROVE  /\ pc' \in [Threads -> PCs]
           /\ \A u \in Threads : pc'[u] \in KeyPCs => loc'[u].todo # {}
           /\ \A u \in Threads : pc'[u] \in AdaptPCs => loc'[u].fps # <<>>
BY ShapeStep

LEMMA InsertType ==
    ASSUME TypeOK, NEW t \in Threads, InsertStep(t)
    PROVE  TypeOK'
<1> USE DEF TypeOK, table, PCs, InsertPCs, KeyPCs, AdaptPCs, Finish
<1>1. CASE FirstLock(t)
  BY <1>1, LocalTypes, ShapeKept, CounterType, FieldTypes DEF FirstLock, increment_odd
<1>2. CASE TakeFreeSlot(t)
  <2> DEFINE b == loc[t].cur
             s == FirstOf(FreeSlots(b))
  <2>1. s \in Slots
    <3>1. FreeSlots(b) \in SUBSET Slots /\ FreeSlots(b) # {}
      BY <1>2 DEF TakeFreeSlot, FreeSlots
    <3> HIDE DEF b
    <3>2. QED
      BY <3>1, FirstOfIn
  <2>2. Tag[loc[t].carried[1]][s] \in Nat
    BY <2>1, LocalTypes, HashAssumption DEF Pairs
  <2>3. tags' \in [Buckets -> [Slots -> Nat]]
    BY <1>2, <2>2 DEF TakeFreeSlot, WriteTag
  <2>4. loc' \in [Threads -> LocType]
    BY <1>2, <2>1, LocalTypes, FieldTypes DEF TakeFreeSlot
  <2>5. QED
    BY <1>2, <2>3, <2>4, ShapeKept DEF TakeFreeSlot
<1>3. CASE FirstFull(t)
  BY <1>3, ShapeKept DEF FirstFull
<1>4. CASE PutKV(t)
  BY <1>4, LocalTypes, ShapeKept DEF PutKV, setKV
<1>5. CASE PutCount(t)
  <2>1. num_items' \in Int
    BY <1>5 DEF PutCount
  <2>2. QED
    BY <1>5, <2>1, ShapeKept DEF PutCount
<1>6. CASE PutUnlock(t)
  <2>1. counter' \in [Buckets -> 0 .. CounterMax]
    BY <1>6, LocalTypes, CounterType DEF PutUnlock, increment_even
  <2>2. CASE Finish(t, TRUE)
    BY <1>6, <2>1, <2>2, LocalTypes, ShapeKept, FieldTypes DEF PutUnlock
  <2>3. CASE Goto(t, "mutex_unlock") /\ UNCHANGED loc
    BY <1>6, <2>1, <2>3, ShapeKept DEF PutUnlock
  <2>4. QED
    BY <1>6, <2>2, <2>3 DEF PutUnlock
<1>7. CASE FullUnlock(t)
  BY <1>7, LocalTypes, ShapeKept, CounterType DEF FullUnlock, increment_even
<1>8. CASE InsertMutex(t)
  BY <1>8, ShapeKept DEF InsertMutex, Lock
<1>9. CASE InsertRefused(t)
  BY <1>9, LocalTypes, ShapeKept, FieldTypes DEF InsertRefused, Unlock
<1>10. CASE InsertProceed(t)
  BY <1>10, LocalTypes, ShapeKept, FieldTypes DEF InsertProceed
<1>11. CASE SecondLock(t)
  BY <1>11, LocalTypes, ShapeKept, CounterType DEF SecondLock, increment_odd
<1>12. CASE KickOut(t)
  <2>1. PICK s \in Slots :
           /\ WriteTag(loc[t].cur, s, Tag[loc[t].carried[1]][s])
           /\ loc' = [loc EXCEPT ![t].slot = s]
    BY <1>12 DEF KickOut
  <2>2. Tag[loc[t].carried[1]][s] \in Nat
    BY LocalTypes, HashAssumption DEF Pairs
  <2>3. tags' \in [Buckets -> [Slots -> Nat]]
    BY <2>1, <2>2 DEF WriteTag
  <2>4. loc' \in [Threads -> LocType] /\ \A u \in Threads \ {t} : loc'[u] = loc[u]
    BY <2>1, LocalTypes, FieldTypes
  <2>5. QED
    BY <1>12, <2>3, <2>4, ShapeKept DEF KickOut
<1>13. CASE KickRead(t)
  <2>1. kv[loc[t].cur][loc[t].slot] \in Pairs
    BY LocalTypes
  <2>2. loc' \in [Threads -> LocType]
    BY <1>13, <2>1, LocalTypes, FieldTypes DEF KickRead
  <2>3. QED
    BY <1>13, <2>2, ShapeKept DEF KickRead
<1>14. CASE KickKV(t)
  <2> DEFINE b    == loc[t].cur
             next == OtherBucket(loc[t].spare[1], b)
  <2>1. b \in Buckets /\ next \in Buckets
    BY LocalTypes, HashAssumption DEF OtherBucket, Pairs
  <2>2. loc[t].kicks + 1 \in Nat
    <3> HIDE DEF TypeOK, PCs, InsertPCs, KeyPCs, AdaptPCs
    <3>1. loc[t].kicks \in Nat
      BY LocalTypes
    <3>2. QED
      BY <3>1
  <2>3. [loc[t] EXCEPT !.carried = loc[t].spare, !.kicks = loc[t].kicks + 1,
                       !.old = b, !.cur = next] \in LocType
    BY <2>1, <2>2, LocalTypes, KickFields
  <2>4. loc' = [loc EXCEPT ![t] = [loc[t] EXCEPT !.carried = loc[t].spare,
                   !.kicks = loc[t].kicks + 1, !.old = b, !.cur = next]]
    BY <1>14 DEF KickKV
  <2>5. loc' \in [Threads -> LocType] /\ \A u \in Threads \ {t} : loc'[u] = loc[u]
    BY <2>3, <2>4
  <2>6. kv' \in [Buckets -> [Slots -> Pairs]] /\ occupied' \in [Buckets -> [Slots -> BOOLEAN]]
    BY <1>14, LocalTypes DEF KickKV, setKV
  <2>7. PICK p \in PCs \ (KeyPCs \cup AdaptPCs) : Goto(t, p)
    BY <1>14 DEF KickKV, NextRound
  <2>8. QED
    BY <1>14, <2>5, <2>6, <2>7, ShapeKept DEF KickKV
<1>15. CASE KickLock(t)
  BY <1>15, LocalTypes, ShapeKept, CounterType DEF KickLock, increment_odd
<1>16. CASE KickUnlock(t)
  BY <1>16, LocalTypes, ShapeKept, CounterType DEF KickUnlock, increment_even, NextRound
<1>17. CASE VictimKV(t)
  BY <1>17, LocalTypes, ShapeKept DEF VictimKV, VictimKey, VictimVal, Pairs
<1>18. CASE VictimUsed(t)
  BY <1>18, ShapeKept DEF VictimUsed
<1>19. CASE VictimUnlock(t)
  BY <1>19, LocalTypes, ShapeKept, CounterType DEF VictimUnlock, increment_even
<1>20. CASE VictimCount(t)
  <2>1. num_items' \in Int
    BY <1>20 DEF VictimCount
  <2>2. QED
    BY <1>20, <2>1, ShapeKept DEF VictimCount
<1>21. CASE MutexUnlock(t)
  BY <1>21, LocalTypes, ShapeKept, FieldTypes DEF MutexUnlock, Unlock
<1>22. QED
  BY <1>1, <1>2, <1>3, <1>4, <1>5, <1>6, <1>7, <1>8, <1>9, <1>10, <1>11, <1>12,
     <1>13, <1>14, <1>15, <1>16, <1>17, <1>18, <1>19, <1>20, <1>21 DEF
     InsertStep

LEMMA PairType ==
    ASSUME TypeOK, NEW t \in Threads, PairStep(t)
    PROVE  TypeOK'
<1> USE DEF TypeOK, table, PCs, PairPCs, InsertPCs, KeyPCs, AdaptPCs, Finish
<1>1. CASE PairLock1(t)
  BY <1>1, LocalTypes, ShapeKept, CounterType DEF PairLock1, increment_odd
<1>2. CASE PairLock2(t)
  BY <1>2, LocalTypes, ShapeKept, CounterType DEF PairLock2, increment_odd
<1>3. CASE PairHit(t)
  <2> DEFINE b == IF Hits(I1(t), loc[t].key) # {} THEN I1(t) ELSE I2(t)
             s == FirstOf(Hits(b, loc[t].key))
  <2>1. b \in Buckets
    BY LocalTypes
  <2>2. s \in Slots
    <3>1. Hits(b, loc[t].key) \in SUBSET Slots /\ Hits(b, loc[t].key) # {}
      BY <1>3 DEF PairHit, Hits, Matches
    <3> HIDE DEF b
    <3>2. QED
      BY <3>1, FirstOfIn
  <2>3. [loc[t] EXCEPT !.cur = b, !.slot = s, !.out = TRUE] \in LocType
    BY <2>1, <2>2, LocalTypes, HitFields
  <2>4. loc' = [loc EXCEPT ![t] = [loc[t] EXCEPT !.cur = b, !.slot = s, !.out = TRUE]]
    BY <1>3 DEF PairHit
  <2>5. loc' \in [Threads -> LocType] /\ \A u \in Threads \ {t} : loc'[u] = loc[u]
    BY <2>3, <2>4
  <2>6. PICK p \in PCs \ (KeyPCs \cup AdaptPCs) : Goto(t, p)
    BY <1>3 DEF PairHit
  <2>7. QED
    BY <1>3, <2>5, <2>6, ShapeKept DEF PairHit
<1>4. CASE PairMiss(t)
  BY <1>4, ShapeKept DEF PairMiss
<1>5. CASE EraseTag(t)
  BY <1>5, LocalTypes, ShapeKept DEF EraseTag, WriteTag
<1>6. CASE EraseKV(t)
  BY <1>6, LocalTypes, ShapeKept DEF EraseKV, eraseKV
<1>7. CASE EraseUnlock1(t)
  BY <1>7, LocalTypes, ShapeKept, CounterType DEF EraseUnlock1, increment_even
<1>8. CASE EraseUnlock2(t)
  BY <1>8, LocalTypes, ShapeKept, CounterType DEF EraseUnlock2, increment_even
<1>9. CASE EraseCount(t)
  <2>1. num_items' \in Int
    BY <1>9 DEF EraseCount
  <2>2. QED
    BY <1>9, <2>1, LocalTypes, ShapeKept, FieldTypes DEF EraseCount
<1>10. CASE UpdateKV(t)
  <2>1. <<loc[t].key, loc[t].val>> \in Pairs
    BY LocalTypes DEF Pairs
  <2>2. QED
    BY <1>10, <2>1, LocalTypes, ShapeKept DEF UpdateKV, setKV
<1>11. CASE PairUnlock2(t)
  BY <1>11, LocalTypes, ShapeKept, CounterType DEF PairUnlock2, increment_even,
     AfterPair
<1>12. CASE PairUnlock1(t)
  BY <1>12, LocalTypes, ShapeKept, CounterType DEF PairUnlock1, increment_even,
     AfterPair
<1>13. CASE MissMutex(t)
  BY <1>13, ShapeKept DEF MissMutex, Lock
<1>14. CASE MissVictim(t)
  <2>1. victim' \in [used : BOOLEAN, key : Keys, val : Vals]
    BY <1>14, LocalTypes, ZenonT(60) DEF MissVictim
  <2>2. loc' \in [Threads -> LocType] /\ \A u \in Threads \ {t} : loc'[u] = loc[u]
    <3>1. CASE loc' = [loc EXCEPT ![t].out = TRUE]
      <4>1. [loc[t] EXCEPT !.out = TRUE] \in LocType
        BY LocalTypes, FieldTypes
      <4>2. QED
        BY <3>1, <4>1
    <3>2. CASE UNCHANGED loc
      BY <3>2
    <3>3. QED
      BY <1>14, <3>1, <3>2 DEF MissVictim
  <2>3. QED
    BY <1>14, <2>1, <2>2, ShapeKept DEF MissVictim
<1>15. CASE MissUnlock(t)
  <2>1. PICK p \in PCs \ (KeyPCs \cup AdaptPCs) : Goto(t, p)
    BY <1>15 DEF MissUnlock
  <2>2. QED
    BY <1>15, <2>1, ShapeKept DEF MissUnlock, Unlock
<1>16. QED
  BY <1>1, <1>2, <1>3, <1>4, <1>5, <1>6, <1>7, <1>8, <1>9, <1>10, <1>11, <1>12,
     <1>13, <1>14, <1>15 DEF PairStep

\* Scanning a bucket: what was read of the word decides where to go.
LEMMA ReadWordType ==
    ASSUME TypeOK, NEW t \in Threads, NEW b \in Buckets, NEW compare \in KeyPCs,
           NEW leave \in {"find_read2", "find_again"}, ReadWord(t, b, compare, leave)
    PROVE  TypeOK'
<1> DEFINE m == Matches(b, loc[t].key)
           o == loc[t].op = "findinfilter" /\ m # {}
<1>1. m \in SUBSET Slots /\ o \in BOOLEAN
  BY DEF Matches
<1>2. [loc[t] EXCEPT !.todo = m, !.out = o] \in LocType
  BY <1>1, LocalTypes, WordFields
<1>3. loc' = [loc EXCEPT ![t] = [loc[t] EXCEPT !.todo = m, !.out = o]]
  BY DEF ReadWord
<1>4. /\ loc' \in [Threads -> LocType]
      /\ \A u \in Threads \ {t} : loc'[u] = loc[u]
      /\ loc'[t].todo = m
  BY <1>2, <1>3 DEF TypeOK, LocType
<1>5. CASE m = {}
  BY <1>4, <1>5, ShapeStep DEF ReadWord, TypeOK, table, KeyPCs, AdaptPCs, PCs, FindPCs
<1>6. CASE m # {}
  BY <1>4, <1>6, ShapeStep DEF ReadWord, TypeOK, table, KeyPCs, AdaptPCs, PCs, FindPCs
<1>7. QED
  BY <1>5, <1>6

LEMMA CompareKeyType ==
    ASSUME TypeOK, NEW t \in Threads, NEW b \in Buckets, pc[t] \in KeyPCs,
           NEW leave \in {"find_read2", "find_again"}, CompareKey(t, b, leave)
    PROVE  TypeOK'
<1> DEFINE s == FirstOf(loc[t].todo)
<1>1. s \in loc[t].todo /\ s \in Slots
  <2>1. loc[t].todo \in SUBSET Slots /\ loc[t].todo # {}
    BY LocalTypes DEF TypeOK
  <2>2. QED
    BY <2>1, FirstOfIn
<1> HIDE DEF s
<1>2. CASE kv[b][s][1] = loc[t].key
  <2>1. [loc[t] EXCEPT !.cur = b, !.slot = s, !.todo = {}] \in LocType
    BY <1>1, LocalTypes, MatchFields
  <2>2. loc' = [loc EXCEPT ![t] = [loc[t] EXCEPT !.cur = b, !.slot = s, !.todo = {}]]
    BY <1>2 DEF CompareKey, s
  <2>3. loc' \in [Threads -> LocType] /\ \A u \in Threads \ {t} : loc'[u] = loc[u]
    BY <2>1, <2>2 DEF TypeOK
  <2>4. Goto(t, "find_val")
    BY <1>2 DEF CompareKey, s
  <2>5. QED
    BY <2>3, <2>4, ShapeKept DEF CompareKey, TypeOK, table, KeyPCs, AdaptPCs, PCs, FindPCs
<1>3. CASE kv[b][s][1] # loc[t].key
  <2> DEFINE fps == Append(loc[t].fps, <<b, s>>)
  <2>1. fps \in Seq(Buckets \X Slots) /\ fps # <<>>
    BY <1>1, LocalTypes
  <2>2. loc[t].todo \ {s} \in SUBSET Slots
    BY LocalTypes
  <2> HIDE DEF fps
  <2>3. [loc[t] EXCEPT !.todo = loc[t].todo \ {s}, !.fps = fps] \in LocType
    BY <2>1, <2>2, LocalTypes, FalseFields
  <2>4. loc' = [loc EXCEPT ![t] = [loc[t] EXCEPT !.todo = loc[t].todo \ {s}, !.fps = fps]]
    BY <1>3 DEF CompareKey, s, fps
  <2>5. /\ loc' \in [Threads -> LocType]
        /\ \A u \in Threads \ {t} : loc'[u] = loc[u]
        /\ loc'[t].todo = loc[t].todo \ {s} /\ loc'[t].fps = fps
    BY <2>3, <2>4 DEF TypeOK, LocType
  <2>6. CASE loc[t].todo = {s}
    <3>1. Goto(t, leave)
      BY <1>3, <2>6 DEF CompareKey, s
    <3>2. QED
      BY <2>5, <3>1, ShapeKept DEF CompareKey, TypeOK, table, KeyPCs, AdaptPCs, PCs, FindPCs
  <2>7. CASE loc[t].todo # {s}
    <3>1. UNCHANGED pc
      BY <1>3, <2>7 DEF CompareKey, s
    <3>2. loc[t].todo \ {s} # {}
      BY <1>1, <2>7
    <3>3. QED
      BY <2>1, <2>5, <3>1, <3>2 DEF CompareKey, TypeOK, table
  <2>8. QED
    BY <2>6, <2>7
<1>4. QED
  BY <1>2, <1>3

\* A find ends: it adapts what it has collected, if anything.
LEMMA AdaptationType ==
    ASSUME TypeOK, NEW t \in Threads, Goto(t, Adaptation(loc[t].fps)),
           loc' \in [Threads -> LocType],
           \A u \in Threads \ {t} : loc'[u] = loc[u], loc'[t].fps = loc[t].fps
    PROVE  /\ pc' \in [Threads -> PCs]
           /\ \A u \in Threads : pc'[u] \in KeyPCs => loc'[u].todo # {}
           /\ \A u \in Threads : pc'[u] \in AdaptPCs => loc'[u].fps # <<>>
<1>1. CASE loc[t].fps = <<>>
  BY <1>1, ShapeStep DEF Adaptation, KeyPCs, AdaptPCs, PCs, FindPCs
<1>2. CASE loc[t].fps # <<>>
  BY <1>2, ShapeStep DEF Adaptation, KeyPCs, AdaptPCs, PCs, FindPCs
<1>3. QED
  BY <1>1, <1>2

LEMMA FindType ==
    ASSUME TypeOK, NEW t \in Threads, FindStep(t)
    PROVE  TypeOK'
<1> USE DEF TypeOK, table, PCs, FindPCs, KeyPCs, AdaptPCs, Finish
<1>1. CASE FindEven1(t)
  BY <1>1, ShapeKept DEF FindEven1
<1>2. CASE FindEven2(t)
  <2>1. counter[I2(t)] \in 0 .. CounterMax
    BY LocalTypes
  <2>2. [loc[t] EXCEPT !.c2 = counter[I2(t)], !.fps = <<>>] \in LocType
    <3>1. loc[t] \in LocType /\ <<>> \in Seq(Buckets \X Slots)
      BY LocalTypes
    <3>2. QED
      BY <2>1, <3>1, ScanFields
  <2>3. loc' = [loc EXCEPT ![t] = [loc[t] EXCEPT !.c2 = counter[I2(t)], !.fps = <<>>]]
    BY <1>2 DEF FindEven2
  <2>4. loc' \in [Threads -> LocType] /\ \A u \in Threads \ {t} : loc'[u] = loc[u]
    BY <2>2, <2>3
  <2>5. QED
    BY <1>2, <2>4, ShapeKept DEF FindEven2
<1>3. CASE FindBreak(t)
  BY <1>3, ShapeKept DEF FindBreak
<1>4. CASE FindRead1(t)
  BY <1>4, LocalTypes, ReadWordType DEF FindRead1
<1>5. CASE FindKey1(t)
  BY <1>5, LocalTypes, CompareKeyType DEF FindKey1, At
<1>6. CASE FindRead2(t)
  BY <1>6, LocalTypes, ReadWordType DEF FindRead2
<1>7. CASE FindKey2(t)
  BY <1>7, LocalTypes, CompareKeyType DEF FindKey2, At
<1>8. CASE FindVal(t)
  <2>1. kv[loc[t].cur][loc[t].slot][2] \in Vals
    BY LocalTypes, ZenonT(60) DEF Pairs
  <2>2. [loc[t] EXCEPT !.got = kv[loc[t].cur][loc[t].slot][2], !.out = TRUE] \in LocType
    BY <2>1, LocalTypes, FoundFields
  <2>3. loc' = [loc EXCEPT ![t] =
                   [loc[t] EXCEPT !.got = kv[loc[t].cur][loc[t].slot][2], !.out = TRUE]]
    BY <1>8 DEF FindVal
  <2>4. loc' \in [Threads -> LocType] /\ \A u \in Threads \ {t} : loc'[u] = loc[u]
    BY <2>2, <2>3
  <2>5. loc'[t].fps = loc[t].fps
    BY <2>3, LocalTypes DEF LocType
  <2>6. QED
    BY <1>8, <2>4, <2>5, AdaptationType DEF FindVal
<1>9. CASE FindAgain(t)
  BY <1>9, ShapeKept DEF FindAgain
<1>10. CASE FindVictim(t)
  <2>1. CASE victim.used
    BY <1>10, <2>1, ShapeKept DEF FindVictim
  <2>2. CASE ~victim.used
    BY <1>10, <2>2, AdaptationType DEF FindVictim
  <2>3. QED
    BY <2>1, <2>2
<1>11. CASE FindVKey(t)
  <2>1. CASE victim.key = loc[t].key
    <3>1. [loc[t] EXCEPT !.out = TRUE] \in LocType
      BY LocalTypes, FieldTypes
    <3>2. loc' \in [Threads -> LocType] /\ \A u \in Threads \ {t} : loc'[u] = loc[u]
      BY <1>11, <2>1, <3>1 DEF FindVKey
    <3>3. QED
      BY <1>11, <2>1, <3>2, ShapeKept DEF FindVKey
  <2>2. CASE victim.key # loc[t].key
    BY <1>11, <2>2, AdaptationType DEF FindVKey
  <2>3. QED
    BY <2>1, <2>2
<1>12. CASE FindVVal(t)
  <2>1. [loc[t] EXCEPT !.got = victim.val] \in LocType
    BY LocalTypes, FieldTypes
  <2>2. QED
    BY <1>12, <2>1, ShapeKept DEF FindVVal
<1>13. QED
  BY <1>1, <1>2, <1>3, <1>4, <1>5, <1>6, <1>7, <1>8, <1>9, <1>10, <1>11, <1>12
     DEF FindStep

\* The false positive an adaptation is at, while there is one.
LEMMA PositionTypes ==
    ASSUME TypeOK, NEW t \in Threads, pc[t] \in AdaptPCs
    PROVE  /\ FpBucket(t) \in Buckets /\ FpSlot(t) \in Slots /\ NewSlot(t) \in Slots
           /\ loc[t].fps # <<>> /\ Tail(loc[t].fps) \in Seq(Buckets \X Slots)
<1>1. loc[t].fps \in Seq(Buckets \X Slots) /\ loc[t].fps # <<>>
  BY LocalTypes DEF TypeOK
<1>2. Head(loc[t].fps) \in Buckets \X Slots
  BY <1>1
<1>3. FpBucket(t) \in Buckets /\ FpSlot(t) \in Slots
  BY <1>2 DEF FpBucket, FpSlot
<1>4. NewSlot(t) \in Slots
  BY <1>3, SizeAssumption DEF NewSlot, Slots
<1>5. Tail(loc[t].fps) \in Seq(Buckets \X Slots)
  BY <1>1
<1>6. QED
  BY <1>1, <1>3, <1>4, <1>5

\* An adaptation reads three things, one after the other, of which each changes
\* one of three fields.
LEMMA ReadFields ==
    ASSUME NEW r \in LocType
    PROVE  /\ r.empty \in BOOLEAN /\ r.carried \in Pairs /\ r.spare \in Pairs
           /\ \A e \in BOOLEAN : [r EXCEPT !.empty = e] =
                 [r EXCEPT !.empty = e, !.carried = r.carried, !.spare = r.spare]
           /\ \A p \in Pairs : [r EXCEPT !.carried = p] =
                 [r EXCEPT !.empty = r.empty, !.carried = p, !.spare = r.spare]
           /\ \A q \in Pairs : [r EXCEPT !.spare = q] =
                 [r EXCEPT !.empty = r.empty, !.carried = r.carried, !.spare = q]
BY DEF LocType

LEMMA RfReadType ==
    ASSUME TypeOK, NEW t \in Threads, RfRead(t)
    PROVE  TypeOK'
<1>1. FpBucket(t) \in Buckets /\ FpSlot(t) \in Slots /\ NewSlot(t) \in Slots /\ loc[t].fps # <<>>
  BY PositionTypes DEF RfRead, RfReadTag, RfReadSlot, RfReadNewSlot, At, AdaptPCs
<1>2. PICK e \in BOOLEAN, p \in Pairs, q \in Pairs :
         loc' = [loc EXCEPT ![t] = [loc[t] EXCEPT !.empty = e, !.carried = p, !.spare = q]]
  <2>1. kv[FpBucket(t)][FpSlot(t)] \in Pairs /\ kv[FpBucket(t)][NewSlot(t)] \in Pairs
    BY <1>1 DEF TypeOK
  <2>2. PICK r \in LocType : r = loc[t]
    BY LocalTypes
  <2>3. CASE RfReadTag(t)
    <3>1. PICK e \in BOOLEAN : e = (tags[FpBucket(t)][NewSlot(t)] = 0)
      OBVIOUS
    <3>2. loc' = [loc EXCEPT ![t] = [r EXCEPT !.empty = e]]
      BY <2>2, <2>3, <3>1 DEF RfReadTag
    <3>3. loc' = [loc EXCEPT ![t] = [r EXCEPT !.empty = e, !.carried = r.carried,
                                              !.spare = r.spare]]
      BY <3>2, ReadFields
    <3>4. QED
      BY <2>2, <3>3, ReadFields
  <2>4. CASE RfReadSlot(t)
    <3>1. PICK p \in Pairs : p = kv[FpBucket(t)][FpSlot(t)]
      BY <2>1
    <3>2. loc' = [loc EXCEPT ![t] = [r EXCEPT !.carried = p]]
      BY <2>2, <2>4, <3>1 DEF RfReadSlot
    <3>3. loc' = [loc EXCEPT ![t] = [r EXCEPT !.empty = r.empty, !.carried = p,
                                              !.spare = r.spare]]
      BY <3>2, ReadFields
    <3>4. QED
      BY <2>2, <3>3, ReadFields
  <2>5. CASE RfReadNewSlot(t)
    <3>1. PICK q \in Pairs : q = kv[FpBucket(t)][NewSlot(t)]
      BY <2>1
    <3>2. loc' = [loc EXCEPT ![t] = [r EXCEPT !.spare = q]]
      BY <2>2, <2>5, <3>1 DEF RfReadNewSlot
    <3>3. loc' = [loc EXCEPT ![t] = [r EXCEPT !.empty = r.empty, !.carried = r.carried,
                                              !.spare = q]]
      BY <3>2, ReadFields
    <3>4. QED
      BY <2>2, <3>3, ReadFields
  <2>6. QED
    BY <2>3, <2>4, <2>5 DEF RfRead
<1>3. loc[t] \in LocType
  BY LocalTypes
<1>4. /\ [loc[t] EXCEPT !.empty = e, !.carried = p, !.spare = q] \in LocType
      /\ [loc[t] EXCEPT !.empty = e, !.carried = p, !.spare = q].fps = loc[t].fps
  BY <1>3 DEF LocType
<1>5. /\ loc' \in [Threads -> LocType]
      /\ \A u \in Threads \ {t} : loc'[u] = loc[u]
      /\ loc'[t].fps = loc[t].fps
  BY <1>2, <1>4 DEF TypeOK
<1>6. QED
  BY <1>1, <1>5, ShapeStep DEF RfRead, RfReadTag, RfReadSlot, RfReadNewSlot, TypeOK,
     table, PCs, FindPCs, KeyPCs, AdaptPCs

LEMMA AdaptType ==
    ASSUME TypeOK, NEW t \in Threads, AdaptStep(t)
    PROVE  TypeOK'
<1> USE DEF TypeOK, table, PCs, FindPCs, KeyPCs, AdaptPCs
<1>1. CASE AdaptLock(t)
  <2>1. counter' \in [Buckets -> 0 .. CounterMax]
    BY <1>1, LocalTypes, CounterType DEF AdaptLock, increment_odd
  <2>2. loc[t].fps # <<>>
    BY <1>1 DEF AdaptLock, At
  <2>3. QED
    BY <1>1, <2>1, <2>2, ShapeStep DEF AdaptLock
<1>2. CASE RfRead(t)
  BY <1>2, RfReadType DEF RfRead, RfReadTag, RfReadSlot, RfReadNewSlot
<1>3. CASE RfTagNew(t)
  <2>1. FpBucket(t) \in Buckets /\ NewSlot(t) \in Slots /\ loc[t].fps # <<>>
    BY <1>3, PositionTypes DEF RfTagNew, At
  <2>2. Tag[loc[t].carried[1]][NewSlot(t)] \in Nat
    <3>1. loc[t].carried \in Pairs
      BY LocalTypes
    <3>2. QED
      BY <2>1, <3>1, TagType
  <2>3. tags' \in [Buckets -> [Slots -> Nat]]
    BY <1>3, <2>2 DEF RfTagNew, WriteTag
  <2>4. QED
    BY <1>3, <2>1, <2>3, ShapeStep DEF RfTagNew
<1>4. CASE RfTagSlot(t)
  <2> DEFINE tag == IF loc[t].empty THEN 0 ELSE Tag[loc[t].spare[1]][FpSlot(t)]
  <2>1. FpBucket(t) \in Buckets /\ FpSlot(t) \in Slots /\ loc[t].fps # <<>>
    BY <1>4, PositionTypes DEF RfTagSlot, At
  <2>2. tag \in Nat
    <3>1. loc[t].spare \in Pairs
      BY LocalTypes
    <3>2. Tag[loc[t].spare[1]][FpSlot(t)] \in Nat
      BY <2>1, <3>1, TagType
    <3>3. QED
      BY <3>2
  <2>3. tags' = [tags EXCEPT ![FpBucket(t)][FpSlot(t)] = tag]
    BY <1>4 DEF RfTagSlot, WriteTag
  <2> HIDE DEF tag
  <2>4. tags' \in [Buckets -> [Slots -> Nat]]
    BY <2>2, <2>3
  <2>5. QED
    BY <1>4, <2>1, <2>4, ShapeStep DEF RfTagSlot
<1>5. CASE RfKVNew(t)
  <2>1. FpBucket(t) \in Buckets /\ NewSlot(t) \in Slots /\ loc[t].fps # <<>>
    BY <1>5, PositionTypes DEF RfKVNew, At
  <2>2. kv' \in [Buckets -> [Slots -> Pairs]] /\ occupied' \in [Buckets -> [Slots -> BOOLEAN]]
    BY <1>5, <2>1, LocalTypes DEF RfKVNew, setKV
  <2>3. QED
    BY <1>5, <2>1, <2>2, ShapeStep DEF RfKVNew
<1>6. CASE RfKVSlot(t)
  <2>1. FpBucket(t) \in Buckets /\ FpSlot(t) \in Slots /\ loc[t].fps # <<>>
    BY <1>6, PositionTypes DEF RfKVSlot, At
  <2>2. loc[t].spare \in Pairs
    BY LocalTypes
  <2>3. \/ loc[t].empty /\ eraseKV(FpBucket(t), FpSlot(t)) /\ UNCHANGED kv
        \/ ~loc[t].empty /\ setKV(FpBucket(t), FpSlot(t), loc[t].spare)
    BY <1>6 DEF RfKVSlot
  <2>4. kv' \in [Buckets -> [Slots -> Pairs]] /\ occupied' \in [Buckets -> [Slots -> BOOLEAN]]
    <3>1. CASE loc[t].empty /\ eraseKV(FpBucket(t), FpSlot(t)) /\ UNCHANGED kv
      BY <2>1, <3>1 DEF eraseKV
    <3>2. CASE ~loc[t].empty /\ setKV(FpBucket(t), FpSlot(t), loc[t].spare)
      <4> DEFINE x == FpBucket(t)
                 y == FpSlot(t)
                 z == loc[t].spare
      <4>1. kv' = [kv EXCEPT ![x][y] = z] /\ occupied' = [occupied EXCEPT ![x][y] = TRUE]
        BY <3>2 DEF setKV
      <4>2. x \in Buckets /\ y \in Slots /\ z \in Pairs
        BY <2>1, <2>2
      <4> HIDE DEF x, y, z
      <4>3. QED
        BY <4>1, <4>2
    <3>3. QED
      BY <2>3, <3>1, <3>2
  <2>5. Tail(loc[t].fps) \in Seq(Buckets \X Slots)
    BY <1>6, PositionTypes DEF RfKVSlot, At
  <2> DEFINE f == Tail(loc[t].fps)
  <2>6. loc' = [loc EXCEPT ![t] = [loc[t] EXCEPT !.fps = f]]
    BY <1>6 DEF RfKVSlot
  <2> HIDE DEF f
  <2>7. [loc[t] EXCEPT !.fps = f] \in LocType /\ [loc[t] EXCEPT !.fps = f].fps = f
    BY <2>5, LocalTypes, TailFields DEF f
  <2>8. /\ loc' \in [Threads -> LocType] /\ \A u \in Threads \ {t} : loc'[u] = loc[u]
        /\ loc'[t].fps = f
    BY <2>6, <2>7
  <2>9. CASE f = <<>>
    BY <1>6, <2>4, <2>8, <2>9, ShapeKept DEF RfKVSlot, f
  <2>10. CASE f # <<>>
    BY <1>6, <2>4, <2>8, <2>10, ShapeStep DEF RfKVSlot, f
  <2>11. QED
    BY <2>9, <2>10
<1>7. CASE AdaptUnlock(t)
  BY <1>7, LocalTypes, ShapeKept, CounterType DEF AdaptUnlock, increment_even
<1>8. QED
  BY <1>1, <1>2, <1>3, <1>4, <1>5, <1>6, <1>7 DEF AdaptStep

\* Where a call begins, and with which locals.
LEMMA BeginPlace ==
    ASSUME NEW t \in Threads, Begin(t)
    PROVE  /\ \E p \in {"first_lock", "pair_lock1", "find_even1"} : Goto(t, p)
           /\ \E c \in CallSet : loc' = [loc EXCEPT ![t] = Fresh(c.op, c.key, c.val)]
<1>1. PICK c \in Calls[t] :
         /\ loc' = [loc EXCEPT ![t] = Fresh(c.op, c.key, c.val)]
         /\ Goto(t, CASE c.op = "insert" -> "first_lock"
                      [] c.op \in {"erase", "update"} -> "pair_lock1"
                      [] c.op \in {"find", "findinfilter"} -> "find_even1")
  BY DEF Begin
<1>2. c \in CallSet
  BY CallAssumption
<1>3. c.op \in Ops
  BY <1>2 DEF CallSet
<1>4. QED
  BY <1>1, <1>2, <1>3 DEF Ops

LEMMA CallType ==
    ASSUME TypeOK, NEW t \in Threads, Begin(t) \/ Return(t)
    PROVE  TypeOK'
<1>1. CASE Begin(t)
  <2>1. PICK c \in CallSet : loc' = [loc EXCEPT ![t] = Fresh(c.op, c.key, c.val)]
    BY <1>1, BeginPlace
  <2>2. c.op \in Ops /\ c.key \in Keys /\ c.val \in Vals
    BY DEF CallSet
  <2>3. Fresh(c.op, c.key, c.val) \in LocType
    BY <2>2, FreshType
  <2>4. loc' \in [Threads -> LocType] /\ \A u \in Threads \ {t} : loc'[u] = loc[u]
    BY <2>1, <2>3 DEF TypeOK
  <2>5. PICK p \in {"first_lock", "pair_lock1", "find_even1"} : Goto(t, p)
    BY <1>1, BeginPlace
  <2>6. p \in PCs \ (KeyPCs \cup AdaptPCs)
    BY DEF PCs, InsertPCs, PairPCs, FindPCs, KeyPCs, AdaptPCs
  <2>7. QED
    BY <1>1, <2>4, <2>5, <2>6, ShapeKept DEF Begin, TypeOK, table
<1>2. CASE Return(t)
  <2>1. idle \in LocType
    BY FreshType, CallAssumption DEF idle, Pairs, Ops
  <2>2. loc' \in [Threads -> LocType] /\ \A u \in Threads \ {t} : loc'[u] = loc[u]
    BY <1>2, <2>1 DEF Return, TypeOK
  <2>3. QED
    BY <1>2, <2>2, ShapeKept DEF Return, TypeOK, table, PCs, KeyPCs, AdaptPCs
<1>3. QED
  BY <1>1, <1>2

\* The buckets, counters, victim and every thread's locals keep their types;
\* in particular the counters keep their 16 bits, however often they wrap, and
\* a scan or an adaptation never consumes an empty work list.
THEOREM TypeCorrect == Spec => []TypeOK
<1>1. Init => TypeOK
  BY InitType
<1>2. TypeOK /\ [Next]_vars => TypeOK'
  <2>1. TypeOK /\ Next => TypeOK'
    BY InsertType, PairType, FindType, AdaptType, CallType DEF Next, Step
  <2>2. TypeOK /\ UNCHANGED vars => TypeOK'
    BY DEF TypeOK, vars, table
  <2>3. QED
    BY <2>1, <2>2
<1>3. QED
  BY <1>1, <1>2, PTL DEF Spec


-----------------------------------------------------------------------------
(* The mutex. *)

LEMMA InsertMutexInv ==
    ASSUME TypeOK, MutexInv, NEW t \in Threads, InsertStep(t)
    PROVE  MutexInv'
<1> USE DEF TypeOK, MutexInv, MutexPCs, At, Goto
<1>1. CASE FirstLock(t)
  BY <1>1, CallAssumption DEF FirstLock
<1>2. CASE TakeFreeSlot(t)
  BY <1>2, CallAssumption DEF TakeFreeSlot
<1>3. CASE FirstFull(t)
  BY <1>3, CallAssumption DEF FirstFull
<1>4. CASE PutKV(t)
  BY <1>4, CallAssumption DEF PutKV
<1>5. CASE PutCount(t)
  BY <1>5, CallAssumption DEF PutCount
<1>6. CASE PutUnlock(t)
  BY <1>6, CallAssumption DEF PutUnlock, Finish
<1>7. CASE FullUnlock(t)
  BY <1>7, CallAssumption DEF FullUnlock
<1>8. CASE InsertMutex(t)
  BY <1>8, CallAssumption DEF InsertMutex, Lock
<1>9. CASE InsertRefused(t)
  BY <1>9, CallAssumption DEF InsertRefused, Unlock, Finish
<1>10. CASE InsertProceed(t)
  BY <1>10, CallAssumption DEF InsertProceed
<1>11. CASE SecondLock(t)
  BY <1>11, CallAssumption DEF SecondLock
<1>12. CASE KickOut(t)
  BY <1>12, CallAssumption DEF KickOut
<1>13. CASE KickRead(t)
  BY <1>13, CallAssumption DEF KickRead
<1>14. CASE KickKV(t)
  BY <1>14, CallAssumption DEF KickKV, NextRound
<1>15. CASE KickLock(t)
  BY <1>15, CallAssumption DEF KickLock
<1>16. CASE KickUnlock(t)
  BY <1>16, CallAssumption DEF KickUnlock, NextRound
<1>17. CASE VictimKV(t)
  BY <1>17, CallAssumption DEF VictimKV, VictimKey, VictimVal
<1>18. CASE VictimUsed(t)
  BY <1>18, CallAssumption DEF VictimUsed
<1>19. CASE VictimUnlock(t)
  BY <1>19, CallAssumption DEF VictimUnlock
<1>20. CASE VictimCount(t)
  BY <1>20, CallAssumption DEF VictimCount
<1>21. CASE MutexUnlock(t)
  BY <1>21, CallAssumption DEF MutexUnlock, Unlock, Finish
<1>22. QED
  BY <1>1, <1>2, <1>3, <1>4, <1>5, <1>6, <1>7, <1>8, <1>9, <1>10, <1>11, <1>12,
     <1>13, <1>14, <1>15, <1>16, <1>17, <1>18, <1>19, <1>20, <1>21 DEF InsertStep

LEMMA PairMutexInv ==
    ASSUME TypeOK, MutexInv, NEW t \in Threads, PairStep(t)
    PROVE  MutexInv'
<1> USE DEF TypeOK, MutexInv, MutexPCs, At, Goto
<1>1. CASE PairLock1(t)
  BY <1>1, CallAssumption DEF PairLock1
<1>2. CASE PairLock2(t)
  BY <1>2, CallAssumption DEF PairLock2
<1>3. CASE PairHit(t)
  BY <1>3, CallAssumption DEF PairHit
<1>4. CASE PairMiss(t)
  BY <1>4, CallAssumption DEF PairMiss
<1>5. CASE EraseTag(t)
  BY <1>5, CallAssumption DEF EraseTag
<1>6. CASE EraseKV(t)
  BY <1>6, CallAssumption DEF EraseKV
<1>7. CASE EraseUnlock1(t)
  BY <1>7, CallAssumption DEF EraseUnlock1
<1>8. CASE EraseUnlock2(t)
  BY <1>8, CallAssumption DEF EraseUnlock2
<1>9. CASE EraseCount(t)
  BY <1>9, CallAssumption DEF EraseCount, Finish
<1>10. CASE UpdateKV(t)
  BY <1>10, CallAssumption DEF UpdateKV
<1>11. CASE PairUnlock2(t)
  BY <1>11, CallAssumption DEF PairUnlock2, AfterPair
<1>12. CASE PairUnlock1(t)
  BY <1>12, CallAssumption DEF PairUnlock1, AfterPair
<1>13. CASE MissMutex(t)
  BY <1>13, CallAssumption DEF MissMutex, Lock
<1>14. CASE MissVictim(t)
  BY <1>14, CallAssumption DEF MissVictim
<1>15. CASE MissUnlock(t)
  BY <1>15, CallAssumption DEF MissUnlock, Unlock
<1>16. QED
  BY <1>1, <1>2, <1>3, <1>4, <1>5, <1>6, <1>7, <1>8, <1>9, <1>10, <1>11, <1>12,
     <1>13, <1>14, <1>15 DEF PairStep

LEMMA FindMutexInv ==
    ASSUME TypeOK, MutexInv, NEW t \in Threads, FindStep(t)
    PROVE  MutexInv'
<1> USE DEF TypeOK, MutexInv, MutexPCs, At, Goto
<1>1. CASE FindEven1(t)
  BY <1>1, CallAssumption DEF FindEven1
<1>2. CASE FindEven2(t)
  BY <1>2, CallAssumption DEF FindEven2
<1>3. CASE FindBreak(t)
  BY <1>3, CallAssumption DEF FindBreak
<1>4. CASE FindRead1(t)
  BY <1>4, CallAssumption DEF FindRead1, ReadWord
<1>5. CASE FindKey1(t)
  BY <1>5, CallAssumption, ZenonT(60) DEF FindKey1, CompareKey
<1>6. CASE FindRead2(t)
  BY <1>6, CallAssumption DEF FindRead2, ReadWord
<1>7. CASE FindKey2(t)
  BY <1>7, CallAssumption, ZenonT(60) DEF FindKey2, CompareKey
<1>8. CASE FindVal(t)
  BY <1>8, CallAssumption DEF FindVal, Adaptation
<1>9. CASE FindAgain(t)
  BY <1>9, CallAssumption DEF FindAgain
<1>10. CASE FindVictim(t)
  BY <1>10, CallAssumption DEF FindVictim, Adaptation
<1>11. CASE FindVKey(t)
  BY <1>11, CallAssumption DEF FindVKey, Adaptation
<1>12. CASE FindVVal(t)
  BY <1>12, CallAssumption DEF FindVVal
<1>13. QED
  BY <1>1, <1>2, <1>3, <1>4, <1>5, <1>6, <1>7, <1>8, <1>9, <1>10, <1>11, <1>12 DEF
     FindStep

LEMMA AdaptMutexInv ==
    ASSUME TypeOK, MutexInv, NEW t \in Threads, AdaptStep(t)
    PROVE  MutexInv'
<1> USE DEF TypeOK, MutexInv, MutexPCs, At, Goto
<1>1. CASE AdaptLock(t)
  BY <1>1, CallAssumption DEF AdaptLock
<1>2. CASE RfRead(t)
  BY <1>2, CallAssumption DEF RfRead, RfReadTag, RfReadSlot, RfReadNewSlot
<1>3. CASE RfTagNew(t)
  BY <1>3, CallAssumption DEF RfTagNew
<1>4. CASE RfTagSlot(t)
  BY <1>4, CallAssumption DEF RfTagSlot
<1>5. CASE RfKVNew(t)
  BY <1>5, CallAssumption DEF RfKVNew
<1>6. CASE RfKVSlot(t)
  BY <1>6, CallAssumption DEF RfKVSlot
<1>7. CASE AdaptUnlock(t)
  BY <1>7, CallAssumption DEF AdaptUnlock
<1>8. QED
  BY <1>1, <1>2, <1>3, <1>4, <1>5, <1>6, <1>7 DEF AdaptStep

LEMMA CallMutexInv ==
    ASSUME TypeOK, MutexInv, NEW t \in Threads, Begin(t) \/ Return(t)
    PROVE  MutexInv'
<1> USE DEF TypeOK, MutexInv, MutexPCs, At, Goto
<1>1. CASE Begin(t)
  <2>1. PICK p \in {"first_lock", "pair_lock1", "find_even1"} : Goto(t, p)
    BY <1>1, BeginPlace
  <2>2. QED
    BY <1>1, <2>1 DEF Begin
<1>2. CASE Return(t)
  BY <1>2 DEF Return
<1>3. QED
  BY <1>1, <1>2

\* Kick chains, the victim cache and the calls that fall back on it exclude
\* each other: a thread at such a step owns write_lock, and no call returns or
\* goes back to the unlocked part of the table with the mutex still locked.
THEOREM MutexCorrect == Spec => []MutexInv
<1>1. Init => MutexInv
  BY CallAssumption DEF Init, MutexInv, MutexPCs
<1>2. TypeOK /\ MutexInv /\ [Next]_vars => MutexInv'
  <2>1. TypeOK /\ MutexInv /\ Next => MutexInv'
    BY InsertMutexInv, PairMutexInv, FindMutexInv, AdaptMutexInv, CallMutexInv DEF Next, Step
  <2>2. MutexInv /\ UNCHANGED vars => MutexInv'
    BY DEF MutexInv, vars
  <2>3. QED
    BY <2>1, <2>2
<1>3. QED
  BY <1>1, <1>2, TypeCorrect, PTL DEF Spec

-----------------------------------------------------------------------------
(* The bucket counters. *)

\* A counter changes parity when it is incremented, also when it wraps.
LEMMA BumpParity == \A c \in 0 .. CounterMax : Even(Bump(c)) <=> ~Even(c)
<1> SUFFICES ASSUME NEW c \in 0 .. CounterMax
             PROVE  Even(Bump(c)) <=> ~Even(c)
  OBVIOUS
<1>1. CounterMax \in Nat /\ CounterMax % 2 = 1
  BY SizeAssumption
<1>2. CASE c = CounterMax
  BY <1>1, <1>2 DEF Bump, Even
<1>3. CASE c # CounterMax
  BY <1>1, <1>3 DEF Bump, Even
<1>4. QED
  BY <1>2, <1>3

\* While a displaced pair moves on, the bucket it is going to is not the one it
\* is leaving: the second counter could not have been taken otherwise.
KickInv == \A t \in Threads : pc[t] = "kick_unlock" => loc[t].cur # loc[t].old

\* What one step of thread t does to the counters and to the buckets it holds.
Keeps(t) ==
    /\ counter' = counter
    /\ \A x \in Buckets : Holds(t, x)' <=> Holds(t, x)
Acquires(t, b) ==
    /\ Even(counter[b])
    /\ counter' = [counter EXCEPT ![b] = Bump(counter[b])]
    /\ \A x \in Buckets : Holds(t, x)' <=> Holds(t, x) \/ x = b
Releases(t, b) ==
    /\ Holds(t, b)
    /\ counter' = [counter EXCEPT ![b] = Bump(counter[b])]
    /\ \A x \in Buckets : Holds(t, x)' <=> Holds(t, x) /\ x # b
LockStep(t) ==
    /\ Keeps(t) \/ \E b \in Buckets : Acquires(t, b) \/ Releases(t, b)
    /\ pc'[t] = "kick_unlock" => loc'[t].cur # loc'[t].old

\* Every step of the calls is of one of the three kinds.
LEMMA InsertLocks ==
    ASSUME TypeOK, LockInv, KickInv, NEW t \in Threads, InsertStep(t)
    PROVE  LockStep(t)
<1> USE DEF LockStep, Keeps, Acquires, Releases, Holds, CurPCs, OldPCs, FirstPCs, SecondPCs,
            I1, I2, At, Goto, TypeOK
<1>1. CASE FirstLock(t)
  <2>1. Acquires(t, I1(t))
    BY <1>1 DEF FirstLock, increment_odd
  <2>2. QED
    BY <1>1, <2>1, LocalTypes, ZenonT(60) DEF FirstLock
<1>2. CASE TakeFreeSlot(t)
  BY <1>2 DEF TakeFreeSlot
<1>3. CASE FirstFull(t)
  BY <1>3 DEF FirstFull
<1>4. CASE PutKV(t)
  BY <1>4 DEF PutKV
<1>5. CASE PutCount(t)
  BY <1>5 DEF PutCount
<1>6. CASE PutUnlock(t)
  <2>1. Releases(t, loc[t].cur)
    BY <1>6 DEF PutUnlock, Finish, increment_even
  <2>2. QED
    BY <1>6, <2>1, LocalTypes DEF PutUnlock, Finish
<1>7. CASE FullUnlock(t)
  <2>1. Releases(t, loc[t].cur)
    BY <1>7 DEF FullUnlock, increment_even
  <2>2. QED
    BY <1>7, <2>1, LocalTypes DEF FullUnlock
<1>8. CASE InsertMutex(t)
  BY <1>8 DEF InsertMutex
<1>9. CASE InsertRefused(t)
  BY <1>9 DEF InsertRefused, Finish
<1>10. CASE InsertProceed(t)
  BY <1>10 DEF InsertProceed
<1>11. CASE SecondLock(t)
  <2>1. Acquires(t, loc[t].cur)
    BY <1>11 DEF SecondLock, increment_odd
  <2>2. QED
    BY <1>11, <2>1, LocalTypes DEF SecondLock
<1>12. CASE KickOut(t)
  BY <1>12 DEF KickOut
<1>13. CASE KickRead(t)
  BY <1>13 DEF KickRead
<1>14. CASE KickKV(t)
  BY <1>14 DEF KickKV, NextRound
<1>15. CASE KickLock(t)
  <2>1. Acquires(t, loc[t].cur)
    BY <1>15 DEF KickLock, increment_odd
  <2>2. ~Even(counter[loc[t].old])
    BY <1>15, LocalTypes DEF KickLock, LockInv
  <2>3. loc'[t].cur # loc'[t].old
    BY <1>15, <2>1, <2>2 DEF KickLock
  <2>4. QED
    BY <2>1, <2>3, LocalTypes
<1>16. CASE KickUnlock(t)
  <2>1. loc[t].cur # loc[t].old
    BY <1>16 DEF KickUnlock, KickInv
  <2>2. Releases(t, loc[t].old)
    BY <1>16, <2>1 DEF KickUnlock, NextRound, increment_even
  <2>3. QED
    BY <1>16, <2>2, LocalTypes DEF KickUnlock, NextRound
<1>17. CASE VictimKV(t)
  BY <1>17 DEF VictimKV, VictimKey, VictimVal
<1>18. CASE VictimUsed(t)
  BY <1>18 DEF VictimUsed
<1>19. CASE VictimUnlock(t)
  <2>1. Releases(t, loc[t].cur)
    BY <1>19 DEF VictimUnlock, increment_even
  <2>2. QED
    BY <1>19, <2>1, LocalTypes DEF VictimUnlock
<1>20. CASE VictimCount(t)
  BY <1>20 DEF VictimCount
<1>21. CASE MutexUnlock(t)
  BY <1>21 DEF MutexUnlock, Finish
<1>22. QED
  BY <1>1, <1>2, <1>3, <1>4, <1>5, <1>6, <1>7, <1>8, <1>9, <1>10, <1>11, <1>12,
     <1>13, <1>14, <1>15, <1>16, <1>17, <1>18, <1>19, <1>20, <1>21 DEF InsertStep

LEMMA PairLocks ==
    ASSUME TypeOK, LockInv, KickInv, NEW t \in Threads, PairStep(t)
    PROVE  LockStep(t)
<1> USE DEF LockStep, Keeps, Acquires, Releases, Holds, CurPCs, OldPCs, FirstPCs, SecondPCs,
            I1, I2, At, Goto, TypeOK
<1>1. CASE PairLock1(t)
  <2>1. Acquires(t, I1(t))
    BY <1>1 DEF PairLock1, increment_odd
  <2>2. QED
    BY <1>1, <2>1, LocalTypes DEF PairLock1
<1>2. CASE PairLock2(t)
  <2>1. Acquires(t, I2(t))
    BY <1>2 DEF PairLock2, increment_odd
  <2>2. QED
    BY <1>2, <2>1, LocalTypes DEF PairLock2
<1>3. CASE PairHit(t)
  <2>1. PICK b, s : loc' = [loc EXCEPT ![t] =
                                   [loc[t] EXCEPT !.cur = b, !.slot = s, !.out = TRUE]]
    BY <1>3, LocalTypes, ZenonT(60) DEF PairHit
  <2>2. loc'[t].key = loc[t].key
    BY <2>1, LocalTypes DEF LocType
  <2>3. PICK p \in {"erase_tag", "update_kv"} : Goto(t, p)
    BY <1>3 DEF PairHit
  <2>4. pc[t] = "pair_scan" /\ UNCHANGED counter
    BY <1>3 DEF PairHit
  <2>5. QED
    BY <2>2, <2>3, <2>4
<1>4. CASE PairMiss(t)
  BY <1>4 DEF PairMiss
<1>5. CASE EraseTag(t)
  BY <1>5 DEF EraseTag
<1>6. CASE EraseKV(t)
  BY <1>6 DEF EraseKV
<1>7. CASE EraseUnlock1(t)
  <2>1. Releases(t, I1(t))
    BY <1>7 DEF EraseUnlock1, increment_even
  <2>2. QED
    BY <1>7, <2>1, LocalTypes, ZenonT(60) DEF EraseUnlock1
<1>8. CASE EraseUnlock2(t)
  <2>1. Releases(t, I2(t))
    BY <1>8 DEF EraseUnlock2, increment_even
  <2>2. QED
    BY <1>8, <2>1, LocalTypes DEF EraseUnlock2
<1>9. CASE EraseCount(t)
  BY <1>9 DEF EraseCount, Finish
<1>10. CASE UpdateKV(t)
  BY <1>10 DEF UpdateKV
<1>11. CASE PairUnlock2(t)
  <2>1. Releases(t, I2(t))
    BY <1>11 DEF PairUnlock2, AfterPair, increment_even
  <2>2. QED
    BY <1>11, <2>1, LocalTypes DEF PairUnlock2, AfterPair
<1>12. CASE PairUnlock1(t)
  <2>1. Releases(t, I1(t))
    BY <1>12 DEF PairUnlock1, AfterPair, increment_even
  <2>2. QED
    BY <1>12, <2>1, LocalTypes DEF PairUnlock1, AfterPair
<1>13. CASE MissMutex(t)
  BY <1>13 DEF MissMutex
<1>14. CASE MissVictim(t)
  BY <1>14 DEF MissVictim
<1>15. CASE MissUnlock(t)
  BY <1>15 DEF MissUnlock
<1>16. QED
  BY <1>1, <1>2, <1>3, <1>4, <1>5, <1>6, <1>7, <1>8, <1>9, <1>10, <1>11, <1>12,
     <1>13, <1>14, <1>15 DEF PairStep

LEMMA FindLocks ==
    ASSUME TypeOK, LockInv, KickInv, NEW t \in Threads, FindStep(t)
    PROVE  LockStep(t)
<1> USE DEF LockStep, Keeps, Acquires, Releases, Holds, CurPCs, OldPCs, FirstPCs, SecondPCs,
            I1, I2, At, Goto, TypeOK
<1>1. CASE FindEven1(t)
  BY <1>1 DEF FindEven1
<1>2. CASE FindEven2(t)
  BY <1>2 DEF FindEven2
<1>3. CASE FindBreak(t)
  BY <1>3 DEF FindBreak
<1>4. CASE FindRead1(t)
  BY <1>4 DEF FindRead1, ReadWord
<1>5. CASE FindKey1(t)
  BY <1>5, ZenonT(60) DEF FindKey1, CompareKey
<1>6. CASE FindRead2(t)
  BY <1>6 DEF FindRead2, ReadWord
<1>7. CASE FindKey2(t)
  BY <1>7, ZenonT(60) DEF FindKey2, CompareKey
<1>8. CASE FindVal(t)
  BY <1>8 DEF FindVal, Adaptation
<1>9. CASE FindAgain(t)
  BY <1>9 DEF FindAgain
<1>10. CASE FindVictim(t)
  BY <1>10 DEF FindVictim, Adaptation
<1>11. CASE FindVKey(t)
  BY <1>11 DEF FindVKey, Adaptation
<1>12. CASE FindVVal(t)
  BY <1>12 DEF FindVVal
<1>13. QED
  BY <1>1, <1>2, <1>3, <1>4, <1>5, <1>6, <1>7, <1>8, <1>9, <1>10, <1>11, <1>12 DEF
     FindStep

LEMMA AdaptLocks ==
    ASSUME TypeOK, LockInv, KickInv, NEW t \in Threads, AdaptStep(t)
    PROVE  LockStep(t)
<1> USE DEF LockStep, Keeps, Acquires, Releases, Holds, CurPCs, OldPCs, FirstPCs, SecondPCs,
            I1, I2, At, Goto, TypeOK
<1>1. CASE AdaptLock(t)
  <2>1. Acquires(t, I1(t))
    BY <1>1 DEF AdaptLock, increment_odd
  <2>2. QED
    BY <1>1, <2>1, LocalTypes DEF AdaptLock
<1>2. CASE RfRead(t)
  <2>1. CASE RfReadTag(t)
    BY <2>1 DEF RfReadTag
  <2>2. CASE RfReadSlot(t)
    BY <2>2 DEF RfReadSlot
  <2>3. CASE RfReadNewSlot(t)
    BY <2>3 DEF RfReadNewSlot
  <2>4. QED
    BY <1>2, <2>1, <2>2, <2>3 DEF RfRead
<1>3. CASE RfTagNew(t)
  BY <1>3 DEF RfTagNew
<1>4. CASE RfTagSlot(t)
  BY <1>4 DEF RfTagSlot
<1>5. CASE RfKVNew(t)
  BY <1>5 DEF RfKVNew
<1>6. CASE RfKVSlot(t)
  BY <1>6 DEF RfKVSlot
<1>7. CASE AdaptUnlock(t)
  <2>1. Releases(t, I1(t))
    BY <1>7 DEF AdaptUnlock, increment_even
  <2>2. QED
    BY <1>7, <2>1, LocalTypes DEF AdaptUnlock
<1>8. QED
  BY <1>1, <1>2, <1>3, <1>4, <1>5, <1>6, <1>7 DEF AdaptStep

LEMMA CallLocks ==
    ASSUME TypeOK, NEW t \in Threads, Begin(t) \/ Return(t)
    PROVE  LockStep(t)
<1> USE DEF LockStep, Keeps, Holds, CurPCs, OldPCs, FirstPCs, SecondPCs, At, Goto, TypeOK
<1>1. CASE Begin(t)
  <2>1. PICK p \in {"first_lock", "pair_lock1", "find_even1"} : Goto(t, p)
    BY <1>1, BeginPlace
  <2>2. QED
    BY <1>1, <2>1 DEF Begin
<1>2. CASE Return(t)
  BY <1>2 DEF Return
<1>3. QED
  BY <1>1, <1>2

\* A step leaves the places and the locals of the other threads alone.
LEMMA OthersKept ==
    ASSUME TypeOK, NEW t \in Threads, Begin(t) \/ Step(t), NEW u \in Threads \ {t}
    PROVE  pc'[u] = pc[u] /\ loc'[u] = loc[u]
<1> USE DEF TypeOK, Goto, Finish
<1>1. CASE Begin(t) \/ Return(t)
  BY <1>1, BeginPlace DEF Return
<1>2. CASE InsertStep(t)
  BY <1>2 DEF InsertStep, FirstLock, TakeFreeSlot, FirstFull, PutKV, PutCount,
     PutUnlock, FullUnlock, InsertMutex, InsertRefused, InsertProceed, SecondLock,
     KickOut, KickRead, KickKV, KickLock, KickUnlock, VictimKV, VictimKey, VictimVal, VictimUsed,
     VictimUnlock, VictimCount, MutexUnlock
<1>3. CASE PairStep(t)
  BY <1>3 DEF PairStep, PairLock1, PairLock2, PairHit, PairMiss, EraseTag, EraseKV,
     EraseUnlock1, EraseUnlock2, EraseCount, UpdateKV, PairUnlock2, PairUnlock1,
     MissMutex, MissVictim, MissUnlock
<1>4. CASE FindStep(t)
  BY <1>4 DEF FindStep, ReadWord, CompareKey, FindEven1, FindEven2, FindBreak,
     FindRead1, FindKey1, FindRead2, FindKey2, FindVal, FindAgain, FindVictim,
     FindVKey, FindVVal
<1>5. CASE AdaptStep(t)
  BY <1>5 DEF AdaptStep, AdaptLock, RfRead, RfReadTag, RfReadSlot,
     RfReadNewSlot, RfTagNew, RfTagSlot, RfKVNew, RfKVSlot,
     AdaptUnlock
<1>6. QED
  BY <1>1, <1>2, <1>3, <1>4, <1>5 DEF Step

\* The three kinds of step keep the counters in agreement with their owners.
LEMMA LockStepInv ==
    ASSUME TypeOK, TypeOK', LockInv, KickInv, NEW t \in Threads, LockStep(t),
           \A u \in Threads \ {t} : pc'[u] = pc[u] /\ loc'[u] = loc[u]
    PROVE  LockInv' /\ KickInv'
<1>1. \A u \in Threads \ {t}, x \in Buckets : Holds(u, x)' <=> Holds(u, x)
  BY DEF Holds, I1, I2
<1>2. KickInv'
  BY DEF KickInv, LockStep
<1>3. \A b \in Buckets : Even(Bump(counter[b])) <=> ~Even(counter[b])
  BY BumpParity DEF TypeOK
<1>4. CASE Keeps(t)
  BY <1>1, <1>2, <1>4 DEF Keeps, LockInv
<1>5. ASSUME NEW b \in Buckets, Acquires(t, b) PROVE LockInv'
  <2>1. \A u \in Threads : ~Holds(u, b)
    BY <1>5 DEF Acquires, LockInv
  <2>2. \A x \in Buckets : counter'[x] = IF x = b THEN Bump(counter[b]) ELSE counter[x]
    BY <1>5 DEF Acquires, TypeOK
  <2>3. Holds(t, b)'
    BY <1>5 DEF Acquires
  <2>4. \A u \in Threads, x \in Buckets :
           Holds(u, x)' <=> Holds(u, x) \/ (u = t /\ x = b)
    BY <1>1, <1>5 DEF Acquires
  <2>5. \A u, v \in Threads, x \in Buckets : Holds(u, x)' /\ Holds(v, x)' => u = v
    BY <2>1, <2>4 DEF LockInv
  <2>6. \A x \in Buckets : ~Even(counter'[x]) <=> \E u \in Threads : Holds(u, x)'
    BY <1>3, <1>5, <2>2, <2>3, <2>4 DEF LockInv, Acquires
  <2>7. QED
    BY <2>5, <2>6 DEF LockInv, Even
<1>6. ASSUME NEW b \in Buckets, Releases(t, b) PROVE LockInv'
  <2>1. \A u \in Threads : Holds(u, b) => u = t
    BY <1>6 DEF Releases, LockInv
  <2>2. \A x \in Buckets : counter'[x] = IF x = b THEN Bump(counter[b]) ELSE counter[x]
    BY <1>6 DEF Releases, TypeOK
  <2>3. \A u \in Threads, x \in Buckets : Holds(u, x)' <=> Holds(u, x) /\ x # b
    BY <1>1, <1>6, <2>1 DEF Releases
  <2>4. \A u, v \in Threads, x \in Buckets : Holds(u, x)' /\ Holds(v, x)' => u = v
    BY <2>3 DEF LockInv
  <2>5. \A x \in Buckets : ~Even(counter'[x]) <=> \E u \in Threads : Holds(u, x)'
    BY <1>3, <1>6, <2>2, <2>3 DEF LockInv, Releases
  <2>6. QED
    BY <2>4, <2>5 DEF LockInv, Even
<1>7. QED
  BY <1>2, <1>4, <1>5, <1>6 DEF LockStep

\* At most one thread owns a bucket, and its counter is odd exactly while one
\* does: increment_odd and increment_even make a lock of it although nothing
\* but the parity of a counter that wraps says who is inside, a kick chain
\* hands its buckets over one by one, and a call may hold two of them.
THEOREM LockCorrect == Spec => []LockInv
<1>1. Init => LockInv /\ KickInv
  <2> SUFFICES ASSUME Init PROVE LockInv /\ KickInv
    OBVIOUS
  <2>1. \A t \in Threads : pc[t] = "idle"
    BY DEF Init
  <2>2. \A t \in Threads, b \in Buckets : ~Holds(t, b)
    BY <2>1 DEF Holds, CurPCs, OldPCs, FirstPCs, SecondPCs
  <2>3. \A b \in Buckets : Even(counter[b])
    BY DEF Init, Even
  <2>4. QED
    BY <2>1, <2>2, <2>3 DEF LockInv, KickInv
<1>2. TypeOK /\ TypeOK' /\ LockInv /\ KickInv /\ [Next]_vars => LockInv' /\ KickInv'
  <2> SUFFICES ASSUME TypeOK, TypeOK', LockInv, KickInv, [Next]_vars
               PROVE  LockInv' /\ KickInv'
    OBVIOUS
  <2>1. ASSUME NEW t \in Threads, Begin(t) \/ Step(t) PROVE LockInv' /\ KickInv'
    <3>1. LockStep(t)
      BY <2>1, InsertLocks, PairLocks, FindLocks, AdaptLocks, CallLocks DEF Step
    <3>2. \A u \in Threads \ {t} : pc'[u] = pc[u] /\ loc'[u] = loc[u]
      BY <2>1, OthersKept
    <3>3. QED
      BY <3>1, <3>2, LockStepInv
  <2>2. CASE UNCHANGED vars
    BY <2>2 DEF vars, LockInv, KickInv, Holds, I1, I2
  <2>3. QED
    BY <2>1, <2>2 DEF Next
<1>3. QED
  BY <1>1, <1>2, TypeCorrect, PTL DEF Spec


-----------------------------------------------------------------------------
(* The tag table and the storage of the slots.                             *)


\* No thread looks up with an adaptation. findinfilter does not adapt.
NoLookups == \A t \in Threads : \A c \in Calls[t] : c.op # "find"

Home(key, b) == b \in {Index1[key], Index2[key]}

\* Where only find gets to.
AdaptingPCs == KeyPCs \cup AdaptPCs \cup {"find_val", "adapt_unlock"}
\* From the first displaced pair on, a thread carries another pair than its own.
ChainPCs == {"put_kv", "put_count", "put_unlock", "kick_tag", "kick_read", "kick_kv", "kick_lock",
             "kick_unlock", "victim_kv", "victim_val", "victim_used", "victim_unlock",
             "victim_count", "mutex_unlock", "ret"}
PlacePCs == {"first_tag", "put_kv", "second_lock", "kick_tag", "kick_read", "kick_kv",
             "kick_lock", "kick_unlock"}
HitPCs   == {"erase_tag", "erase_kv", "update_kv"}
TagPCs   == {"put_kv", "kick_read", "kick_kv"}

\* What a thread knows of the pair in its hands and of the bucket and the slot
\* it is at.
Local(t) ==
    /\ loc[t].op # "find" /\ loc[t].fps = <<>> /\ pc[t] \notin AdaptingPCs
    /\ pc[t] \notin ChainPCs => loc[t].carried[1] = loc[t].key
    /\ pc[t] \in PlacePCs => Home(loc[t].carried[1], loc[t].cur)
    /\ pc[t] \in HitPCs => Home(loc[t].key, loc[t].cur)
    /\ pc[t] \in TagPCs => tags[loc[t].cur][loc[t].slot] = Tag[loc[t].carried[1]][loc[t].slot]
    /\ pc[t] = "update_kv" => tags[loc[t].cur][loc[t].slot] = Tag[loc[t].key][loc[t].slot]
    /\ pc[t] = "erase_kv" => tags[loc[t].cur][loc[t].slot] = 0

\* A slot agrees with its tag.
SlotOK(b, s) ==
    /\ occupied[b][s] <=> tags[b][s] # 0
    /\ occupied[b][s] => tags[b][s] = Tag[kv[b][s][1]][s] /\ Home(kv[b][s][1], b)

\* Thread t has written the tag of a slot and not yet the slot.
Dirty(t, b, s) ==
    /\ pc[t] \in TagPCs \cup {"erase_kv"}
    /\ b = loc[t].cur /\ s = loc[t].slot

\* Every slot agrees with its tag, but for those that a thread is half-way through.
AgreeInv ==
    /\ \A t \in Threads : Local(t)
    /\ \A b \in Buckets, s \in Slots : SlotOK(b, s) \/ \E t \in Threads : Dirty(t, b, s)

-----------------------------------------------------------------------------
(* What one step of thread t does to the table: nothing, or it writes one  *)
(* slot of a bucket it holds and leaves it in order or half-way.           *)

Untouched(t) ==
    /\ table' = table
    /\ \A b \in Buckets, s \in Slots : Dirty(t, b, s) => Dirty(t, b, s)'

Same(b) == tags'[b] = tags[b] /\ kv'[b] = kv[b] /\ occupied'[b] = occupied[b]
SameSlot(b, s) ==
    tags'[b][s] = tags[b][s] /\ kv'[b][s] = kv[b][s] /\ occupied'[b][s] = occupied[b][s]

Writes(t, b, s) ==
    /\ Holds(t, b) /\ pc'[t] # pc[t]
    /\ \A c \in Buckets \ {b} : Same(c)
    /\ \A r \in Slots \ {s} : SameSlot(b, r)
    /\ \A c \in Buckets, r \in Slots : Dirty(t, c, r) => c = b /\ r = s
    /\ SlotOK(b, s)' \/ Dirty(t, b, s)'

TableStep(t) ==
    /\ Local(t)'
    /\ Untouched(t) \/ \E b \in Buckets, s \in Slots : Writes(t, b, s)

\* A thread holds the bucket whose slot it is at.
LEMMA HoldsCur ==
    ASSUME NEW t \in Threads, Local(t), pc[t] \in TagPCs \cup HitPCs \cup {"first_tag", "kick_tag"}
    PROVE  Holds(t, loc[t].cur)
BY DEF Local, TagPCs, HitPCs, Home, Holds, CurPCs, FirstPCs, SecondPCs, I1, I2

\* One step of t leaves the others' slots alone.
LEMMA TableStepInv ==
    ASSUME TypeOK, TypeOK', LockInv, AgreeInv, NEW t \in Threads, TableStep(t),
           \A u \in Threads \ {t} : pc'[u] = pc[u] /\ loc'[u] = loc[u]
    PROVE  AgreeInv'
<1>1. CASE Untouched(t)
  <2>1. tags' = tags /\ kv' = kv /\ occupied' = occupied
    BY <1>1 DEF Untouched, table
  <2>2. \A u \in Threads \ {t} : Local(u)'
    BY <2>1 DEF AgreeInv, Local, Home
  <2>3. \A b \in Buckets, s \in Slots : SlotOK(b, s)' <=> SlotOK(b, s)
    BY <2>1 DEF SlotOK
  <2>4. \A u \in Threads, b \in Buckets, s \in Slots : Dirty(u, b, s) => Dirty(u, b, s)'
    BY <1>1 DEF Untouched, Dirty
  <2>5. \A b \in Buckets, s \in Slots : SlotOK(b, s)' \/ \E u \in Threads : Dirty(u, b, s)'
    BY <2>3, <2>4 DEF AgreeInv
  <2>6. QED
    BY <2>2, <2>5 DEF AgreeInv, TableStep
<1>2. ASSUME NEW b \in Buckets, NEW s \in Slots, Writes(t, b, s) PROVE AgreeInv'
  <2>1. \A c \in Buckets \ {b} : Same(c)
    BY <1>2 DEF Writes
  <2>2. \A u \in Threads \ {t} : Local(u)'
    <3> SUFFICES ASSUME NEW u \in Threads \ {t} PROVE Local(u)'
      OBVIOUS
    <3>1. Local(u) /\ loc[u].cur \in Buckets
      BY LocalTypes DEF AgreeInv
    <3>2. pc[u] \in TagPCs \cup HitPCs => Holds(u, loc[u].cur)
      BY <3>1, HoldsCur
    <3>3. pc[u] \in TagPCs \cup HitPCs => loc[u].cur # b
      BY <1>2, <3>1, <3>2 DEF Writes, LockInv
    <3>4. pc[u] \in TagPCs \cup HitPCs => tags'[loc[u].cur] = tags[loc[u].cur]
      BY <2>1, <3>1, <3>3 DEF Same
    <3>5. pc'[u] = pc[u] /\ loc'[u] = loc[u]
      OBVIOUS
    <3>6. QED
      BY <3>1, <3>4, <3>5 DEF Local, Home, HitPCs
  <2>3. \A c \in Buckets, r \in Slots : c # b \/ r # s => SameSlot(c, r)
    BY <1>2 DEF Writes, Same, SameSlot
  <2>4. \A u \in Threads, c \in Buckets, r \in Slots :
           (c # b \/ r # s) /\ Dirty(u, c, r) => Dirty(u, c, r)'
    BY <1>2 DEF Writes, Dirty
  <2>5. ASSUME NEW c \in Buckets, NEW r \in Slots
        PROVE  SlotOK(c, r)' \/ \E u \in Threads : Dirty(u, c, r)'
    <3>1. CASE c = b /\ r = s
      BY <1>2, <3>1 DEF Writes
    <3>2. CASE c # b \/ r # s
      <4>1. SlotOK(c, r) => SlotOK(c, r)'
        BY <2>3, <3>2 DEF SameSlot, SlotOK
      <4>2. QED
        BY <2>4, <3>2, <4>1 DEF AgreeInv
    <3>3. QED
      BY <3>1, <3>2
  <2>6. QED
    BY <2>2, <2>5 DEF AgreeInv, TableStep
<1>3. QED
  BY <1>1, <1>2 DEF TableStep

-----------------------------------------------------------------------------
(* Every step is of this kind. *)

\* Writing a local variable leaves the others as they are.
LEMMA OtherFields ==
    ASSUME NEW r \in LocType
    PROVE  /\ \A x : LET q == [r EXCEPT !.cur = x]
                     IN  q.op = r.op /\ q.key = r.key /\ q.cur = x /\ q.slot = r.slot
                         /\ q.carried = r.carried /\ q.fps = r.fps
           /\ \A x : LET q == [r EXCEPT !.slot = x]
                     IN  q.op = r.op /\ q.key = r.key /\ q.cur = r.cur /\ q.slot = x
                         /\ q.carried = r.carried /\ q.fps = r.fps
           /\ \A x : LET q == [r EXCEPT !.out = x]
                     IN  q.op = r.op /\ q.key = r.key /\ q.cur = r.cur /\ q.slot = r.slot
                         /\ q.carried = r.carried /\ q.fps = r.fps
           /\ \A x : LET q == [r EXCEPT !.spare = x]
                     IN  q.op = r.op /\ q.key = r.key /\ q.cur = r.cur /\ q.slot = r.slot
                         /\ q.carried = r.carried /\ q.fps = r.fps
           /\ \A p, n, x, y :
                 LET q == [r EXCEPT !.carried = p, !.kicks = n, !.old = x, !.cur = y]
                 IN  q.op = r.op /\ q.key = r.key /\ q.cur = y /\ q.slot = r.slot
                     /\ q.carried = p /\ q.fps = r.fps
           /\ \A x, y, z :
                 LET q == [r EXCEPT !.cur = x, !.slot = y, !.out = z]
                 IN  q.op = r.op /\ q.key = r.key /\ q.cur = x /\ q.slot = y
                     /\ q.carried = r.carried /\ q.fps = r.fps
           /\ \A x, y :
                 LET q == [r EXCEPT !.c2 = x, !.fps = y]
                 IN  q.op = r.op /\ q.key = r.key /\ q.carried = r.carried /\ q.fps = y
           /\ \A x, y :
                 LET q == [r EXCEPT !.todo = x, !.out = y]
                 IN  q.op = r.op /\ q.key = r.key /\ q.carried = r.carried /\ q.fps = r.fps
           /\ \A x :
                 LET q == [r EXCEPT !.got = x]
                 IN  q.op = r.op /\ q.key = r.key /\ q.carried = r.carried /\ q.fps = r.fps
BY DEF LocType

LEMMA FreeSlotIn ==
    ASSUME NEW b \in Buckets, FreeSlots(b) # {}
    PROVE  FirstOf(FreeSlots(b)) \in Slots
BY FirstOfIn DEF FreeSlots

\* Writing one slot, under the tag of its new key.
LEMMA StorePair ==
    ASSUME TypeOK, NEW b \in Buckets, NEW s \in Slots, NEW p \in Pairs,
           tags' = tags, kv' = [kv EXCEPT ![b][s] = p],
           occupied' = [occupied EXCEPT ![b][s] = TRUE],
           tags[b][s] = Tag[p[1]][s], Home(p[1], b)
    PROVE  /\ SlotOK(b, s)'
           /\ \A c \in Buckets \ {b} : Same(c)
           /\ \A r \in Slots \ {s} : SameSlot(b, r)
<1>1. tags'[b][s] = Tag[p[1]][s] /\ kv'[b][s] = p /\ occupied'[b][s] = TRUE
  BY DEF TypeOK
<1>2. Tag[p[1]][s] # 0
  BY HashAssumption DEF Pairs
<1>3. SlotOK(b, s)'
  BY <1>1, <1>2 DEF SlotOK, Home
<1>4. QED
  BY <1>3 DEF TypeOK, Same, SameSlot

\* A write of the slot that the thread is at is a step of the second kind.
LEMMA WriteStep ==
    ASSUME NEW t \in Threads, Local(t), Local(t)',
           NEW b \in Buckets, NEW s \in Slots, Holds(t, b), pc'[t] # pc[t],
           \A c \in Buckets \ {b} : Same(c), \A r \in Slots \ {s} : SameSlot(b, r),
           pc[t] \in TagPCs \cup {"erase_kv"} => b = loc[t].cur /\ s = loc[t].slot,
           SlotOK(b, s)' \/ Dirty(t, b, s)'
    PROVE  TableStep(t)
BY DEF TableStep, Writes, Dirty

LEMMA TakeFreeSlotTable ==
    ASSUME TypeOK, NEW t \in Threads, Local(t), TakeFreeSlot(t)
    PROVE  TableStep(t)
<1>0. PICK b \in Buckets, s \in Slots : b = loc[t].cur /\ s = FirstOf(FreeSlots(b))
  BY FreeSlotIn, LocalTypes DEF TakeFreeSlot
<1>1. PICK x \in Nat : /\ b = loc[t].cur /\ s = FirstOf(FreeSlots(b))
                        /\ x = Tag[loc[t].carried[1]][s]
  BY <1>0, LocalTypes, TagType
<1>2. /\ tags' = [tags EXCEPT ![b][s] = x]
      /\ kv' = kv /\ occupied' = occupied
  BY <1>1 DEF TakeFreeSlot, WriteTag
<1>3. /\ pc[t] \in {"first_tag", "kick_tag"} /\ pc'[t] = "put_kv"
      /\ loc'[t] = [loc[t] EXCEPT !.slot = s]
  BY <1>1 DEF TakeFreeSlot, Goto, TypeOK
<1>4. Holds(t, b)
  BY <1>1, <1>3, HoldsCur
<1>5. Home(loc[t].carried[1], b) /\ loc[t].op # "find" /\ loc[t].fps = <<>>
  BY <1>1, <1>3 DEF Local, PlacePCs
<1>6. /\ loc'[t].op = loc[t].op /\ loc'[t].fps = loc[t].fps
      /\ loc'[t].carried = loc[t].carried /\ loc'[t].cur = b /\ loc'[t].slot = s
  BY <1>1, <1>3, LocalTypes, OtherFields
<1>7. /\ tags'[b][s] = x
      /\ \A c \in Buckets \ {b} : Same(c)
      /\ \A r \in Slots \ {s} : SameSlot(b, r)
  BY <1>1, <1>2 DEF TypeOK, Same, SameSlot
<1>8. Local(t)' /\ Dirty(t, b, s)'
  BY <1>1, <1>3, <1>5, <1>6, <1>7 DEF Local, Dirty, Home, AdaptingPCs, KeyPCs, AdaptPCs, ChainPCs,
     PlacePCs, HitPCs, TagPCs
<1>9. pc[t] \notin TagPCs \cup {"erase_kv"} /\ pc'[t] # pc[t]
  BY <1>3 DEF TagPCs
<1>10. QED
  BY <1>1, <1>4, <1>7, <1>8, <1>9, WriteStep

LEMMA PutKVTable ==
    ASSUME TypeOK, NEW t \in Threads, Local(t), PutKV(t)
    PROVE  TableStep(t)
<1>5. PICK b \in Buckets, s \in Slots, p \in Pairs :
         b = loc[t].cur /\ s = loc[t].slot /\ p = loc[t].carried
  BY LocalTypes
<1>1. /\ tags' = tags /\ kv' = [kv EXCEPT ![b][s] = p]
      /\ occupied' = [occupied EXCEPT ![b][s] = TRUE]
  BY <1>5 DEF PutKV, setKV
<1>2. pc[t] = "put_kv" /\ pc'[t] = "put_count" /\ loc' = loc
  BY DEF PutKV, At, Goto, TypeOK
<1>3. Holds(t, b)
  BY <1>2, <1>5, HoldsCur DEF TagPCs
<1>4. /\ Home(p[1], b) /\ tags[b][s] = Tag[p[1]][s]
      /\ loc[t].op # "find" /\ loc[t].fps = <<>>
  BY <1>2, <1>5 DEF Local, PlacePCs, TagPCs
<1>6. /\ SlotOK(b, s)'
      /\ \A c \in Buckets \ {b} : Same(c)
      /\ \A r \in Slots \ {s} : SameSlot(b, r)
  BY <1>1, <1>4, <1>5, StorePair
<1>7. Local(t)'
  BY <1>2, <1>4 DEF Local, AdaptingPCs, KeyPCs, AdaptPCs, ChainPCs, PlacePCs, HitPCs, TagPCs
<1>8. QED
  BY <1>2, <1>3, <1>5, <1>6, <1>7, WriteStep

LEMMA KickOutTable ==
    ASSUME TypeOK, NEW t \in Threads, Local(t), KickOut(t)
    PROVE  TableStep(t)
<1>0. PICK b \in Buckets, s \in Slots :
         /\ b = loc[t].cur
         /\ tags' = [tags EXCEPT ![b][s] = Tag[loc[t].carried[1]][s]]
         /\ loc' = [loc EXCEPT ![t].slot = s]
  BY LocalTypes DEF KickOut, WriteTag
<1>1. PICK x \in Nat : b = loc[t].cur /\ x = Tag[loc[t].carried[1]][s]
  BY <1>0, LocalTypes, TagType
<1>2. tags' = [tags EXCEPT ![b][s] = x] /\ kv' = kv /\ occupied' = occupied
  BY <1>0, <1>1 DEF KickOut
<1>3. /\ pc[t] = "kick_tag" /\ pc'[t] = "kick_read"
      /\ loc'[t] = [loc[t] EXCEPT !.slot = s]
  BY <1>0 DEF KickOut, At, Goto, TypeOK
<1>4. Holds(t, b)
  BY <1>1, <1>3, HoldsCur
<1>5. Home(loc[t].carried[1], b) /\ loc[t].op # "find" /\ loc[t].fps = <<>>
  BY <1>1, <1>3 DEF Local, PlacePCs
<1>6. /\ loc'[t].op = loc[t].op /\ loc'[t].fps = loc[t].fps
      /\ loc'[t].carried = loc[t].carried /\ loc'[t].cur = b /\ loc'[t].slot = s
  BY <1>1, <1>3, LocalTypes, OtherFields
<1>7. /\ tags'[b][s] = x
      /\ \A c \in Buckets \ {b} : Same(c)
      /\ \A r \in Slots \ {s} : SameSlot(b, r)
  BY <1>1, <1>2 DEF TypeOK, Same, SameSlot
<1>8. Local(t)' /\ Dirty(t, b, s)'
  BY <1>1, <1>3, <1>5, <1>6, <1>7 DEF Local, Dirty, Home, AdaptingPCs, KeyPCs, AdaptPCs, ChainPCs,
     PlacePCs, HitPCs, TagPCs
<1>9. pc[t] \notin TagPCs \cup {"erase_kv"} /\ pc'[t] # pc[t]
  BY <1>3 DEF TagPCs
<1>10. QED
  BY <1>2, <1>4, <1>7, <1>8, <1>9, WriteStep

LEMMA KickKVTable ==
    ASSUME TypeOK, NEW t \in Threads, Local(t), KickKV(t)
    PROVE  TableStep(t)
<1>5. PICK b \in Buckets, s \in Slots, p \in Pairs :
         b = loc[t].cur /\ s = loc[t].slot /\ p = loc[t].carried
  BY LocalTypes
<1> DEFINE next == OtherBucket(loc[t].spare[1], b)
<1>1. /\ tags' = tags /\ kv' = [kv EXCEPT ![b][s] = p]
      /\ occupied' = [occupied EXCEPT ![b][s] = TRUE]
  BY <1>5 DEF KickKV, setKV
<1>2. /\ pc[t] = "kick_kv" /\ pc'[t] \in {"kick_tag", "victim_kv", "kick_lock"}
      /\ loc'[t] = [loc[t] EXCEPT !.carried = loc[t].spare, !.kicks = loc[t].kicks + 1,
                                  !.old = b, !.cur = next]
  BY <1>5 DEF KickKV, NextRound, At, Goto, TypeOK
<1>3. Holds(t, b)
  BY <1>2, <1>5, HoldsCur DEF TagPCs
<1>4. /\ Home(p[1], b) /\ tags[b][s] = Tag[p[1]][s]
      /\ loc[t].op # "find" /\ loc[t].fps = <<>>
  BY <1>2, <1>5 DEF Local, PlacePCs, TagPCs
<1>6. Home(loc[t].spare[1], next)
  BY DEF OtherBucket, Home
<1> HIDE DEF next
<1>7. /\ SlotOK(b, s)'
      /\ \A c \in Buckets \ {b} : Same(c)
      /\ \A r \in Slots \ {s} : SameSlot(b, r)
  BY <1>1, <1>4, <1>5, StorePair
<1>8. /\ loc'[t].op = loc[t].op /\ loc'[t].fps = loc[t].fps
      /\ loc'[t].carried = loc[t].spare /\ loc'[t].cur = next
  BY <1>2, LocalTypes, OtherFields
<1>9. Local(t)'
  BY <1>2, <1>4, <1>6, <1>8 DEF Local, Home, AdaptingPCs, KeyPCs, AdaptPCs, ChainPCs,
     PlacePCs, HitPCs, TagPCs
<1>10. pc'[t] # pc[t]
  BY <1>2
<1>11. QED
  BY <1>3, <1>5, <1>7, <1>9, <1>10, WriteStep

LEMMA EraseTable ==
    ASSUME TypeOK, NEW t \in Threads, Local(t), EraseTag(t) \/ EraseKV(t)
    PROVE  TableStep(t)
<1>0. PICK b \in Buckets, s \in Slots : b = loc[t].cur /\ s = loc[t].slot
  BY LocalTypes
<1>1. /\ b = loc[t].cur /\ s = loc[t].slot /\ loc' = loc
      /\ pc[t] \in {"erase_tag", "erase_kv"}
  BY <1>0 DEF EraseTag, EraseKV, At
<1>2. Holds(t, b)
  BY <1>1, HoldsCur DEF HitPCs
<1>3. /\ Home(loc[t].key, b) /\ loc[t].carried[1] = loc[t].key
      /\ loc[t].op # "find" /\ loc[t].fps = <<>>
  BY <1>1 DEF Local, HitPCs, ChainPCs
<1>4. CASE EraseTag(t)
  <2>1. tags' = [tags EXCEPT ![b][s] = 0] /\ kv' = kv /\ occupied' = occupied
    BY <1>1, <1>4 DEF EraseTag, WriteTag
  <2>2. pc[t] = "erase_tag" /\ pc'[t] = "erase_kv"
    BY <1>4 DEF EraseTag, At, Goto, TypeOK
  <2>3. /\ tags'[b][s] = 0
        /\ \A c \in Buckets \ {b} : Same(c)
        /\ \A r \in Slots \ {s} : SameSlot(b, r)
    BY <1>1, <2>1 DEF TypeOK, Same, SameSlot
  <2>4. Local(t)' /\ Dirty(t, b, s)'
    BY <1>1, <1>3, <2>2, <2>3 DEF Local, Dirty, Home, AdaptingPCs, KeyPCs, AdaptPCs, ChainPCs,
       PlacePCs, HitPCs, TagPCs
  <2>5. QED
    BY <1>1, <1>2, <2>2, <2>3, <2>4, WriteStep DEF TagPCs
<1>5. CASE EraseKV(t)
  <2>1. tags' = tags /\ kv' = kv /\ occupied' = [occupied EXCEPT ![b][s] = FALSE]
    BY <1>1, <1>5 DEF EraseKV, eraseKV
  <2>2. pc[t] = "erase_kv" /\ pc'[t] = "erase_unlock1"
    BY <1>5 DEF EraseKV, At, Goto, TypeOK
  <2>3. tags[b][s] = 0
    BY <1>1, <2>2 DEF Local
  <2>4. /\ occupied'[b][s] = FALSE /\ tags'[b][s] = 0
        /\ \A c \in Buckets \ {b} : Same(c)
        /\ \A r \in Slots \ {s} : SameSlot(b, r)
    BY <1>1, <2>1, <2>3 DEF TypeOK, Same, SameSlot
  <2>5. SlotOK(b, s)'
    BY <2>4 DEF SlotOK
  <2>6. Local(t)'
    BY <1>1, <1>3, <2>2 DEF Local, AdaptingPCs, KeyPCs, AdaptPCs, ChainPCs,
       PlacePCs, HitPCs, TagPCs
  <2>7. QED
    BY <1>1, <1>2, <2>2, <2>4, <2>5, <2>6, WriteStep
<1>6. QED
  BY <1>4, <1>5

LEMMA UpdateKVTable ==
    ASSUME TypeOK, NEW t \in Threads, Local(t), UpdateKV(t)
    PROVE  TableStep(t)
<1>5. PICK b \in Buckets, s \in Slots, p \in Pairs :
         b = loc[t].cur /\ s = loc[t].slot /\ p = <<loc[t].key, loc[t].val>>
  BY LocalTypes DEF Pairs
<1>1. /\ tags' = tags /\ kv' = [kv EXCEPT ![b][s] = p]
      /\ occupied' = [occupied EXCEPT ![b][s] = TRUE]
  BY <1>5 DEF UpdateKV, setKV
<1>2. pc[t] = "update_kv" /\ pc'[t] = "pair_unlock2" /\ loc' = loc
  BY DEF UpdateKV, At, Goto, TypeOK
<1>3. Holds(t, b)
  BY <1>2, <1>5, HoldsCur DEF HitPCs
<1>4. /\ Home(p[1], b) /\ tags[b][s] = Tag[p[1]][s] /\ loc[t].carried[1] = loc[t].key
      /\ loc[t].op # "find" /\ loc[t].fps = <<>>
  BY <1>2, <1>5 DEF Local, HitPCs, ChainPCs
<1>6. /\ SlotOK(b, s)'
      /\ \A c \in Buckets \ {b} : Same(c)
      /\ \A r \in Slots \ {s} : SameSlot(b, r)
  BY <1>1, <1>4, <1>5, StorePair
<1>7. Local(t)'
  BY <1>2, <1>4 DEF Local, AdaptingPCs, KeyPCs, AdaptPCs, ChainPCs, PlacePCs, HitPCs, TagPCs
<1>8. pc[t] \notin TagPCs \cup {"erase_kv"} /\ pc'[t] # pc[t]
  BY <1>2 DEF TagPCs
<1>9. QED
  BY <1>3, <1>5, <1>6, <1>7, <1>8, WriteStep

LEMMA InsertTable ==
    ASSUME TypeOK, NEW t \in Threads, Local(t), InsertStep(t)
    PROVE  TableStep(t)
<1> USE DEF TableStep, Untouched, Local, Dirty, Home, AdaptingPCs, KeyPCs, AdaptPCs, ChainPCs,
            PlacePCs, HitPCs, TagPCs, At, Goto, TypeOK, Finish, I1, I2
<1>1. CASE FirstLock(t)
  BY <1>1, LocalTypes, OtherFields DEF FirstLock, table
<1>2. CASE TakeFreeSlot(t)
  BY <1>2, TakeFreeSlotTable
<1>3. CASE FirstFull(t)
  BY <1>3 DEF FirstFull
<1>4. CASE PutKV(t)
  BY <1>4, PutKVTable
<1>5. CASE PutCount(t)
  BY <1>5 DEF PutCount
<1>6. CASE PutUnlock(t)
  <2>1. CASE Finish(t, TRUE)
    BY <1>6, <2>1, LocalTypes, OtherFields DEF PutUnlock, table
  <2>2. CASE Goto(t, "mutex_unlock") /\ UNCHANGED loc
    BY <1>6, <2>2 DEF PutUnlock
  <2>3. QED
    BY <1>6, <2>1, <2>2 DEF PutUnlock
<1>7. CASE FullUnlock(t)
  BY <1>7 DEF FullUnlock
<1>8. CASE InsertMutex(t)
  BY <1>8 DEF InsertMutex
<1>9. CASE InsertRefused(t)
  BY <1>9, LocalTypes, OtherFields DEF InsertRefused, table
<1>10. CASE InsertProceed(t)
  BY <1>10, LocalTypes, OtherFields DEF InsertProceed, table
<1>11. CASE SecondLock(t)
  BY <1>11 DEF SecondLock
<1>12. CASE KickOut(t)
  BY <1>12, KickOutTable
<1>13. CASE KickRead(t)
  BY <1>13, LocalTypes, OtherFields DEF KickRead, table
<1>14. CASE KickKV(t)
  BY <1>14, KickKVTable
<1>15. CASE KickLock(t)
  BY <1>15 DEF KickLock
<1>16. CASE KickUnlock(t)
  BY <1>16 DEF KickUnlock, NextRound
<1>17. CASE VictimKV(t)
  BY <1>17 DEF VictimKV, VictimKey, VictimVal
<1>18. CASE VictimUsed(t)
  BY <1>18 DEF VictimUsed
<1>19. CASE VictimUnlock(t)
  BY <1>19 DEF VictimUnlock
<1>20. CASE VictimCount(t)
  BY <1>20 DEF VictimCount
<1>21. CASE MutexUnlock(t)
  BY <1>21, LocalTypes, OtherFields DEF MutexUnlock, table
<1>22. QED
  BY <1>1, <1>2, <1>3, <1>4, <1>5, <1>6, <1>7, <1>8, <1>9, <1>10, <1>11, <1>12,
     <1>13, <1>14, <1>15, <1>16, <1>17, <1>18, <1>19, <1>20, <1>21 DEF InsertStep

LEMMA PairTable ==
    ASSUME TypeOK, NEW t \in Threads, Local(t), PairStep(t)
    PROVE  TableStep(t)
<1> USE DEF TableStep, Untouched, Local, Dirty, Home, AdaptingPCs, KeyPCs, AdaptPCs, ChainPCs,
            PlacePCs, HitPCs, TagPCs, At, Goto, TypeOK, Finish, I1, I2
<1>1. CASE PairLock1(t)
  BY <1>1 DEF PairLock1
<1>2. CASE PairLock2(t)
  BY <1>2 DEF PairLock2
<1>3. CASE PairHit(t)
  <2> DEFINE key == loc[t].key
  <2>0. PICK b \in {I1(t), I2(t)} :
           /\ table' = table
           /\ Hits(b, key) # {}
           /\ loc' = [loc EXCEPT ![t].cur = b, ![t].slot = FirstOf(Hits(b, key)), ![t].out = TRUE]
           /\ pc[t] = "pair_scan" /\ pc'[t] \in {"erase_tag", "update_kv"}
    BY <1>3 DEF PairHit
  <2>1. PICK s : /\ table' = table
                 /\ Hits(b, key) # {} /\ s = FirstOf(Hits(b, key))
                 /\ loc'[t] = [loc[t] EXCEPT !.cur = b, !.slot = s, !.out = TRUE]
                 /\ pc[t] = "pair_scan" /\ pc'[t] \in {"erase_tag", "update_kv"}
    BY <2>0
  <2>2. s \in Hits(b, key)
    <3>1. Hits(b, key) \in SUBSET Slots
      BY DEF Hits, Matches
    <3>2. QED
      BY <2>1, <3>1, FirstOfIn
  <2>3. tags[b][s] = Tag[key][s]
    BY <2>2 DEF Hits, Matches
  <2>6. /\ loc'[t].op = loc[t].op /\ loc'[t].fps = loc[t].fps /\ loc'[t].key = key
        /\ loc'[t].carried = loc[t].carried /\ loc'[t].cur = b /\ loc'[t].slot = s
    BY <2>1, LocalTypes, OtherFields
  <2>7. tags' = tags /\ b \in {Index1[key], Index2[key]}
    BY <2>0, <2>1 DEF table
  <2>4. Local(t)'
    BY <2>1, <2>3, <2>6, <2>7
  <2>5. QED
    BY <2>1, <2>4
<1>4. CASE PairMiss(t)
  BY <1>4 DEF PairMiss
<1>5. CASE EraseTag(t)
  BY <1>5, EraseTable
<1>6. CASE EraseKV(t)
  BY <1>6, EraseTable
<1>7. CASE EraseUnlock1(t)
  BY <1>7 DEF EraseUnlock1
<1>8. CASE EraseUnlock2(t)
  BY <1>8 DEF EraseUnlock2
<1>9. CASE EraseCount(t)
  BY <1>9, LocalTypes, OtherFields DEF EraseCount, table
<1>10. CASE UpdateKV(t)
  BY <1>10, UpdateKVTable
<1>11. CASE PairUnlock2(t)
  BY <1>11 DEF PairUnlock2, AfterPair
<1>12. CASE PairUnlock1(t)
  BY <1>12 DEF PairUnlock1, AfterPair
<1>13. CASE MissMutex(t)
  BY <1>13 DEF MissMutex
<1>14. CASE MissVictim(t)
  <2>1. CASE IsVictim(loc[t].key)
    <3>1. loc' = [loc EXCEPT ![t].out = TRUE]
      BY <1>14, <2>1 DEF MissVictim
    <3>2. pc[t] = "miss_victim" /\ pc'[t] = "miss_unlock" /\ table' = table
      BY <1>14 DEF MissVictim
    <3>3. QED
      BY <3>1, <3>2, LocalTypes, OtherFields DEF table
  <2>2. CASE ~IsVictim(loc[t].key)
    BY <1>14, <2>2 DEF MissVictim
  <2>3. QED
    BY <2>1, <2>2
<1>15. CASE MissUnlock(t)
  BY <1>15 DEF MissUnlock
<1>16. QED
  BY <1>1, <1>2, <1>3, <1>4, <1>5, <1>6, <1>7, <1>8, <1>9, <1>10, <1>11, <1>12,
     <1>13, <1>14, <1>15 DEF PairStep

LEMMA FindTable ==
    ASSUME TypeOK, NEW t \in Threads, Local(t), FindStep(t) \/ AdaptStep(t)
    PROVE  TableStep(t)
<1> USE DEF TableStep, Untouched, Local, Dirty, Home, AdaptingPCs, KeyPCs, AdaptPCs, ChainPCs,
            PlacePCs, HitPCs, TagPCs, At, Goto, TypeOK, I1, I2
<1>1. CASE FindEven1(t)
  BY <1>1 DEF FindEven1
<1>2. CASE FindEven2(t)
  <2>1. loc' = [loc EXCEPT ![t].c2 = counter[I2(t)], ![t].fps = <<>>] /\ table' = table
    BY <1>2 DEF FindEven2
  <2>2. /\ loc'[t].op = loc[t].op /\ loc'[t].key = loc[t].key
        /\ loc'[t].carried = loc[t].carried /\ loc'[t].fps = <<>>
    BY <2>1, LocalTypes, OtherFields
  <2>3. pc[t] = "find_even2" /\ pc'[t] = "find_read1"
    BY <1>2 DEF FindEven2
  <2>4. QED
    BY <2>1, <2>2, <2>3
<1>3. CASE FindBreak(t)
  BY <1>3 DEF FindBreak
<1>4. CASE FindRead1(t)
  <2>1. /\ pc[t] = "find_read1" /\ table' = table
        /\ loc' = [loc EXCEPT ![t].todo = Matches(I1(t), loc[t].key),
                              ![t].out = loc[t].op = "findinfilter" /\ Matches(I1(t), loc[t].key) # {}]
    BY <1>4 DEF FindRead1, ReadWord, table
  <2>2. /\ loc'[t].op = loc[t].op /\ loc'[t].key = loc[t].key
        /\ loc'[t].carried = loc[t].carried /\ loc'[t].fps = loc[t].fps
    BY <2>1, LocalTypes, OtherFields
  <2>3. loc[t].op # "find"
    OBVIOUS
  <2>4. pc'[t] \in {"find_read2", "ret"}
    BY <1>4, <2>3 DEF FindRead1, ReadWord
  <2>5. QED
    BY <2>1, <2>2, <2>4
<1>5. CASE FindRead2(t)
  <2>1. /\ pc[t] = "find_read2" /\ table' = table
        /\ loc' = [loc EXCEPT ![t].todo = Matches(I2(t), loc[t].key),
                              ![t].out = loc[t].op = "findinfilter" /\ Matches(I2(t), loc[t].key) # {}]
    BY <1>5 DEF FindRead2, ReadWord, table
  <2>2. /\ loc'[t].op = loc[t].op /\ loc'[t].key = loc[t].key
        /\ loc'[t].carried = loc[t].carried /\ loc'[t].fps = loc[t].fps
    BY <2>1, LocalTypes, OtherFields
  <2>3. loc[t].op # "find"
    OBVIOUS
  <2>4. pc'[t] \in {"find_again", "ret"}
    BY <1>5, <2>3 DEF FindRead2, ReadWord
  <2>5. QED
    BY <2>1, <2>2, <2>4
<1>6. CASE FindAgain(t)
  BY <1>6 DEF FindAgain
<1>7. CASE FindVictim(t)
  BY <1>7 DEF FindVictim, Adaptation
<1>8. CASE FindVKey(t)
  <2>1. pc[t] = "find_vkey" /\ table' = table
    BY <1>8 DEF FindVKey
  <2>2. CASE victim.key = loc[t].key
    <3>1. loc' = [loc EXCEPT ![t].out = TRUE] /\ pc'[t] = "ret"
      BY <1>8, <2>2 DEF FindVKey
    <3>2. QED
      BY <2>1, <3>1, LocalTypes, OtherFields
  <2>3. CASE victim.key # loc[t].key
    <3>1. loc' = loc /\ pc'[t] = "ret"
      BY <1>8, <2>3 DEF FindVKey, Adaptation
    <3>2. QED
      BY <2>1, <3>1 DEF table
  <2>4. QED
    BY <2>2, <2>3
<1>9. CASE FindVVal(t)
  BY <1>9, LocalTypes, OtherFields DEF FindVVal, table
<1>10. ~(FindKey1(t) \/ FindKey2(t) \/ FindVal(t) \/ AdaptStep(t))
  BY DEF FindKey1, FindKey2, FindVal, AdaptStep, AdaptLock, RfRead, RfReadTag, RfReadSlot,
     RfReadNewSlot, RfTagNew, RfTagSlot,
     RfKVNew, RfKVSlot, AdaptUnlock
<1>11. QED
  BY <1>1, <1>2, <1>3, <1>4, <1>5, <1>6, <1>7, <1>8, <1>9, <1>10 DEF FindStep

LEMMA CallTable ==
    ASSUME TypeOK, NEW t \in Threads, loc'[t].op # "find", Local(t), Begin(t) \/ Return(t)
    PROVE  TableStep(t)
<1> USE DEF TableStep, Untouched, Local, Dirty, Home, AdaptingPCs, KeyPCs, AdaptPCs, ChainPCs,
            PlacePCs, HitPCs, TagPCs, At, Goto, TypeOK
<1>1. CASE Begin(t)
  <2>1. PICK p \in {"first_lock", "pair_lock1", "find_even1"} : Goto(t, p)
    BY <1>1, BeginPlace
  <2>2. PICK c \in Calls[t] : loc' = [loc EXCEPT ![t] = Fresh(c.op, c.key, c.val)]
    BY <1>1 DEF Begin
  <2>3. table' = table /\ pc[t] = "idle"
    BY <1>1 DEF Begin
  <2>4. loc'[t].fps = <<>> /\ loc'[t].carried[1] = loc'[t].key
    BY <2>2 DEF Fresh
  <2>5. QED
    BY <2>1, <2>3, <2>4
<1>2. CASE Return(t)
  <2>1. pc'[t] = "idle" /\ pc[t] = "ret" /\ table' = table /\ loc'[t] = idle
    BY <1>2 DEF Return
  <2>2. idle.op = "insert" /\ idle.fps = <<>> /\ idle.carried[1] = idle.key
    BY DEF idle, Fresh
  <2>3. QED
    BY <2>1, <2>2
<1>3. QED
  BY <1>1, <1>2

LEMMA AgreeInit == Init => AgreeInv
<1> SUFFICES ASSUME Init PROVE AgreeInv
  OBVIOUS
<1>1. ASSUME NEW t \in Threads PROVE Local(t)
  <2>1. pc[t] = "idle" /\ loc[t] = idle
    BY DEF Init
  <2>2. idle.op = "insert" /\ idle.fps = <<>> /\ idle.carried[1] = idle.key
    BY DEF idle, Fresh
  <2>3. QED
    BY <2>1, <2>2 DEF Local, AdaptingPCs, KeyPCs, AdaptPCs, PlacePCs, HitPCs, TagPCs
<1>2. ASSUME NEW b \in Buckets, NEW s \in Slots PROVE SlotOK(b, s)
  <2>1. CASE Preload[b][s] = {}
    BY <2>1 DEF Init, SlotOK
  <2>2. CASE Preload[b][s] # {}
    <3>1. PICK p \in Preload[b][s] : p = CHOOSE q \in Preload[b][s] : TRUE
      BY <2>2
    <3>2. occupied[b][s] = TRUE /\ kv[b][s] = p /\ tags[b][s] = Tag[p[1]][s]
      BY <2>2, <3>1 DEF Init
    <3>3. p \in Pairs /\ Home(p[1], b)
      BY PreloadAssumption DEF Home
    <3>4. Tag[p[1]][s] # 0
      BY <3>3, HashAssumption DEF Pairs
    <3>5. QED
      BY <3>2, <3>3, <3>4 DEF SlotOK
  <2>3. QED
    BY <2>1, <2>2
<1>3. QED
  BY <1>1, <1>2 DEF AgreeInv

\* Every step that is not of a lookup writes what its thread holds.
LEMMA EveryStep ==
    ASSUME TypeOK, NEW t \in Threads, loc'[t].op # "find", Local(t), Begin(t) \/ Step(t)
    PROVE  TableStep(t)
BY InsertTable, PairTable, FindTable, CallTable DEF Step

\* Only a call that begins makes a thread look up.
LEMMA StaysFree ==
    ASSUME TypeOK, NEW t \in Threads, Local(t), Step(t)
    PROVE  loc'[t].op # "find"
<1>1. CASE Return(t)
  <2>1. loc'[t] = idle
    BY <1>1 DEF Return, TypeOK
  <2>2. QED
    BY <2>1 DEF idle, Fresh
<1>2. QED
  BY <1>1, InsertTable, PairTable, FindTable DEF Step, TableStep, Local

LEMMA LookupFree ==
    ASSUME NoLookups, TypeOK, NEW t \in Threads, Local(t), Begin(t) \/ Step(t)
    PROVE  loc'[t].op # "find"
<1>1. CASE Begin(t)
  <2>1. PICK c \in Calls[t] : loc' = [loc EXCEPT ![t] = Fresh(c.op, c.key, c.val)]
    BY <1>1 DEF Begin
  <2>2. loc'[t].op = c.op
    BY <2>1 DEF Fresh, TypeOK
  <2>3. QED
    BY <2>2 DEF NoLookups
<1>2. QED
  BY <1>1, StaysFree

LEMMA AgreeNext ==
    ASSUME NoLookups, TypeOK, TypeOK', LockInv, AgreeInv, [Next]_vars
    PROVE  AgreeInv'
<1>1. ASSUME NEW t \in Threads, Begin(t) \/ Step(t) PROVE AgreeInv'
  <2>1. TableStep(t)
    BY <1>1, EveryStep, LookupFree DEF AgreeInv
  <2>2. \A u \in Threads \ {t} : pc'[u] = pc[u] /\ loc'[u] = loc[u]
    BY <1>1, OthersKept
  <2>3. QED
    BY <2>1, <2>2, TableStepInv
<1>2. CASE UNCHANGED vars
  BY <1>2 DEF vars, AgreeInv, Local, SlotOK, Dirty
<1>3. QED
  BY <1>1, <1>2 DEF Next

LEMMA AgreeCorrect == NoLookups => (Spec => []AgreeInv)
<1> SUFFICES ASSUME NoLookups PROVE Spec => []AgreeInv
  OBVIOUS
<1>1. Init => AgreeInv
  BY AgreeInit
<1>2. TypeOK /\ TypeOK' /\ LockInv /\ AgreeInv /\ [Next]_vars => AgreeInv'
  BY AgreeNext
<1>3. QED
  BY <1>1, <1>2, TypeCorrect, LockCorrect, PTL DEF Spec

LEMMA AgreeSlots == TypeOK /\ LockInv /\ AgreeInv => SlotInv
<1> SUFFICES ASSUME TypeOK, LockInv, AgreeInv, NEW b \in Buckets, Even(counter[b]),
                    NEW s \in Slots
             PROVE  SlotOK(b, s)
  BY DEF SlotInv, SlotOK, Home
<1>1. ASSUME NEW t \in Threads, Dirty(t, b, s) PROVE FALSE
  <2>1. Holds(t, b)
    BY <1>1, HoldsCur DEF AgreeInv, Dirty, HitPCs
  <2>2. QED
    BY <2>1 DEF LockInv
<1>2. QED
  BY <1>1 DEF AgreeInv

\* Without lookups, where nobody is writing, a tag is set exactly where a pair is
\* stored, it is the tag of that pair's key for that slot, and the bucket is one
\* of the key's two: inserts, kick chains, erases and updates write tag table
\* and storage one after the other and leave every bucket they unlock in order.
THEOREM SlotsAgree == NoLookups => (Spec => []SlotInv)
<1> SUFFICES ASSUME NoLookups PROVE Spec => []SlotInv
  OBVIOUS
<1>1. QED
  BY AgreeSlots, AgreeCorrect, TypeCorrect, LockCorrect, PTL

\* Without lookups a bucket changes only while its counter is odd, and only by a
\* step of the thread that holds it: insert_impl, erase and update write nothing
\* they have not locked.
THEOREM OwnersWrite == NoLookups => (Spec => OnlyOwnersWrite)
<1> SUFFICES ASSUME NoLookups PROVE Spec => OnlyOwnersWrite
  OBVIOUS
<1> DEFINE Owned ==
      \A b \in Buckets :
          <<tags[b], kv[b], occupied[b]>>' # <<tags[b], kv[b], occupied[b]>> =>
              /\ ~Even(counter[b])
              /\ \E t \in Threads : Holds(t, b) /\ pc'[t] # pc[t]
<1>1. TypeOK /\ LockInv /\ AgreeInv /\ [Next]_vars => [Owned]_vars
  <2> SUFFICES ASSUME TypeOK, LockInv, AgreeInv, NEW t \in Threads, Begin(t) \/ Step(t),
                      NEW b \in Buckets,
                      <<tags[b], kv[b], occupied[b]>>' # <<tags[b], kv[b], occupied[b]>>
               PROVE  /\ ~Even(counter[b])
                      /\ \E u \in Threads : Holds(u, b) /\ pc'[u] # pc[u]
    BY DEF Next
  <2>1. TableStep(t)
    BY EveryStep, LookupFree DEF AgreeInv
  <2>2. ~Untouched(t)
    BY DEF Untouched, table
  <2>3. PICK c \in Buckets, s \in Slots : Writes(t, c, s)
    BY <2>1, <2>2 DEF TableStep
  <2>4. b = c
    BY <2>3 DEF Writes, Same
  <2>5. Holds(t, b) /\ pc'[t] # pc[t]
    BY <2>3, <2>4 DEF Writes
  <2>6. QED
    BY <2>5 DEF LockInv
<1>2. QED
  BY <1>1, AgreeCorrect, TypeCorrect, LockCorrect, PTL DEF Spec, OnlyOwnersWrite
=============================================================================
