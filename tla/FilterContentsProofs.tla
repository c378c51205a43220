------------------------ MODULE FilterContentsProofs ------------------------
(***************************************************************************)
(* num_items_ counts the pairs the filter stores, whatever the number of   *)
(* threads, keys, buckets and slots, the hash functions and the length of  *)
(* the kick chains: what every thread knows at each place of its call, how *)
(* each step moves pairs, and what it does to the two sides of the count.  *)
(* From the same knowledge: calls take effect in one step each. And what   *)
(* find answers one thread that does all of it is right, while it adapts.  *)
(***************************************************************************)
EXTENDS FilterContents, AdaptiveFilterProofs

-----------------------------------------------------------------------------
(* The inductive invariant: what a thread knows at each place of a call.   *)

ErasePCs  == {"erase_tag", "erase_kv", "erase_unlock1", "erase_unlock2", "erase_count"}
UnhitPCs  == {"pair_lock1", "pair_lock2", "pair_scan", "miss_mutex", "miss_victim"}
FilledPCs == {"kick_read", "kick_kv", "erase_tag", "erase_kv", "update_kv"}
\* Under the mutex, after the victim cache was found free.
ClearPCs  == {"second_lock", "kick_tag", "kick_read", "kick_kv", "kick_lock", "kick_unlock",
              "victim_kv", "victim_val", "victim_used"}

\* The call: what it is at each place, and that it carries its own pair until it
\* displaces another one.
Course(t) ==
    /\ pc[t] \in InsertPCs => loc[t].op \in {"insert", "update"}
    /\ pc[t] \in PairPCs => loc[t].op \in {"erase", "update"}
    /\ pc[t] \in FindPCs => loc[t].op = "findinfilter" /\ pc[t] # "find_vval"
    /\ pc[t] \in ErasePCs => loc[t].op = "erase" /\ loc[t].out
    /\ pc[t] = "update_kv" => loc[t].op = "update" /\ loc[t].out
    /\ pc[t] \in UnhitPCs => ~loc[t].out
    /\ loc[t].kicks > 0 => pc[t] \in ChainPCs
    /\ loc[t].kicks = 0 => loc[t].carried = <<loc[t].key, loc[t].val>>
    /\ loc[t].got = loc[t].val

\* The slot it is at.
AtSlot(t) ==
    LET b == loc[t].cur
        s == loc[t].slot
    IN  /\ pc[t] = "put_kv" => ~occupied[b][s]
        /\ pc[t] \in FilledPCs => occupied[b][s]
        /\ pc[t] = "kick_kv" => loc[t].spare = kv[b][s]
        /\ pc[t] \in HitPCs => kv[b][s][1] = loc[t].key

\* The victim cache.
AtVictim(t) ==
    /\ pc[t] \in ClearPCs => ~victim.used
    /\ pc[t] = "victim_val" => victim.key = loc[t].carried[1]
    /\ pc[t] = "victim_used" => <<victim.key, victim.val>> = loc[t].carried

\* The pair in its hands belongs to a bucket it holds.
InHand(t) ==
    /\ CarriesDisplaced(t) => Home(loc[t].carried[1], loc[t].cur)
    /\ pc[t] = "kick_lock" => Home(loc[t].carried[1], loc[t].old)

HomeInv == \A b \in Buckets, s \in Slots : occupied[b][s] => Home(kv[b][s][1], b)

CourseInv ==
    /\ \A t \in Threads : Course(t) /\ AtSlot(t) /\ AtVictim(t) /\ InHand(t)
    /\ HomeInv
-----------------------------------------------------------------------------
(* The invariant is preserved: first what concerns the thread alone.       *)

\* Which fields of a call's locals a write of one or a few of them leaves.
SameCall(q, r) ==
    q.op = r.op /\ q.key = r.key /\ q.val = r.val /\ q.got = r.got
SamePair(q, r) == q.carried = r.carried /\ q.kicks = r.kicks

LEMMA CallFields ==
    ASSUME NEW r \in LocType
    PROVE  /\ \A x : LET q == [r EXCEPT !.cur = x]
                     IN  SameCall(q, r) /\ SamePair(q, r) /\ q.out = r.out /\ q.cur = x
           /\ \A x : LET q == [r EXCEPT !.slot = x]
                     IN  SameCall(q, r) /\ SamePair(q, r) /\ q.out = r.out
                         /\ q.slot = x /\ q.cur = r.cur /\ q.old = r.old
           /\ \A x : LET q == [r EXCEPT !.out = x]
                     IN  SameCall(q, r) /\ SamePair(q, r) /\ q.out = x
                         /\ q.cur = r.cur /\ q.slot = r.slot
           /\ \A x : LET q == [r EXCEPT !.spare = x]
                     IN  SameCall(q, r) /\ SamePair(q, r) /\ q.out = r.out
                         /\ q.spare = x /\ q.cur = r.cur /\ q.slot = r.slot
           /\ \A p, n, x, y :
                 LET q == [r EXCEPT !.carried = p, !.kicks = n, !.old = x, !.cur = y]
                 IN  SameCall(q, r) /\ q.out = r.out /\ q.carried = p /\ q.kicks = n
                     /\ q.old = x /\ q.cur = y
           /\ \A x, y :
                 LET q == [r EXCEPT !.cur = x, !.slot = y, !.out = TRUE]
                 IN  SameCall(q, r) /\ SamePair(q, r) /\ q.out /\ q.cur = x /\ q.slot = y
           /\ \A x, y :
                 LET q == [r EXCEPT !.c2 = x, !.fps = y]
                 IN  SameCall(q, r) /\ SamePair(q, r)
           /\ \A x, y :
                 LET q == [r EXCEPT !.todo = x, !.out = y]
                 IN  SameCall(q, r) /\ SamePair(q, r)
BY DEF LocType, SameCall, SamePair

\* What one write of the locals leaves to its thread.
LEMMA SlotWritten ==
    ASSUME TypeOK, NEW t \in Threads, NEW s, loc' = [loc EXCEPT ![t].slot = s]
    PROVE  /\ SameCall(loc'[t], loc[t]) /\ SamePair(loc'[t], loc[t])
           /\ loc'[t].slot = s /\ loc'[t].cur = loc[t].cur
<1>1. loc[t] \in LocType /\ loc'[t] = [loc[t] EXCEPT !.slot = s]
  BY LocalTypes DEF TypeOK
<1>2. QED
  BY <1>1 DEF LocType, SameCall, SamePair

LEMMA SpareWritten ==
    ASSUME TypeOK, NEW t \in Threads, NEW p, loc' = [loc EXCEPT ![t].spare = p]
    PROVE  /\ SameCall(loc'[t], loc[t]) /\ SamePair(loc'[t], loc[t])
           /\ loc'[t].spare = p /\ loc'[t].cur = loc[t].cur /\ loc'[t].slot = loc[t].slot
<1>1. loc[t] \in LocType /\ loc'[t] = [loc[t] EXCEPT !.spare = p]
  BY LocalTypes DEF TypeOK
<1>2. QED
  BY <1>1 DEF LocType, SameCall, SamePair

LEMMA OutWritten ==
    ASSUME TypeOK, NEW t \in Threads, loc' = [loc EXCEPT ![t].out = TRUE]
    PROVE  SameCall(loc'[t], loc[t]) /\ SamePair(loc'[t], loc[t]) /\ loc'[t].out
<1>1. loc[t] \in LocType /\ loc'[t] = [loc[t] EXCEPT !.out = TRUE]
  BY LocalTypes DEF TypeOK
<1>2. QED
  BY <1>1 DEF LocType, SameCall, SamePair

LEMMA KickWritten ==
    ASSUME TypeOK, NEW t \in Threads, NEW x, NEW y,
           loc' = [loc EXCEPT ![t] = [loc[t] EXCEPT !.carried = loc[t].spare,
                                          !.kicks = loc[t].kicks + 1, !.old = x, !.cur = y]]
    PROVE  /\ SameCall(loc'[t], loc[t])
           /\ loc'[t].carried = loc[t].spare /\ loc'[t].kicks = loc[t].kicks + 1
           /\ loc'[t].old = x /\ loc'[t].cur = y
<1>0. PICK r \in LocType : r = loc[t]
  BY LocalTypes
<1>1. PICK p, n :
         r = loc[t] /\ p = loc[t].spare /\ n = loc[t].kicks + 1
  BY <1>0
<1> DEFINE q == [r EXCEPT !.carried = p, !.kicks = n, !.old = x, !.cur = y]
<1>2. loc'[t] = q
  BY <1>1 DEF TypeOK
<1>3. SameCall(q, r) /\ q.carried = p /\ q.kicks = n /\ q.old = x /\ q.cur = y
  BY DEF LocType, SameCall
<1> HIDE DEF q
<1>4. QED
  BY <1>1, <1>2, <1>3

LEMMA HitWritten ==
    ASSUME TypeOK, NEW t \in Threads, NEW b, NEW s,
           loc' = [loc EXCEPT ![t] = [loc[t] EXCEPT !.cur = b, !.slot = s, !.out = TRUE]]
    PROVE  /\ SameCall(loc'[t], loc[t]) /\ SamePair(loc'[t], loc[t])
           /\ loc'[t].out /\ loc'[t].cur = b /\ loc'[t].slot = s
<1>1. PICK r \in LocType : r = loc[t]
  BY LocalTypes
<1> DEFINE q == [r EXCEPT !.cur = b, !.slot = s, !.out = TRUE]
<1>2. loc'[t] = q
  BY <1>1 DEF TypeOK
<1>3. SameCall(q, r) /\ SamePair(q, r) /\ q.out /\ q.cur = b /\ q.slot = s
  BY DEF LocType, SameCall, SamePair
<1> HIDE DEF q
<1>4. QED
  BY <1>1, <1>2, <1>3

LEMMA InsertCourse ==
    ASSUME TypeOK, NEW t \in Threads, Course(t), InsertStep(t)
    PROVE  Course(t)'
<1> USE DEF Course, InsertPCs, PairPCs, FindPCs, ErasePCs, UnhitPCs, ChainPCs,
            SameCall, SamePair, At, Goto, TypeOK
<1>1. CASE FirstLock(t)
  BY <1>1, LocalTypes, CallFields DEF FirstLock
<1>2. CASE TakeFreeSlot(t)
  BY <1>2, LocalTypes, CallFields DEF TakeFreeSlot
<1>3. CASE FirstFull(t)
  BY <1>3 DEF FirstFull
<1>4. CASE PutKV(t)
  BY <1>4 DEF PutKV
<1>5. CASE PutCount(t)
  BY <1>5 DEF PutCount
<1>6. CASE PutUnlock(t)
  <2>1. CASE Finish(t, TRUE)
    BY <1>6, <2>1, LocalTypes, CallFields DEF PutUnlock, Finish
  <2>2. CASE Goto(t, "mutex_unlock") /\ UNCHANGED loc
    BY <1>6, <2>2 DEF PutUnlock
  <2>3. QED
    BY <1>6, <2>1, <2>2 DEF PutUnlock
<1>7. CASE FullUnlock(t)
  BY <1>7 DEF FullUnlock
<1>8. CASE InsertMutex(t)
  BY <1>8 DEF InsertMutex
<1>9. CASE InsertRefused(t)
  BY <1>9, LocalTypes, CallFields DEF InsertRefused, Finish
<1>10. CASE InsertProceed(t)
  BY <1>10, LocalTypes, CallFields DEF InsertProceed
<1>11. CASE SecondLock(t)
  BY <1>11 DEF SecondLock
<1>12. CASE KickOut(t)
  BY <1>12, LocalTypes, CallFields DEF KickOut
<1>13. CASE KickRead(t)
  BY <1>13, LocalTypes, CallFields DEF KickRead
<1>14. CASE KickKV(t)
  <2>1. PICK x, y : loc' = [loc EXCEPT ![t] = [loc[t] EXCEPT !.carried = loc[t].spare,
                              !.kicks = loc[t].kicks + 1, !.old = x, !.cur = y]]
    BY <1>14 DEF KickKV
  <2>2. SameCall(loc'[t], loc[t]) /\ loc'[t].kicks = loc[t].kicks + 1
    BY <2>1, KickWritten
  <2>3. pc[t] = "kick_kv" /\ pc'[t] \in {"kick_tag", "victim_kv", "kick_lock"}
    BY <1>14 DEF KickKV, NextRound
  <2>4. QED
    <3>1. loc[t].kicks \in Nat
      BY LocalTypes
    <3> HIDE DEF TypeOK
    <3>2. QED
      BY <2>2, <2>3, <3>1, SMTT(60)
<1>15. CASE KickLock(t)
  BY <1>15 DEF KickLock
<1>16. CASE KickUnlock(t)
  BY <1>16 DEF KickUnlock, NextRound
<1>17. CASE VictimKV(t)
  BY <1>17 DEF VictimKV, VictimKey, VictimVal
<1>18. CASE VictimUsed(t)
  BY <1>18 DEF VictimUsed
<1>19. CASE VictimUnlock(t)
  BY <1>19 DEF VictimUnlock
<1>20. CASE VictimCount(t)
  BY <1>20 DEF VictimCount
<1>21. CASE MutexUnlock(t)
  BY <1>21, LocalTypes, CallFields DEF MutexUnlock, Finish
<1>22. QED
  BY <1>1, <1>2, <1>3, <1>4, <1>5, <1>6, <1>7, <1>8, <1>9, <1>10, <1>11, <1>12,
     <1>13, <1>14, <1>15, <1>16, <1>17, <1>18, <1>19, <1>20, <1>21 DEF InsertStep

\* What a hit of erase or update knows: an occupied slot that holds the key.
LEMMA HitSlot ==
    ASSUME TypeOK, NEW t \in Threads, PairHit(t)
    PROVE  \E b \in {I1(t), I2(t)}, s \in Slots :
              /\ s \in Hits(b, loc[t].key)
              /\ loc' = [loc EXCEPT ![t] = [loc[t] EXCEPT !.cur = b, !.slot = s, !.out = TRUE]]
              /\ pc[t] = "pair_scan"
              /\ pc' = [pc EXCEPT ![t] = IF loc[t].op = "erase" THEN "erase_tag" ELSE "update_kv"]
              /\ UNCHANGED <<table, num_items, victim>>
<1> DEFINE key == loc[t].key
<1>1. PICK b \in {I1(t), I2(t)} :
         /\ Hits(b, key) # {}
         /\ loc' = [loc EXCEPT ![t].cur = b, ![t].slot = FirstOf(Hits(b, key)), ![t].out = TRUE]
         /\ pc[t] = "pair_scan"
         /\ pc' = [pc EXCEPT ![t] = IF loc[t].op = "erase" THEN "erase_tag" ELSE "update_kv"]
         /\ UNCHANGED <<table, num_items, victim>>
  BY DEF PairHit, At, Goto
<1>2. FirstOf(Hits(b, key)) \in Hits(b, key) /\ Hits(b, key) \in SUBSET Slots
  BY <1>1, FirstOfIn DEF Hits, Matches
<1>3. PICK s \in Slots : s = FirstOf(Hits(b, key)) /\ s \in Hits(b, key)
  BY <1>2
<1>4. loc' = [loc EXCEPT ![t] = [loc[t] EXCEPT !.cur = b, !.slot = s, !.out = TRUE]]
  BY <1>1, <1>3 DEF TypeOK
<1>5. QED
  BY <1>1, <1>3, <1>4

LEMMA PairCourse ==
    ASSUME TypeOK, NEW t \in Threads, Course(t), PairStep(t)
    PROVE  Course(t)'
<1> USE DEF Course, InsertPCs, PairPCs, FindPCs, ErasePCs, UnhitPCs, ChainPCs,
            SameCall, SamePair, At, Goto, TypeOK
<1>1. CASE PairLock1(t)
  BY <1>1 DEF PairLock1
<1>2. CASE PairLock2(t)
  BY <1>2 DEF PairLock2
<1>3. CASE PairHit(t)
  <2>1. PICK b \in {I1(t), I2(t)}, s \in Slots :
           /\ s \in Hits(b, loc[t].key)
           /\ loc' = [loc EXCEPT ![t] = [loc[t] EXCEPT !.cur = b, !.slot = s, !.out = TRUE]]
           /\ pc[t] = "pair_scan"
           /\ pc' = [pc EXCEPT ![t] = IF loc[t].op = "erase" THEN "erase_tag" ELSE "update_kv"]
           /\ UNCHANGED <<table, num_items, victim>>
    BY <1>3, HitSlot
  <2>2. SameCall(loc'[t], loc[t]) /\ SamePair(loc'[t], loc[t]) /\ loc'[t].out
    BY <2>1, LocalTypes, CallFields
  <2>3. QED
    BY <2>1, <2>2
<1>4. CASE PairMiss(t)
  BY <1>4 DEF PairMiss
<1>5. CASE EraseTag(t)
  BY <1>5 DEF EraseTag
<1>6. CASE EraseKV(t)
  BY <1>6 DEF EraseKV
<1>7. CASE EraseUnlock1(t)
  BY <1>7 DEF EraseUnlock1
<1>8. CASE EraseUnlock2(t)
  BY <1>8 DEF EraseUnlock2
<1>9. CASE EraseCount(t)
  BY <1>9, LocalTypes, CallFields DEF EraseCount, Finish
<1>10. CASE UpdateKV(t)
  BY <1>10 DEF UpdateKV
<1>11. CASE PairUnlock2(t)
  BY <1>11 DEF PairUnlock2, AfterPair
<1>12. CASE PairUnlock1(t)
  BY <1>12 DEF PairUnlock1, AfterPair
<1>13. CASE MissMutex(t)
  BY <1>13 DEF MissMutex
<1>14. CASE MissVictim(t)
  <2>1. pc[t] = "miss_victim" /\ pc'[t] = "miss_unlock"
    BY <1>14 DEF MissVictim
  <2>2. CASE loc' = [loc EXCEPT ![t].out = TRUE]
    BY <2>1, <2>2, LocalTypes, CallFields
  <2>3. CASE UNCHANGED loc
    BY <2>1, <2>3
  <2>4. QED
    BY <1>14, <2>2, <2>3 DEF MissVictim
<1>15. CASE MissUnlock(t)
  BY <1>15 DEF MissUnlock
<1>16. QED
  BY <1>1, <1>2, <1>3, <1>4, <1>5, <1>6, <1>7, <1>8, <1>9, <1>10, <1>11, <1>12,
     <1>13, <1>14, <1>15 DEF PairStep

\* findinfilter only reads.
LEMMA FindReads ==
    ASSUME TypeOK, NEW t \in Threads, Local(t), Course(t), FindStep(t) \/ AdaptStep(t)
    PROVE  /\ pc[t] \in FindPCs /\ pc'[t] \in FindPCs \cup {"ret"} /\ pc'[t] # "find_vval"
           /\ SameCall(loc'[t], loc[t]) /\ SamePair(loc'[t], loc[t])
           /\ UNCHANGED <<table, num_items, victim>>
<1> USE DEF Local, Course, FindPCs, AdaptingPCs, KeyPCs, AdaptPCs, SameCall, SamePair, At, Goto,
            TypeOK
<1>1. CASE FindEven1(t)
  BY <1>1 DEF FindEven1
<1>2. CASE FindEven2(t)
  <2>1. loc' = [loc EXCEPT ![t].c2 = counter[I2(t)], ![t].fps = <<>>]
    BY <1>2 DEF FindEven2
  <2>2. SameCall(loc'[t], loc[t]) /\ SamePair(loc'[t], loc[t])
    BY <2>1, LocalTypes, CallFields
  <2>3. QED
    BY <1>2, <2>2 DEF FindEven2
<1>3. CASE FindBreak(t)
  BY <1>3 DEF FindBreak
<1>4. CASE FindRead1(t)
  BY <1>4, LocalTypes, CallFields DEF FindRead1, ReadWord
<1>5. CASE FindRead2(t)
  BY <1>5, LocalTypes, CallFields DEF FindRead2, ReadWord
<1>6. CASE FindAgain(t)
  BY <1>6 DEF FindAgain
<1>7. CASE FindVictim(t)
  BY <1>7 DEF FindVictim, Adaptation
<1>8. CASE FindVKey(t)
  <2>1. CASE victim.key = loc[t].key
    <3>1. /\ pc[t] = "find_vkey" /\ pc'[t] = "ret" /\ loc' = [loc EXCEPT ![t].out = TRUE]
          /\ UNCHANGED <<table, num_items, victim>>
      BY <1>8, <2>1 DEF FindVKey
    <3>2. QED
      BY <3>1, LocalTypes, CallFields
  <2>2. CASE victim.key # loc[t].key
    BY <1>8, <2>2 DEF FindVKey, Adaptation
  <2>3. QED
    BY <2>1, <2>2
<1>9. ~(FindKey1(t) \/ FindKey2(t) \/ FindVal(t) \/ FindVVal(t) \/ AdaptStep(t))
  BY DEF FindKey1, FindKey2, FindVal, FindVVal, AdaptStep, AdaptLock, RfRead, RfReadTag,
     RfReadSlot, RfReadNewSlot, RfTagNew,
     RfTagSlot, RfKVNew, RfKVSlot, AdaptUnlock
<1>10. QED
  BY <1>1, <1>2, <1>3, <1>4, <1>5, <1>6, <1>7, <1>8, <1>9 DEF FindStep

\* A call that begins or returns has nothing in its hands.
LEMMA CallPlaces ==
    ASSUME TypeOK, NEW t \in Threads, loc'[t].op # "find", Begin(t) \/ Return(t)
    PROVE  /\ pc[t] \in {"idle", "ret"}
           /\ pc'[t] \in {"idle", "first_lock", "pair_lock1", "find_even1"}
           /\ UNCHANGED <<table, num_items, victim>>
           /\ Course(t)'
<1> USE DEF Course, InsertPCs, PairPCs, FindPCs, ErasePCs, UnhitPCs, ChainPCs, At, Goto, TypeOK
<1>1. CASE Begin(t)
  <2>1. PICK c \in Calls[t] :
           /\ loc' = [loc EXCEPT ![t] = Fresh(c.op, c.key, c.val)]
           /\ pc' = [pc EXCEPT ![t] = CASE c.op = "insert" -> "first_lock"
                                        [] c.op \in {"erase", "update"} -> "pair_lock1"
                                        [] c.op \in {"find", "findinfilter"} -> "find_even1"]
    BY <1>1 DEF Begin
  <2>2. loc'[t].op = c.op /\ c.op \in {"insert", "erase", "update", "findinfilter"}
    <3>1. loc'[t].op = c.op
      BY <2>1 DEF Fresh
    <3>2. QED
      BY <3>1, CallAssumption DEF CallSet, Ops
  <2>3. /\ loc'[t].op = c.op /\ loc'[t].key = c.key /\ loc'[t].val = c.val
        /\ loc'[t].kicks = 0 /\ loc'[t].carried = <<c.key, c.val>>
        /\ loc'[t].got = c.val /\ loc'[t].out = FALSE
    BY <2>1 DEF Fresh
  <2>4. pc'[t] = CASE c.op = "insert" -> "first_lock"
                   [] c.op \in {"erase", "update"} -> "pair_lock1"
                   [] c.op \in {"find", "findinfilter"} -> "find_even1"
    BY <2>1
  <2>5. Course(t)' /\ pc'[t] \in {"first_lock", "pair_lock1", "find_even1"}
    BY <2>2, <2>3, <2>4
  <2>6. QED
    BY <1>1, <2>5 DEF Begin
<1>2. CASE Return(t)
  <2>1. /\ loc'[t] = idle /\ pc'[t] = "idle" /\ pc[t] = "ret"
        /\ UNCHANGED <<table, num_items, victim>>
    BY <1>2 DEF Return
  <2>2. /\ idle.kicks = 0 /\ idle.carried = <<idle.key, idle.val>> /\ idle.got = idle.val
    BY DEF idle, Fresh
  <2>3. QED
    BY <2>1, <2>2
<1>3. QED
  BY <1>1, <1>2

LEMMA CourseKept ==
    ASSUME TypeOK, NEW t \in Threads, loc'[t].op # "find", Local(t), Course(t), Begin(t) \/ Step(t)
    PROVE  Course(t)'
<1>1. CASE FindStep(t) \/ AdaptStep(t)
  <2>1. /\ pc[t] \in FindPCs /\ pc'[t] \in FindPCs \cup {"ret"} /\ pc'[t] # "find_vval"
        /\ SameCall(loc'[t], loc[t]) /\ SamePair(loc'[t], loc[t])
    BY <1>1, FindReads
  <2>2. QED
    BY <2>1, LocalTypes DEF Course, SameCall, SamePair, InsertPCs, PairPCs, FindPCs, ErasePCs,
       UnhitPCs, ChainPCs
<1>2. QED
  BY <1>1, InsertCourse, PairCourse, CallPlaces DEF Step

-----------------------------------------------------------------------------
(* What concerns the slot, the victim cache and the pair in hand.          *)

AtPlaces(t) == AtSlot(t) /\ AtVictim(t) /\ InHand(t)

\* A slot of a bucket a thread holds and has not left half-way agrees.
LEMMA HeldSlotOK ==
    ASSUME LockInv, AgreeInv, NEW t \in Threads, NEW b \in Buckets, NEW s \in Slots,
           Holds(t, b), ~Dirty(t, b, s)
    PROVE  SlotOK(b, s)
<1>1. ASSUME NEW u \in Threads, Dirty(u, b, s) PROVE FALSE
  <2>1. Holds(u, b)
    BY <1>1, HoldsCur DEF AgreeInv, Dirty, HitPCs
  <2>2. QED
    BY <1>1, <2>1 DEF LockInv
<1>2. QED
  BY <1>1 DEF AgreeInv

LEMMA InsertPlaces ==
    ASSUME TypeOK, LockInv, AgreeInv, CourseInv, NEW t \in Threads, InsertStep(t)
    PROVE  AtPlaces(t)'
<1>0. Course(t) /\ AtPlaces(t) /\ Local(t)
  BY DEF CourseInv, AtPlaces, AgreeInv
<1> USE <1>0 DEF AtPlaces, AtSlot, AtVictim, InHand, CarriesDisplaced, FilledPCs, HitPCs, ClearPCs, At, Goto,
            TypeOK
<1>1. CASE FirstLock(t)
  BY <1>1 DEF FirstLock
<1>2. CASE TakeFreeSlot(t)
  <2>1. PICK b \in Buckets, s \in Slots :
           /\ b = loc[t].cur /\ s \in FreeSlots(b)
           /\ loc' = [loc EXCEPT ![t].slot = s]
           /\ kv' = kv /\ occupied' = occupied /\ victim' = victim
           /\ pc[t] \in {"first_tag", "kick_tag"} /\ pc'[t] = "put_kv"
    <3>1. FirstOf(FreeSlots(loc[t].cur)) \in FreeSlots(loc[t].cur)
      BY <1>2, FirstOfIn DEF TakeFreeSlot, FreeSlots
    <3>2. QED
      BY <1>2, <3>1, LocalTypes DEF TakeFreeSlot, FreeSlots
  <2>2. SlotOK(b, s)
    BY <2>1, HoldsCur, HeldSlotOK DEF Dirty, TagPCs
  <2>3. ~occupied[b][s]
    BY <2>1, <2>2 DEF SlotOK, FreeSlots
  <2>4. SamePair(loc'[t], loc[t]) /\ loc'[t].cur = b /\ loc'[t].slot = s
    BY <2>1, SlotWritten
  <2>5. pc[t] = "first_tag" => loc[t].kicks = 0
    BY LocalTypes DEF Course, ChainPCs
  <2>6. QED
    BY <2>1, <2>3, <2>4, <2>5 DEF SamePair
<1>3. CASE FirstFull(t)
  BY <1>3 DEF FirstFull
<1>4. CASE PutKV(t)
  BY <1>4 DEF PutKV
<1>5. CASE PutCount(t)
  BY <1>5 DEF PutCount
<1>6. CASE PutUnlock(t)
  BY <1>6 DEF PutUnlock, Finish
<1>7. CASE FullUnlock(t)
  BY <1>7 DEF FullUnlock
<1>8. CASE InsertMutex(t)
  BY <1>8 DEF InsertMutex
<1>9. CASE InsertRefused(t)
  BY <1>9 DEF InsertRefused, Finish
<1>10. CASE InsertProceed(t)
  BY <1>10 DEF InsertProceed
<1>11. CASE SecondLock(t)
  <2>1. pc[t] = "second_lock" /\ loc[t].kicks = 0
    BY <1>11, LocalTypes DEF SecondLock, Course, ChainPCs
  <2>2. QED
    BY <1>11, <2>1 DEF SecondLock
<1>12. CASE KickOut(t)
  <2>1. PICK b \in Buckets, s \in Slots :
           /\ b = loc[t].cur /\ FreeSlots(b) = {}
           /\ loc' = [loc EXCEPT ![t].slot = s]
           /\ kv' = kv /\ occupied' = occupied /\ victim' = victim
           /\ pc[t] = "kick_tag" /\ pc'[t] = "kick_read"
    BY <1>12, LocalTypes DEF KickOut
  <2>2. SlotOK(b, s)
    BY <2>1, HoldsCur, HeldSlotOK DEF Dirty, TagPCs
  <2>3. occupied[b][s]
    BY <2>1, <2>2 DEF SlotOK, FreeSlots
  <2>4. SamePair(loc'[t], loc[t]) /\ loc'[t].cur = b /\ loc'[t].slot = s
    BY <2>1, SlotWritten
  <2>5. QED
    BY <2>1, <2>3, <2>4 DEF SamePair
<1>13. CASE KickRead(t)
  <2>1. /\ SamePair(loc'[t], loc[t]) /\ loc'[t].cur = loc[t].cur /\ loc'[t].slot = loc[t].slot
        /\ loc'[t].spare = kv[loc[t].cur][loc[t].slot]
    BY <1>13, SpareWritten DEF KickRead
  <2>2. /\ pc[t] = "kick_read" /\ pc'[t] = "kick_kv"
        /\ kv' = kv /\ occupied' = occupied /\ victim' = victim
    BY <1>13 DEF KickRead, table
  <2>3. QED
    BY <2>1, <2>2 DEF SamePair
<1>14. CASE KickKV(t)
  <2>1. PICK b \in Buckets, y \in Buckets :
           /\ b = loc[t].cur /\ y = OtherBucket(loc[t].spare[1], b)
           /\ loc' = [loc EXCEPT ![t] = [loc[t] EXCEPT !.carried = loc[t].spare,
                              !.kicks = loc[t].kicks + 1, !.old = b, !.cur = y]]
           /\ victim' = victim
           /\ pc[t] = "kick_kv" /\ pc'[t] \in {"kick_tag", "victim_kv", "kick_lock"}
    <3>1. loc[t].cur \in Buckets /\ OtherBucket(loc[t].spare[1], loc[t].cur) \in Buckets
      BY LocalTypes, HashAssumption DEF OtherBucket, Pairs
    <3>2. QED
      BY <1>14, <3>1 DEF KickKV, NextRound
  <2>2. /\ loc'[t].carried = loc[t].spare /\ loc'[t].old = b /\ loc'[t].cur = y
    <3>1. loc' = [loc EXCEPT ![t] = [loc[t] EXCEPT !.carried = loc[t].spare,
                              !.kicks = loc[t].kicks + 1, !.old = b, !.cur = y]]
      BY <2>1
    <3> HIDE DEF TypeOK
    <3>2. QED
      BY <3>1, KickWritten
  <2>3. Home(loc[t].spare[1], b)
    <3>1. PICK s \in Slots : s = loc[t].slot
      BY LocalTypes
    <3>2. occupied[b][s] /\ loc[t].spare = kv[b][s]
      BY <2>1, <3>1
    <3>3. QED
      BY <3>2 DEF CourseInv, HomeInv
  <2>4. Home(loc[t].spare[1], y)
    BY <2>1 DEF OtherBucket, Home
  <2>5. QED
    BY <2>1, <2>2, <2>3, <2>4
<1>15. CASE KickLock(t)
  BY <1>15 DEF KickLock
<1>16. CASE KickUnlock(t)
  BY <1>16 DEF KickUnlock, NextRound
<1>17. CASE VictimKV(t)
  <2>1. PICK p \in Pairs : p = loc[t].carried
    BY LocalTypes
  <2>2. CASE VictimKey(t)
    <3>1. victim'.used = victim.used /\ victim'.key = p[1]
      BY <2>1, <2>2 DEF VictimKey
    <3>2. QED
      BY <2>1, <2>2, <3>1 DEF VictimKey
  <2>3. CASE VictimVal(t)
    <3>1. victim'.used = victim.used /\ victim'.key = p[1] /\ victim'.val = p[2]
      BY <2>1, <2>3 DEF VictimVal
    <3>2. <<victim'.key, victim'.val>> = p
      BY <3>1 DEF Pairs
    <3>3. QED
      BY <2>1, <2>3, <3>1, <3>2 DEF VictimVal
  <2>4. QED
    BY <1>17, <2>2, <2>3 DEF VictimKV
<1>18. CASE VictimUsed(t)
  BY <1>18 DEF VictimUsed
<1>19. CASE VictimUnlock(t)
  BY <1>19 DEF VictimUnlock
<1>20. CASE VictimCount(t)
  BY <1>20 DEF VictimCount
<1>21. CASE MutexUnlock(t)
  BY <1>21 DEF MutexUnlock, Finish
<1>22. QED
  BY <1>1, <1>2, <1>3, <1>4, <1>5, <1>6, <1>7, <1>8, <1>9, <1>10, <1>11, <1>12,
     <1>13, <1>14, <1>15, <1>16, <1>17, <1>18, <1>19, <1>20, <1>21 DEF InsertStep

LEMMA PairPlaces ==
    ASSUME TypeOK, LockInv, AgreeInv, CourseInv, NEW t \in Threads, PairStep(t)
    PROVE  AtPlaces(t)'
<1>0. Course(t) /\ AtPlaces(t) /\ Local(t)
  BY DEF CourseInv, AtPlaces, AgreeInv
<1> USE <1>0 DEF AtPlaces, AtSlot, AtVictim, InHand, CarriesDisplaced, FilledPCs, HitPCs, ClearPCs, At, Goto,
            TypeOK
<1>1. CASE PairLock1(t)
  BY <1>1 DEF PairLock1
<1>2. CASE PairLock2(t)
  BY <1>2 DEF PairLock2
<1>3. CASE PairHit(t)
  <2>1. PICK b \in {I1(t), I2(t)}, s \in Slots :
           /\ s \in Hits(b, loc[t].key)
           /\ loc' = [loc EXCEPT ![t] = [loc[t] EXCEPT !.cur = b, !.slot = s, !.out = TRUE]]
           /\ pc[t] = "pair_scan"
           /\ pc' = [pc EXCEPT ![t] = IF loc[t].op = "erase" THEN "erase_tag" ELSE "update_kv"]
           /\ UNCHANGED <<table, num_items, victim>>
    BY <1>3, HitSlot
  <2>2. SameCall(loc'[t], loc[t]) /\ loc'[t].cur = b /\ loc'[t].slot = s
    <3> HIDE DEF TypeOK
    <3>1. QED
      BY <2>1, HitWritten, ZenonT(60)
  <2>3. b \in Buckets /\ loc[t].key \in Keys
    BY LocalTypes
  <2>4. SlotOK(b, s)
    BY <2>1, <2>3, HeldSlotOK DEF Dirty, TagPCs, Holds, FirstPCs, SecondPCs
  <2>5. tags[b][s] = Tag[loc[t].key][s] /\ kv[b][s][1] = loc[t].key
    BY <2>1 DEF Hits, Matches
  <2>6. Tag[loc[t].key][s] # 0
    BY <2>3, HashAssumption
  <2>7. occupied[b][s]
    BY <2>4, <2>5, <2>6 DEF SlotOK
  <2>8. QED
    BY <2>1, <2>2, <2>3, <2>5, <2>7 DEF SameCall, table
<1>4. CASE PairMiss(t)
  BY <1>4 DEF PairMiss
<1>5. CASE EraseTag(t)
  BY <1>5 DEF EraseTag
<1>6. CASE EraseKV(t)
  BY <1>6 DEF EraseKV
<1>7. CASE EraseUnlock1(t)
  BY <1>7 DEF EraseUnlock1
<1>8. CASE EraseUnlock2(t)
  BY <1>8 DEF EraseUnlock2
<1>9. CASE EraseCount(t)
  BY <1>9 DEF EraseCount, Finish
<1>10. CASE UpdateKV(t)
  BY <1>10 DEF UpdateKV
<1>11. CASE PairUnlock2(t)
  BY <1>11 DEF PairUnlock2, AfterPair
<1>12. CASE PairUnlock1(t)
  BY <1>12 DEF PairUnlock1, AfterPair
<1>13. CASE MissMutex(t)
  BY <1>13 DEF MissMutex
<1>14. CASE MissVictim(t)
  BY <1>14 DEF MissVictim
<1>15. CASE MissUnlock(t)
  BY <1>15 DEF MissUnlock
<1>16. QED
  BY <1>1, <1>2, <1>3, <1>4, <1>5, <1>6, <1>7, <1>8, <1>9, <1>10, <1>11, <1>12,
     <1>13, <1>14, <1>15 DEF PairStep

LEMMA PlacesKept ==
    ASSUME TypeOK, LockInv, AgreeInv, CourseInv, NEW t \in Threads, loc'[t].op # "find", Begin(t) \/ Step(t)
    PROVE  AtPlaces(t)'
<1>1. CASE FindStep(t) \/ AdaptStep(t)
  <2>1. pc'[t] \in FindPCs \cup {"ret"}
    BY <1>1, FindReads DEF AgreeInv, CourseInv
  <2>2. QED
    BY <2>1 DEF AtPlaces, AtSlot, AtVictim, InHand, CarriesDisplaced, FilledPCs, HitPCs, ClearPCs, FindPCs
<1>2. CASE Begin(t) \/ Return(t)
  <2>1. pc'[t] \in {"idle", "first_lock", "pair_lock1", "find_even1"}
    BY <1>2, CallPlaces
  <2>2. QED
    BY <2>1 DEF AtPlaces, AtSlot, AtVictim, InHand, CarriesDisplaced, FilledPCs, HitPCs, ClearPCs
<1>3. QED
  BY <1>1, <1>2, InsertPlaces, PairPlaces DEF Step

-----------------------------------------------------------------------------
(* Which steps write what the callers see.                                 *)

SlotWrite(t)   == PutKV(t) \/ KickKV(t) \/ EraseKV(t) \/ UpdateKV(t)
VictimWrite(t) == VictimKV(t) \/ VictimUsed(t) \/ MissVictim(t)
CountWrite(t)  == PutCount(t) \/ VictimCount(t) \/ EraseCount(t)

LEMMA Writers ==
    ASSUME TypeOK, NEW t \in Threads, loc'[t].op # "find", Local(t), Course(t), Begin(t) \/ Step(t)
    PROVE  /\ UNCHANGED <<kv, occupied>> \/ SlotWrite(t)
           /\ UNCHANGED victim \/ VictimWrite(t)
           /\ UNCHANGED num_items \/ CountWrite(t)
<1> USE DEF SlotWrite, VictimWrite, CountWrite, table
<1>1. CASE InsertStep(t)
  BY <1>1 DEF InsertStep, FirstLock, TakeFreeSlot, FirstFull, PutKV, PutCount, PutUnlock,
     FullUnlock, InsertMutex, InsertRefused, InsertProceed, SecondLock, KickOut, KickRead,
     KickKV, KickLock, KickUnlock, VictimKV, VictimKey, VictimVal, VictimUsed, VictimUnlock, VictimCount, MutexUnlock
<1>2. CASE PairStep(t)
  BY <1>2 DEF PairStep, PairLock1, PairLock2, PairHit, PairMiss, EraseTag, EraseKV,
     EraseUnlock1, EraseUnlock2, EraseCount, UpdateKV, PairUnlock2, PairUnlock1, MissMutex,
     MissVictim, MissUnlock
<1>3. CASE FindStep(t) \/ AdaptStep(t)
  BY <1>3, FindReads
<1>4. CASE Begin(t) \/ Return(t)
  BY <1>4, CallPlaces
<1>5. QED
  BY <1>1, <1>2, <1>3, <1>4 DEF Step

\* Every stored pair is in a bucket of its key, also in a slot half-way.
LEMMA HomeKept ==
    ASSUME TypeOK, AgreeInv, CourseInv, NEW t \in Threads, loc'[t].op # "find", Begin(t) \/ Step(t)
    PROVE  HomeInv'
<1>1. Local(t) /\ Course(t) /\ HomeInv
  BY DEF AgreeInv, CourseInv
<1>2. TableStep(t)
  BY <1>1, EveryStep
<1>3. CASE UNCHANGED <<kv, occupied>>
  BY <1>1, <1>3 DEF HomeInv, Home
<1>4. CASE SlotWrite(t)
  <2>1. pc'[t] \notin TagPCs \cup {"erase_kv"}
    BY <1>4 DEF SlotWrite, PutKV, KickKV, EraseKV, UpdateKV, NextRound, At, Goto, TypeOK, TagPCs
  <2>2. \A b \in Buckets, s \in Slots : ~Dirty(t, b, s)'
    BY <2>1 DEF Dirty
  <2>3. SUFFICES ASSUME NEW b \in Buckets, NEW s \in Slots, Writes(t, b, s) PROVE HomeInv'
    BY <1>1, <1>2 DEF TableStep, Untouched, table, HomeInv, Home
  <2>4. SlotOK(b, s)'
    BY <2>2, <2>3 DEF Writes
  <2>5. \A c \in Buckets, r \in Slots : c # b \/ r # s => SameSlot(c, r)
    BY <2>3 DEF Writes, Same, SameSlot
  <2>6. QED
    BY <1>1, <2>4, <2>5 DEF HomeInv, SlotOK, SameSlot, Home
<1>5. QED
  BY <1>1, <1>3, <1>4, Writers

\* A step leaves alone what the other threads know of their slots and of the
\* victim cache.
LEMMA OthersPlaces ==
    ASSUME TypeOK, LockInv, MutexInv, AgreeInv, CourseInv,
           NEW t \in Threads, loc'[t].op # "find", Begin(t) \/ Step(t), NEW u \in Threads \ {t}
    PROVE  Course(u)' /\ AtPlaces(u)'
<1>1. /\ Local(t) /\ Course(t)
      /\ Local(u) /\ Course(u) /\ AtPlaces(u)
  BY DEF AgreeInv, CourseInv, AtPlaces
<1>2. pc'[u] = pc[u] /\ loc'[u] = loc[u]
  BY OthersKept
<1>3. Course(u)' /\ InHand(u)'
  BY <1>1, <1>2 DEF Course, InHand, AtPlaces, CarriesDisplaced, Home
<1>4. AtSlot(u)'
  <2>1. TableStep(t)
    BY <1>1, EveryStep
  <2>2. PICK c \in Buckets, r \in Slots : c = loc[u].cur /\ r = loc[u].slot
    BY LocalTypes
  <2>3. pc[u] \in TagPCs \cup HitPCs => SameSlot(c, r)
    <3>1. CASE Untouched(t)
      BY <3>1 DEF Untouched, table, SameSlot
    <3>2. ASSUME NEW b \in Buckets, NEW s \in Slots, Writes(t, b, s), pc[u] \in TagPCs \cup HitPCs
          PROVE  SameSlot(c, r)
      <4>1. Holds(u, c) /\ Holds(t, b)
        BY <1>1, <2>2, <3>2, HoldsCur DEF Writes
      <4>2. c # b
        BY <4>1 DEF LockInv
      <4>3. QED
        BY <3>2, <4>2 DEF Writes, Same, SameSlot
    <3>3. QED
      BY <2>1, <3>1, <3>2 DEF TableStep
  <2>4. QED
    BY <1>1, <1>2, <2>2, <2>3 DEF AtPlaces, AtSlot, SameSlot, TagPCs, HitPCs, FilledPCs
<1>5. AtVictim(u)'
  <2>1. pc[u] \in ClearPCs => victim' = victim
    <3>1. VictimWrite(t) => pc[t] \in MutexPCs
      BY DEF VictimWrite, VictimKV, VictimKey, VictimVal, VictimUsed, MissVictim, At, MutexPCs
    <3>2. pc[u] \in ClearPCs => pc[u] \in MutexPCs
      BY DEF ClearPCs, MutexPCs
    <3>3. ~(pc[t] \in MutexPCs /\ pc[u] \in MutexPCs)
      BY DEF MutexInv
    <3>4. QED
      BY <1>1, <3>1, <3>2, <3>3, Writers
  <2>2. QED
    BY <1>1, <1>2, <2>1 DEF AtPlaces, AtVictim, ClearPCs
<1>6. QED
  BY <1>3, <1>4, <1>5 DEF AtPlaces

LEMMA CourseInit == Init => CourseInv
<1> SUFFICES ASSUME Init PROVE CourseInv
  OBVIOUS
<1>1. ASSUME NEW t \in Threads PROVE Course(t) /\ AtPlaces(t)
  <2>1. pc[t] = "idle" /\ loc[t] = idle
    BY DEF Init
  <2>2. /\ idle.kicks = 0 /\ idle.carried = <<idle.key, idle.val>> /\ idle.got = idle.val
    BY DEF idle, Fresh
  <2>3. QED
    BY <2>1, <2>2 DEF Course, AtPlaces, AtSlot, AtVictim, InHand, CarriesDisplaced, InsertPCs,
       PairPCs, FindPCs, ErasePCs, UnhitPCs, FilledPCs, ClearPCs, HitPCs
<1>2. ASSUME NEW b \in Buckets, NEW s \in Slots, occupied[b][s] PROVE Home(kv[b][s][1], b)
  <2>1. Preload[b][s] # {}
    BY <1>2 DEF Init
  <2>2. PICK p \in Preload[b][s] : p = CHOOSE q \in Preload[b][s] : TRUE
    BY <2>1
  <2>3. kv[b][s] = p
    BY <2>1, <2>2 DEF Init
  <2>4. QED
    BY <2>3, PreloadAssumption DEF Home
<1>3. QED
  BY <1>1, <1>2 DEF CourseInv, AtPlaces, HomeInv

LEMMA CourseStep ==
    ASSUME TypeOK, LockInv, MutexInv, AgreeInv, CourseInv,
           NEW t \in Threads, loc'[t].op # "find", Begin(t) \/ Step(t)
    PROVE  CourseInv'
<1>1. Course(t)' /\ AtPlaces(t)'
  BY CourseKept, PlacesKept DEF AgreeInv, CourseInv
<1>2. \A u \in Threads \ {t} : Course(u)' /\ AtPlaces(u)'
  BY OthersPlaces
<1>3. HomeInv'
  BY HomeKept
<1>4. QED
  BY <1>1, <1>2, <1>3 DEF CourseInv, AtPlaces

LEMMA CourseNext ==
    ASSUME NoLookups, TypeOK, LockInv, MutexInv, AgreeInv, CourseInv, [Next]_vars
    PROVE  CourseInv'
<1>1. ASSUME NEW t \in Threads, Begin(t) \/ Step(t) PROVE CourseInv'
  BY <1>1, CourseStep, LookupFree DEF AgreeInv
<1>2. CASE UNCHANGED vars
  BY <1>2 DEF vars, CourseInv, Course, AtSlot, AtVictim, InHand, CarriesDisplaced, HomeInv, Home
<1>3. QED
  BY <1>1, <1>2 DEF Next

LEMMA CourseCorrect == NoLookups => (Spec => []CourseInv)
<1> SUFFICES ASSUME NoLookups PROVE Spec => []CourseInv
  OBVIOUS
<1>1. Init => CourseInv
  BY CourseInit
<1>2. TypeOK /\ LockInv /\ MutexInv /\ AgreeInv /\ CourseInv /\ [Next]_vars => CourseInv'
  BY CourseNext
<1>3. QED
  BY <1>1, <1>2, TypeCorrect, LockCorrect, MutexCorrect, AgreeCorrect, PTL DEF Spec

-----------------------------------------------------------------------------
(* num_items_ counts the stored pairs.                                     *)

Bit(P) == IF P THEN 1 ELSE 0

\* Two sets that differ in one element at most.
LEMMA CardinalityStep ==
    ASSUME NEW T, IsFiniteSet(T), NEW A \in SUBSET T, NEW B \in SUBSET T, NEW x \in T,
           \A y \in T \ {x} : y \in A <=> y \in B
    PROVE  /\ Cardinality(A) \in Nat /\ Cardinality(B) \in Nat
           /\ Cardinality(B) = Cardinality(A) + Bit(x \in B) - Bit(x \in A)
<1>1. IsFiniteSet(A) /\ IsFiniteSet(B)
  BY FS_Subset
<1>2. Cardinality(A) \in Nat /\ Cardinality(B) \in Nat
  BY <1>1, FS_CardinalityType
<1>3. CASE x \in A <=> x \in B
  <2>1. A = B
    BY <1>3
  <2>2. QED
    BY <1>2, <2>1 DEF Bit
<1>4. CASE x \in A /\ x \notin B
  <2>1. B = A \ {x}
    BY <1>4
  <2>2. Cardinality(B) = Cardinality(A) - 1
    BY <1>1, <1>4, <2>1, FS_RemoveElement
  <2>3. QED
    BY <1>2, <1>4, <2>2 DEF Bit
<1>5. CASE x \notin A /\ x \in B
  <2>1. B = A \cup {x}
    BY <1>5
  <2>2. Cardinality(B) = Cardinality(A) + 1
    BY <1>1, <1>5, <2>1, FS_AddElement
  <2>3. QED
    BY <1>2, <1>5, <2>2 DEF Bit
<1>6. QED
  BY <1>3, <1>4, <1>5

\* The places of a pair are finitely many.
LEMMA PlacesFinite == IsFiniteSet(Buckets \X Slots) /\ IsFiniteSet(Threads)
<1>1. 0 \in Int /\ NumBuckets - 1 \in Int /\ SlotsPerBucket - 1 \in Int
  BY SizeAssumption
<1>2. IsFiniteSet(Buckets) /\ IsFiniteSet(Slots)
  BY <1>1, FS_Interval DEF Buckets, Slots
<1>3. QED
  BY <1>2, FS_Product, ThreadAssumption

\* Without an adaptation a slot stands for the pair in it.
LEMMA SlotPair ==
    ASSUME AgreeInv, NEW b \in Buckets, NEW s \in Slots
    PROVE  InSlot(b, s) = IF occupied[b][s] THEN {kv[b][s]} ELSE {}
<1>1. \A t \in Threads : ~HalfMoved(t, b, s)
  BY DEF AgreeInv, Local, AdaptingPCs, AdaptPCs, HalfMoved
<1>2. InSlot(b, s) = {p \in {kv[b][s]} : occupied[b][s]}
  BY <1>1 DEF InSlot
<1>3. QED
  BY <1>2

\* A step of t at slot <<b, s>> that keeps the count in balance.
Balanced(t, b, s) ==
    num_items' - num_items =
        Bit(occupied'[b][s]) - Bit(occupied[b][s])
            + Bit(CarriesDisplaced(t)') - Bit(CarriesDisplaced(t))
            + Bit(victim'.used) - Bit(victim.used)
            + Bit(Overcounted(t)') - Bit(Overcounted(t))
            - Bit(Uncounted(t)') + Bit(Uncounted(t))

OneSlot(b, s) ==
    \A c \in Buckets, r \in Slots :
        c # b \/ r # s => kv'[c][r] = kv[c][r] /\ occupied'[c][r] = occupied[c][r]

LEMMA PutKVBalanced ==
    ASSUME TypeOK, NEW t \in Threads, Course(t), AtSlot(t), PutKV(t)
    PROVE  OneSlot(loc[t].cur, loc[t].slot) /\ Balanced(t, loc[t].cur, loc[t].slot)
<1>1. PICK b \in Buckets, s \in Slots : b = loc[t].cur /\ s = loc[t].slot
  BY LocalTypes
<1>2. /\ kv' = [kv EXCEPT ![b][s] = loc[t].carried] /\ occupied' = [occupied EXCEPT ![b][s] = TRUE]
      /\ UNCHANGED <<num_items, victim, loc>>
      /\ pc[t] = "put_kv" /\ pc'[t] = "put_count"
  BY <1>1 DEF PutKV, setKV, At, Goto, TypeOK
<1>3. OneSlot(b, s) /\ occupied'[b][s] /\ ~occupied[b][s]
  <2>1. ~occupied[b][s]
    BY <1>1, <1>2 DEF AtSlot
  <2>2. QED
    BY <1>2, <2>1 DEF OneSlot, TypeOK
<1>4. /\ ~Overcounted(t) /\ ~Overcounted(t)'
      /\ ~CarriesDisplaced(t)' /\ Uncounted(t)'
      /\ Uncounted(t) <=> CarriesDisplaced(t)
  BY <1>2 DEF CarriesDisplaced, Uncounted, Overcounted
<1>5. Balanced(t, b, s)
  BY <1>2, <1>3, <1>4 DEF Balanced, Bit, TypeOK
<1>6. QED
  BY <1>1, <1>3, <1>5

LEMMA KickKVBalanced ==
    ASSUME TypeOK, NEW t \in Threads, Course(t), AtSlot(t), KickKV(t)
    PROVE  OneSlot(loc[t].cur, loc[t].slot) /\ Balanced(t, loc[t].cur, loc[t].slot)
<1>1. PICK b \in Buckets, s \in Slots : b = loc[t].cur /\ s = loc[t].slot
  BY LocalTypes
<1>2. /\ kv' = [kv EXCEPT ![b][s] = loc[t].carried] /\ occupied' = [occupied EXCEPT ![b][s] = TRUE]
      /\ UNCHANGED <<num_items, victim>>
      /\ pc[t] = "kick_kv" /\ pc'[t] \in {"kick_tag", "victim_kv", "kick_lock"}
      /\ loc' = [loc EXCEPT ![t] = [loc[t] EXCEPT !.carried = loc[t].spare,
                                       !.kicks = loc[t].kicks + 1, !.old = b,
                                       !.cur = OtherBucket(loc[t].spare[1], b)]]
  BY <1>1 DEF KickKV, NextRound, setKV, At, Goto, TypeOK
<1>3. OneSlot(b, s) /\ occupied'[b][s] = TRUE /\ occupied[b][s] = TRUE
  BY <1>1, <1>2 DEF OneSlot, TypeOK, AtSlot, FilledPCs
<1>4. loc'[t].kicks = loc[t].kicks + 1
  BY <1>2, KickWritten
<1>5. CarriesDisplaced(t)' /\ Uncounted(t)' /\ ~Overcounted(t) /\ ~Overcounted(t)'
      /\ (Uncounted(t) <=> CarriesDisplaced(t))
  BY <1>2, <1>4, LocalTypes DEF CarriesDisplaced, Uncounted, Overcounted
<1>6. Balanced(t, b, s)
  BY <1>2, <1>3, <1>5 DEF Balanced, Bit, TypeOK
<1>7. QED
  BY <1>1, <1>3, <1>6

LEMMA EraseKVBalanced ==
    ASSUME TypeOK, NEW t \in Threads, Course(t), AtSlot(t), EraseKV(t)
    PROVE  OneSlot(loc[t].cur, loc[t].slot) /\ Balanced(t, loc[t].cur, loc[t].slot)
<1>1. PICK b \in Buckets, s \in Slots : b = loc[t].cur /\ s = loc[t].slot
  BY LocalTypes
<1>2. /\ occupied' = [occupied EXCEPT ![b][s] = FALSE]
      /\ UNCHANGED <<kv, num_items, victim, loc>>
      /\ pc[t] = "erase_kv" /\ pc'[t] = "erase_unlock1"
  BY <1>1 DEF EraseKV, eraseKV, At, Goto, TypeOK
<1>3. OneSlot(b, s) /\ ~occupied'[b][s] /\ occupied[b][s]
  <2>1. occupied[b][s]
    BY <1>1, <1>2 DEF AtSlot, FilledPCs
  <2>2. QED
    BY <1>2, <2>1 DEF OneSlot, TypeOK
<1>4. /\ loc[t].op = "erase" /\ loc[t].out
  BY <1>2 DEF Course, ErasePCs
<1>5. /\ ~CarriesDisplaced(t) /\ ~CarriesDisplaced(t)' /\ ~Uncounted(t) /\ ~Uncounted(t)'
      /\ ~Overcounted(t) /\ Overcounted(t)'
  BY <1>2, <1>4 DEF CarriesDisplaced, Uncounted, Overcounted
<1>6. Balanced(t, b, s)
  BY <1>2, <1>3, <1>5 DEF Balanced, Bit, TypeOK
<1>7. QED
  BY <1>1, <1>3, <1>6

LEMMA UpdateKVBalanced ==
    ASSUME TypeOK, NEW t \in Threads, Course(t), AtSlot(t), UpdateKV(t)
    PROVE  OneSlot(loc[t].cur, loc[t].slot) /\ Balanced(t, loc[t].cur, loc[t].slot)
<1>1. PICK b \in Buckets, s \in Slots : b = loc[t].cur /\ s = loc[t].slot
  BY LocalTypes
<1>2. /\ kv' = [kv EXCEPT ![b][s] = <<loc[t].key, loc[t].val>>]
      /\ occupied' = [occupied EXCEPT ![b][s] = TRUE]
      /\ UNCHANGED <<num_items, victim, loc>>
      /\ pc[t] = "update_kv" /\ pc'[t] = "pair_unlock2"
  BY <1>1 DEF UpdateKV, setKV, At, Goto, TypeOK
<1>3. OneSlot(b, s) /\ occupied'[b][s] /\ occupied[b][s]
  <2>1. occupied[b][s]
    BY <1>1, <1>2 DEF AtSlot, FilledPCs
  <2>2. QED
    BY <1>2, <2>1 DEF OneSlot, TypeOK
<1>4. /\ ~CarriesDisplaced(t) /\ ~CarriesDisplaced(t)' /\ ~Uncounted(t) /\ ~Uncounted(t)'
      /\ ~Overcounted(t) /\ ~Overcounted(t)'
  BY <1>2 DEF CarriesDisplaced, Uncounted, Overcounted
<1>5. Balanced(t, b, s)
  BY <1>2, <1>3, <1>4 DEF Balanced, Bit, TypeOK
<1>6. QED
  BY <1>1, <1>3, <1>5

\* The steps that write no slot: the same for every slot.
BalancedElsewhere(t) ==
    num_items' - num_items =
        Bit(CarriesDisplaced(t)') - Bit(CarriesDisplaced(t))
            + Bit(victim'.used) - Bit(victim.used)
            + Bit(Overcounted(t)') - Bit(Overcounted(t))
            - Bit(Uncounted(t)') + Bit(Uncounted(t))

LEMMA InsertBalanced ==
    ASSUME TypeOK, NEW t \in Threads, Course(t), AtVictim(t), InsertStep(t), ~SlotWrite(t)
    PROVE  BalancedElsewhere(t)
<1> USE DEF BalancedElsewhere, Bit, CarriesDisplaced, Uncounted, Overcounted, At, Goto, TypeOK
<1>0. pc[t] \notin ChainPCs => loc[t].kicks = 0
  BY LocalTypes DEF Course
<1>1. CASE FirstLock(t)
  BY <1>1 DEF FirstLock
<1>2. CASE TakeFreeSlot(t)
  <2>1. PICK s : loc' = [loc EXCEPT ![t].slot = s]
    BY <1>2 DEF TakeFreeSlot
  <2>2. SamePair(loc'[t], loc[t])
    BY <2>1, SlotWritten
  <2>3. pc[t] = "first_tag" => loc[t].kicks = 0
    BY <1>0 DEF ChainPCs
  <2>4. QED
    BY <1>2, <2>2, <2>3 DEF TakeFreeSlot, SamePair
<1>3. CASE FirstFull(t)
  BY <1>3 DEF FirstFull
<1>4. ~PutKV(t) /\ ~KickKV(t)
  BY DEF SlotWrite
<1>5. CASE PutCount(t)
  BY <1>5 DEF PutCount
<1>6. CASE PutUnlock(t)
  BY <1>6 DEF PutUnlock, Finish
<1>7. CASE FullUnlock(t)
  BY <1>7 DEF FullUnlock
<1>8. CASE InsertMutex(t)
  BY <1>8 DEF InsertMutex
<1>9. CASE InsertRefused(t)
  BY <1>9 DEF InsertRefused, Finish
<1>10. CASE InsertProceed(t)
  BY <1>10 DEF InsertProceed
<1>11. CASE SecondLock(t)
  BY <1>0, <1>11 DEF SecondLock, ChainPCs
<1>12. CASE KickOut(t)
  <2>1. PICK s : loc' = [loc EXCEPT ![t].slot = s]
    BY <1>12 DEF KickOut
  <2>2. SamePair(loc'[t], loc[t])
    BY <2>1, SlotWritten
  <2>3. QED
    BY <1>12, <2>2 DEF KickOut, SamePair
<1>13. CASE KickRead(t)
  <2>1. SamePair(loc'[t], loc[t])
    BY <1>13, SpareWritten DEF KickRead
  <2>2. QED
    BY <1>13, <2>1 DEF KickRead, SamePair
<1>15. CASE KickLock(t)
  BY <1>15 DEF KickLock
<1>16. CASE KickUnlock(t)
  BY <1>16 DEF KickUnlock, NextRound
<1>17. CASE VictimKV(t)
  BY <1>17 DEF VictimKV, VictimKey, VictimVal
<1>18. CASE VictimUsed(t)
  BY <1>18 DEF VictimUsed, AtVictim, ClearPCs
<1>19. CASE VictimUnlock(t)
  BY <1>19 DEF VictimUnlock
<1>20. CASE VictimCount(t)
  BY <1>20 DEF VictimCount
<1>21. CASE MutexUnlock(t)
  BY <1>21 DEF MutexUnlock, Finish
<1>22. QED
  BY <1>1, <1>2, <1>3, <1>4, <1>5, <1>6, <1>7, <1>8, <1>9, <1>10, <1>11, <1>12,
     <1>13, <1>15, <1>16, <1>17, <1>18, <1>19, <1>20, <1>21 DEF InsertStep

LEMMA PairBalanced ==
    ASSUME TypeOK, NEW t \in Threads, Course(t), PairStep(t), ~SlotWrite(t)
    PROVE  BalancedElsewhere(t)
<1> USE DEF BalancedElsewhere, Bit, CarriesDisplaced, Uncounted, Overcounted, At, Goto, TypeOK
<1>1. CASE PairLock1(t)
  BY <1>1 DEF PairLock1
<1>2. CASE PairLock2(t)
  BY <1>2 DEF PairLock2
<1>3. CASE PairHit(t)
  <2>1. /\ pc[t] = "pair_scan" /\ pc'[t] \in {"erase_tag", "update_kv"}
        /\ UNCHANGED <<num_items, victim>>
    BY <1>3 DEF PairHit
  <2>2. QED
    BY <2>1
<1>4. CASE PairMiss(t)
  BY <1>4 DEF PairMiss
<1>5. CASE EraseTag(t)
  BY <1>5 DEF EraseTag
<1>6. ~EraseKV(t) /\ ~UpdateKV(t)
  BY DEF SlotWrite
<1>7. CASE EraseUnlock1(t)
  BY <1>7 DEF EraseUnlock1
<1>8. CASE EraseUnlock2(t)
  BY <1>8 DEF EraseUnlock2
<1>9. CASE EraseCount(t)
  BY <1>9 DEF EraseCount, Finish, Course, ErasePCs
<1>11. CASE PairUnlock2(t)
  BY <1>11 DEF PairUnlock2, AfterPair
<1>12. CASE PairUnlock1(t)
  BY <1>12 DEF PairUnlock1, AfterPair
<1>13. CASE MissMutex(t)
  BY <1>13 DEF MissMutex
<1>14. CASE MissVictim(t)
  <2>1. /\ pc[t] = "miss_victim" /\ pc'[t] = "miss_unlock" /\ num_items' = num_items
        /\ ~loc[t].out
    BY <1>14 DEF MissVictim, Course, UnhitPCs
  <2>2. /\ ~CarriesDisplaced(t) /\ ~CarriesDisplaced(t)' /\ ~Uncounted(t) /\ ~Uncounted(t)'
        /\ ~Overcounted(t)
    BY <2>1
  <2>3. CASE ~IsVictim(loc[t].key)
    <3>1. UNCHANGED <<victim, loc>>
      BY <1>14, <2>3 DEF MissVictim
    <3>2. QED
      BY <2>1, <2>2, <3>1
  <2>4. CASE IsVictim(loc[t].key)
    <3>1. /\ loc' = [loc EXCEPT ![t].out = TRUE]
          /\ victim' = IF loc[t].op = "erase" THEN [victim EXCEPT !.used = FALSE]
                                              ELSE [victim EXCEPT !.val = loc[t].val]
      BY <1>14, <2>4 DEF MissVictim
    <3>0. loc'[t].op = loc[t].op /\ loc'[t].out
      BY <3>1, OutWritten DEF SameCall
    <3>2. victim.used
      BY <2>4 DEF IsVictim
    <3>3. CASE loc[t].op = "erase"
      <4>1. Overcounted(t)' /\ ~victim'.used
        BY <2>1, <3>0, <3>1, <3>3
      <4>2. QED
        BY <2>1, <2>2, <3>2, <4>1
    <3>4. CASE loc[t].op # "erase"
      <4>1. ~Overcounted(t)' /\ victim'.used = victim.used
        BY <2>1, <3>0, <3>1, <3>4
      <4>2. QED
        BY <2>1, <2>2, <3>2, <4>1
    <3>5. QED
      BY <3>3, <3>4
  <2>5. QED
    BY <2>3, <2>4
<1>15. CASE MissUnlock(t)
  BY <1>15 DEF MissUnlock, Course, PairPCs
<1>16. QED
  BY <1>1, <1>2, <1>3, <1>4, <1>5, <1>6, <1>7, <1>8, <1>9, <1>11, <1>12,
     <1>13, <1>14, <1>15 DEF PairStep

\* Every step keeps the balance at one slot and touches no other.
LEMMA StepBalanced ==
    ASSUME TypeOK, AgreeInv, CourseInv, NEW t \in Threads, loc'[t].op # "find", Begin(t) \/ Step(t)
    PROVE  \E b \in Buckets, s \in Slots : OneSlot(b, s) /\ Balanced(t, b, s)
<1>1. Local(t) /\ Course(t) /\ AtSlot(t) /\ AtVictim(t)
  BY DEF AgreeInv, CourseInv
<1>2. CASE SlotWrite(t)
  BY <1>1, <1>2, PutKVBalanced, KickKVBalanced, EraseKVBalanced, UpdateKVBalanced, LocalTypes
     DEF SlotWrite
<1>3. CASE ~SlotWrite(t)
  <2>1. UNCHANGED <<kv, occupied>>
    BY <1>1, <1>3, Writers
  <2>2. BalancedElsewhere(t)
    <3>1. CASE FindStep(t) \/ AdaptStep(t)
      <4>1. /\ pc[t] \in FindPCs /\ pc'[t] \in FindPCs \cup {"ret"}
            /\ UNCHANGED <<num_items, victim>>
        BY <1>1, <3>1, FindReads
      <4>2. /\ ~CarriesDisplaced(t) /\ ~CarriesDisplaced(t)' /\ ~Uncounted(t) /\ ~Uncounted(t)'
            /\ ~Overcounted(t) /\ ~Overcounted(t)'
        BY <4>1 DEF CarriesDisplaced, Uncounted, Overcounted, FindPCs
      <4>3. QED
        BY <4>1, <4>2 DEF BalancedElsewhere, Bit, TypeOK
    <3>2. CASE Begin(t) \/ Return(t)
      <4>1. /\ pc[t] \in {"idle", "ret"}
            /\ pc'[t] \in {"idle", "first_lock", "pair_lock1", "find_even1"}
            /\ UNCHANGED <<num_items, victim>>
        BY <3>2, CallPlaces
      <4>2. /\ ~CarriesDisplaced(t) /\ ~CarriesDisplaced(t)' /\ ~Uncounted(t) /\ ~Uncounted(t)'
            /\ ~Overcounted(t) /\ ~Overcounted(t)'
        BY <4>1 DEF CarriesDisplaced, Uncounted, Overcounted
      <4>3. QED
        BY <4>1, <4>2 DEF BalancedElsewhere, Bit, TypeOK
    <3>3. QED
      BY <1>1, <1>3, <3>1, <3>2, InsertBalanced, PairBalanced DEF Step
  <2>3. PICK b \in Buckets, s \in Slots : TRUE
    BY LocalTypes
  <2>4. OneSlot(b, s)
    BY <2>1 DEF OneSlot
  <2>5. occupied'[b][s] = occupied[b][s]
    BY <2>1
  <2>6. Balanced(t, b, s)
    BY <2>2, <2>5 DEF Balanced, BalancedElsewhere, Bit, TypeOK
  <2>7. QED
    BY <2>4, <2>6
<1>4. QED
  BY <1>2, <1>3

\* The slots that stand for a pair.
FullSlots == {x \in Buckets \X Slots : InSlot(x[1], x[2]) # {}}

LEMMA CountNext ==
    ASSUME TypeOK, TypeOK', AgreeInv, AgreeInv', CourseInv, CountExact,
           NEW t \in Threads, loc'[t].op # "find", Begin(t) \/ Step(t)
    PROVE  CountExact'
<1>1. PICK b \in Buckets, s \in Slots : OneSlot(b, s) /\ Balanced(t, b, s)
  BY StepBalanced
<1>2. \A u \in Threads \ {t} : pc'[u] = pc[u] /\ loc'[u] = loc[u]
  BY OthersKept
<1> DEFINE U == {u \in Threads : Uncounted(u)}
           C == {u \in Threads : CarriesDisplaced(u)}
           O == {u \in Threads : Overcounted(u)}
<1>3. /\ Cardinality(U) \in Nat /\ Cardinality(U') \in Nat
      /\ Cardinality(U') = Cardinality(U) + Bit(Uncounted(t)') - Bit(Uncounted(t))
  <2>1. \A u \in Threads \ {t} : u \in U <=> u \in U'
    BY <1>2 DEF Uncounted, CarriesDisplaced
  <2>2. U \in SUBSET Threads /\ U' \in SUBSET Threads
    OBVIOUS
  <2>3. /\ Cardinality(U) \in Nat /\ Cardinality(U') \in Nat
        /\ Cardinality(U') = Cardinality(U) + Bit(t \in U') - Bit(t \in U)
    BY <2>1, <2>2, CardinalityStep, PlacesFinite
  <2>4. QED
    BY <2>3 DEF Bit
<1>4. /\ Cardinality(C) \in Nat /\ Cardinality(C') \in Nat
      /\ Cardinality(C') = Cardinality(C) + Bit(CarriesDisplaced(t)') - Bit(CarriesDisplaced(t))
  <2>1. \A u \in Threads \ {t} : u \in C <=> u \in C'
    BY <1>2 DEF CarriesDisplaced
  <2>2. C \in SUBSET Threads /\ C' \in SUBSET Threads
    OBVIOUS
  <2>3. /\ Cardinality(C) \in Nat /\ Cardinality(C') \in Nat
        /\ Cardinality(C') = Cardinality(C) + Bit(t \in C') - Bit(t \in C)
    BY <2>1, <2>2, CardinalityStep, PlacesFinite
  <2>4. QED
    BY <2>3 DEF Bit
<1>5. /\ Cardinality(O) \in Nat /\ Cardinality(O') \in Nat
      /\ Cardinality(O') = Cardinality(O) + Bit(Overcounted(t)') - Bit(Overcounted(t))
  <2>1. \A u \in Threads \ {t} : u \in O <=> u \in O'
    BY <1>2 DEF Overcounted
  <2>2. O \in SUBSET Threads /\ O' \in SUBSET Threads
    OBVIOUS
  <2>3. /\ Cardinality(O) \in Nat /\ Cardinality(O') \in Nat
        /\ Cardinality(O') = Cardinality(O) + Bit(t \in O') - Bit(t \in O)
    BY <2>1, <2>2, CardinalityStep, PlacesFinite
  <2>4. QED
    BY <2>3 DEF Bit
<1>6. /\ Cardinality(FullSlots) \in Nat /\ Cardinality(FullSlots') \in Nat
      /\ Cardinality(FullSlots')
            = Cardinality(FullSlots) + Bit(occupied'[b][s]) - Bit(occupied[b][s])
  <2>1. \A c \in Buckets, r \in Slots : InSlot(c, r) # {} <=> occupied[c][r]
    BY SlotPair
  <2>2. \A c \in Buckets, r \in Slots : InSlot(c, r)' # {} <=> occupied'[c][r]
    <3>1. ASSUME NEW c \in Buckets, NEW r \in Slots
          PROVE  InSlot(c, r)' = IF occupied'[c][r] THEN {kv'[c][r]} ELSE {}
      <4>1. \A u \in Threads : ~HalfMoved(u, c, r)'
        BY DEF AgreeInv, Local, AdaptingPCs, AdaptPCs, HalfMoved
      <4>2. InSlot(c, r)' = {p \in {kv'[c][r]} : occupied'[c][r]}
        BY <4>1 DEF InSlot
      <4>3. QED
        BY <4>2
    <3>2. QED
      BY <3>1
  <2>3. \A x \in (Buckets \X Slots) \ {<<b, s>>} : x \in FullSlots <=> x \in FullSlots'
    BY <1>1, <2>1, <2>2 DEF OneSlot, FullSlots
  <2>4. FullSlots \in SUBSET (Buckets \X Slots) /\ FullSlots' \in SUBSET (Buckets \X Slots)
    BY DEF FullSlots
  <2>5. <<b, s>> \in Buckets \X Slots
    OBVIOUS
  <2>6. /\ Cardinality(FullSlots) \in Nat /\ Cardinality(FullSlots') \in Nat
        /\ Cardinality(FullSlots')
              = Cardinality(FullSlots) + Bit(<<b, s>> \in FullSlots') - Bit(<<b, s>> \in FullSlots)
    BY <2>3, <2>4, <2>5, CardinalityStep, PlacesFinite
  <2>7. (<<b, s>> \in FullSlots <=> occupied[b][s]) /\ (<<b, s>> \in FullSlots' <=> occupied'[b][s])
    BY <2>1, <2>2 DEF FullSlots
  <2>8. QED
    BY <2>6, <2>7 DEF Bit
<1>7. num_items \in Int /\ num_items' \in Int
  BY DEF TypeOK
<1>8. num_items + Cardinality(U)
         = Cardinality(FullSlots) + Cardinality(C) + Bit(victim.used) + Cardinality(O)
  BY DEF CountExact, StoredPairs, FullSlots, Bit
<1> HIDE DEF U, C, O
<1>9. num_items' + Cardinality(U')
         = Cardinality(FullSlots') + Cardinality(C') + Bit(victim'.used) + Cardinality(O')
  <2>1. PICK u \in Int, u1 \in Int, c \in Int, c1 \in Int, o \in Int, o1 \in Int,
             v \in Int, v1 \in Int, f \in Int, f1 \in Int :
           /\ u = Bit(Uncounted(t)) /\ u1 = Bit(Uncounted(t)')
           /\ c = Bit(CarriesDisplaced(t)) /\ c1 = Bit(CarriesDisplaced(t)')
           /\ o = Bit(Overcounted(t)) /\ o1 = Bit(Overcounted(t)')
           /\ v = Bit(victim.used) /\ v1 = Bit(victim'.used)
           /\ f = Bit(occupied[b][s]) /\ f1 = Bit(occupied'[b][s])
    BY DEF Bit
  <2>2. num_items' - num_items = f1 - f + c1 - c + v1 - v + o1 - o - u1 + u
    BY <1>1, <2>1 DEF Balanced
  <2>3. /\ Cardinality(U') = Cardinality(U) + u1 - u
        /\ Cardinality(C') = Cardinality(C) + c1 - c
        /\ Cardinality(O') = Cardinality(O) + o1 - o
        /\ Cardinality(FullSlots') = Cardinality(FullSlots) + f1 - f
    BY <1>3, <1>4, <1>5, <1>6, <2>1
  <2>4. num_items + Cardinality(U) = Cardinality(FullSlots) + Cardinality(C) + v + Cardinality(O)
    BY <1>8, <2>1
  <2>5. num_items' + Cardinality(U')
           = Cardinality(FullSlots') + Cardinality(C') + v1 + Cardinality(O')
    <3>1. /\ Cardinality(U) \in Int /\ Cardinality(C) \in Int /\ Cardinality(O) \in Int
          /\ Cardinality(FullSlots) \in Int
      BY <1>3, <1>4, <1>5, <1>6
    <3>2. PICK x \in Int, y \in Int, z \in Int, w \in Int, n \in Int, m \in Int :
             /\ x = Cardinality(U) /\ y = Cardinality(C) /\ z = Cardinality(O)
             /\ w = Cardinality(FullSlots) /\ n = num_items /\ m = num_items'
      BY <1>7, <3>1
    <3>3. m - n = f1 - f + c1 - c + v1 - v + o1 - o - u1 + u
      BY <2>2, <3>2
    <3>4. n + x = w + y + v + z
      BY <2>4, <3>2
    <3>5. m + (x + u1 - u) = (w + f1 - f) + (y + c1 - c) + v1 + (z + o1 - o)
      BY <3>3, <3>4
    <3>6. QED
      BY <2>3, <3>2, <3>5
  <2>6. QED
    BY <2>1, <2>5
<1>10. QED
  BY <1>9 DEF CountExact, StoredPairs, FullSlots, Bit, U, C, O

LEMMA CountInit == Init => CountExact
<1> SUFFICES ASSUME Init PROVE CountExact
  OBVIOUS
<1>1. \A t \in Threads : pc[t] = "idle" /\ loc[t] = idle
  BY DEF Init
<1>2. \A t \in Threads : ~Uncounted(t) /\ ~CarriesDisplaced(t) /\ ~Overcounted(t)
  BY <1>1 DEF Uncounted, CarriesDisplaced, Overcounted
<1>3. /\ {t \in Threads : Uncounted(t)} = {}
      /\ {t \in Threads : CarriesDisplaced(t)} = {}
      /\ {t \in Threads : Overcounted(t)} = {}
  BY <1>2
<1>4. AgreeInv
  BY AgreeInit
<1>5. \A b \in Buckets, s \in Slots : InSlot(b, s) # {} <=> Preload[b][s] # {}
  <2>1. \A b \in Buckets, s \in Slots : InSlot(b, s) # {} <=> occupied[b][s]
    BY <1>4, SlotPair
  <2>2. QED
    BY <2>1 DEF Init
<1>6. FullSlots = {x \in Buckets \X Slots : Preload[x[1]][x[2]] # {}}
  BY <1>5 DEF FullSlots
<1>7. num_items = Cardinality(FullSlots) /\ ~victim.used
  BY <1>6 DEF Init
<1>8. Cardinality(FullSlots) \in Nat
  <2>1. FullSlots \in SUBSET (Buckets \X Slots)
    BY DEF FullSlots
  <2>2. QED
    BY <2>1, PlacesFinite, FS_Subset, FS_CardinalityType
<1>9. /\ Cardinality({t \in Threads : Uncounted(t)}) = 0
      /\ Cardinality({t \in Threads : CarriesDisplaced(t)}) = 0
      /\ Cardinality({t \in Threads : Overcounted(t)}) = 0
  BY <1>3, FS_EmptySet
<1>10. StoredPairs = Cardinality(FullSlots)
  BY <1>7, <1>8, <1>9 DEF StoredPairs, FullSlots
<1>11. QED
  BY <1>7, <1>8, <1>9, <1>10 DEF CountExact

\* num_items_ is the number of stored pairs, up to the calls that have changed
\* the table and not yet the counter: whatever interleaving of insert_impl, kick
\* chains that end in a free slot or in the victim cache, erases from the table
\* or from the cache, and updates that insert.
THEOREM CountCorrect == NoLookups => (Spec => []CountExact)
<1> SUFFICES ASSUME NoLookups PROVE Spec => []CountExact
  OBVIOUS
<1>1. Init => CountExact
  BY CountInit
<1>2. /\ TypeOK /\ TypeOK' /\ AgreeInv /\ AgreeInv' /\ CourseInv /\ CountExact /\ [Next]_vars
      => CountExact'
  <2> SUFFICES ASSUME TypeOK, TypeOK', AgreeInv, AgreeInv', CourseInv, CountExact, [Next]_vars
               PROVE  CountExact'
    OBVIOUS
  <2>1. CASE UNCHANGED vars
    BY <2>1 DEF vars, CountExact, StoredPairs, Uncounted, CarriesDisplaced, Overcounted,
       InSlot, HalfMoved
  <2>2. QED
    BY <2>1, CountNext, LookupFree DEF Next, AgreeInv
<1>3. QED
  BY <1>1, <1>2, TypeCorrect, AgreeCorrect, CourseCorrect, PTL DEF Spec

-----------------------------------------------------------------------------
(* Every insert, erase and update of the filter is one atomic step of      *)
(* KeyValueBag, when no other thread touches the keys a thread erases or   *)
(* updates.                                                                *)

\* The threads insert, erase and update.
WritersOnly == \A t \in Threads : \A c \in Calls[t] : c.op \in {"insert", "erase", "update"}

\* What one thread erases or updates no other thread has to do with.
OwnKeys ==
    \A t, u \in Threads : t # u =>
        \A c \in Calls[t], d \in Calls[u] : c.op \in {"erase", "update"} => d.key # c.key

LEMMA WritersDoNotLookUp == WritersOnly => NoLookups
BY DEF WritersOnly, NoLookups

-----------------------------------------------------------------------------
(* Most steps are invisible to the callers.                                *)

\* A visible step: the table or the victim cache gets or loses a pair, or the
\* call finds that there is nothing to do.
VictimHit(t)  == MissVictim(t) /\ IsVictim(loc[t].key)
EraseMiss(t)  == MissUnlock(t) /\ ~loc[t].out /\ loc[t].op = "erase"
Visible(t) == SlotWrite(t) \/ VictimUsed(t) \/ InsertRefused(t) \/ VictimHit(t) \/ EraseMiss(t)

HandKept(t) ==
    /\ CarriesDisplaced(t)' <=> CarriesDisplaced(t)
    /\ CarriesDisplaced(t) => loc'[t].carried = loc[t].carried

Quiet(t) ==
    /\ pc[t] \notin {"idle", "ret"} /\ pc'[t] # "idle"
    /\ SameCall(loc'[t], loc[t]) /\ HandKept(t)
    /\ IF pc'[t] = "ret" THEN TookEffect(t) /\ loc'[t].out ELSE TookEffect(t)' <=> TookEffect(t)

LEMMA InsertQuiet ==
    ASSUME TypeOK, NEW t \in Threads, Course(t), InsertStep(t), ~Visible(t)
    PROVE  Quiet(t)
<1> USE DEF Quiet, HandKept, CarriesDisplaced, TookEffect, SameCall, SamePair, At, Goto, TypeOK
<1>0. pc[t] \notin ChainPCs => loc[t].kicks = 0
  BY LocalTypes DEF Course
<1>1. CASE FirstLock(t)
  BY <1>0, <1>1, LocalTypes, CallFields DEF FirstLock, ChainPCs
<1>2. CASE TakeFreeSlot(t)
  <2>1. PICK s : loc' = [loc EXCEPT ![t].slot = s]
    BY <1>2 DEF TakeFreeSlot
  <2>2. SamePair(loc'[t], loc[t]) /\ SameCall(loc'[t], loc[t])
    BY <2>1, SlotWritten
  <2>3. pc[t] = "first_tag" => loc[t].kicks = 0
    BY <1>0 DEF ChainPCs
  <2>4. QED
    BY <1>2, <2>2, <2>3 DEF TakeFreeSlot
<1>3. CASE FirstFull(t)
  BY <1>3 DEF FirstFull
<1>4. ~PutKV(t) /\ ~KickKV(t) /\ ~VictimUsed(t) /\ ~InsertRefused(t)
  BY DEF Visible, SlotWrite
<1>5. CASE PutCount(t)
  BY <1>5 DEF PutCount
<1>6. CASE PutUnlock(t)
  <2>1. CASE Finish(t, TRUE)
    <3>1. loc' = [loc EXCEPT ![t].out = TRUE] /\ pc'[t] = "ret" /\ pc[t] = "put_unlock"
      BY <1>6, <2>1 DEF PutUnlock, Finish
    <3>2. QED
      BY <3>1, OutWritten
  <2>2. CASE Goto(t, "mutex_unlock") /\ UNCHANGED loc
    BY <1>6, <2>2 DEF PutUnlock
  <2>3. QED
    BY <1>6, <2>1, <2>2 DEF PutUnlock
<1>7. CASE FullUnlock(t)
  BY <1>7 DEF FullUnlock
<1>8. CASE InsertMutex(t)
  BY <1>8 DEF InsertMutex
<1>10. CASE InsertProceed(t)
  BY <1>0, <1>10, LocalTypes, CallFields DEF InsertProceed, ChainPCs
<1>11. CASE SecondLock(t)
  BY <1>0, <1>11 DEF SecondLock, ChainPCs
<1>12. CASE KickOut(t)
  <2>1. PICK s : loc' = [loc EXCEPT ![t].slot = s]
    BY <1>12 DEF KickOut
  <2>2. SamePair(loc'[t], loc[t]) /\ SameCall(loc'[t], loc[t])
    BY <2>1, SlotWritten
  <2>3. QED
    BY <1>12, <2>2 DEF KickOut
<1>13. CASE KickRead(t)
  <2>1. SamePair(loc'[t], loc[t]) /\ SameCall(loc'[t], loc[t])
    BY <1>13, SpareWritten DEF KickRead
  <2>2. QED
    BY <1>13, <2>1 DEF KickRead
<1>15. CASE KickLock(t)
  BY <1>15 DEF KickLock
<1>16. CASE KickUnlock(t)
  BY <1>16 DEF KickUnlock, NextRound
<1>17. CASE VictimKV(t)
  BY <1>17 DEF VictimKV, VictimKey, VictimVal
<1>19. CASE VictimUnlock(t)
  BY <1>19 DEF VictimUnlock
<1>20. CASE VictimCount(t)
  BY <1>20 DEF VictimCount
<1>21. CASE MutexUnlock(t)
  <2>1. loc' = [loc EXCEPT ![t].out = TRUE] /\ pc'[t] = "ret" /\ pc[t] = "mutex_unlock"
    BY <1>21 DEF MutexUnlock, Finish
  <2>2. QED
    BY <2>1, OutWritten
<1>22. QED
  BY <1>1, <1>2, <1>3, <1>4, <1>5, <1>6, <1>7, <1>8, <1>10, <1>11, <1>12,
     <1>13, <1>15, <1>16, <1>17, <1>19, <1>20, <1>21 DEF InsertStep

LEMMA PairQuiet ==
    ASSUME TypeOK, NEW t \in Threads, Course(t), PairStep(t), ~Visible(t)
    PROVE  Quiet(t)
<1> USE DEF Quiet, HandKept, CarriesDisplaced, TookEffect, SameCall, SamePair, At, Goto, TypeOK
<1>0. pc[t] \notin ChainPCs => loc[t].kicks = 0
  BY LocalTypes DEF Course
<1>1. CASE PairLock1(t)
  BY <1>1 DEF PairLock1
<1>2. CASE PairLock2(t)
  BY <1>2 DEF PairLock2
<1>3. CASE PairHit(t)
  <2>1. PICK b \in {I1(t), I2(t)}, s \in Slots :
           /\ s \in Hits(b, loc[t].key)
           /\ loc' = [loc EXCEPT ![t] = [loc[t] EXCEPT !.cur = b, !.slot = s, !.out = TRUE]]
           /\ pc[t] = "pair_scan"
           /\ pc' = [pc EXCEPT ![t] = IF loc[t].op = "erase" THEN "erase_tag" ELSE "update_kv"]
           /\ UNCHANGED <<table, num_items, victim>>
    BY <1>3, HitSlot
  <2>2. loc' = [loc EXCEPT ![t] = [loc[t] EXCEPT !.cur = b, !.slot = s, !.out = TRUE]]
    BY <2>1
  <2>3. SameCall(loc'[t], loc[t]) /\ SamePair(loc'[t], loc[t]) /\ loc'[t].out
    <3> HIDE DEF TypeOK
    <3>1. QED
      BY <2>2, HitWritten
  <2>4. pc[t] = "pair_scan" /\ pc'[t] \in {"erase_tag", "update_kv"}
    BY <2>1
  <2>5. QED
    BY <1>0, <2>3, <2>4 DEF ChainPCs
<1>4. CASE PairMiss(t)
  BY <1>4 DEF PairMiss, Course, UnhitPCs
<1>5. CASE EraseTag(t)
  BY <1>5 DEF EraseTag
<1>6. ~EraseKV(t) /\ ~UpdateKV(t) /\ ~VictimHit(t) /\ ~EraseMiss(t)
  BY DEF SlotWrite, Visible
<1>7. CASE EraseUnlock1(t)
  BY <1>7 DEF EraseUnlock1
<1>8. CASE EraseUnlock2(t)
  BY <1>8 DEF EraseUnlock2
<1>9. CASE EraseCount(t)
  <2>1. loc' = [loc EXCEPT ![t].out = TRUE] /\ pc'[t] = "ret" /\ pc[t] = "erase_count"
    BY <1>9 DEF EraseCount, Finish
  <2>2. QED
    BY <2>1, OutWritten
<1>11. CASE PairUnlock2(t)
  BY <1>0, <1>11 DEF PairUnlock2, AfterPair, ChainPCs
<1>12. CASE PairUnlock1(t)
  BY <1>0, <1>12 DEF PairUnlock1, AfterPair, ChainPCs
<1>13. CASE MissMutex(t)
  BY <1>13 DEF MissMutex, Course, UnhitPCs
<1>14. CASE MissVictim(t)
  <2>1. UNCHANGED loc /\ pc[t] = "miss_victim" /\ pc'[t] = "miss_unlock"
    BY <1>6, <1>14 DEF MissVictim, VictimHit
  <2>2. QED
    BY <2>1 DEF Course, UnhitPCs
<1>15. CASE MissUnlock(t)
  BY <1>0, <1>6, <1>15 DEF MissUnlock, EraseMiss, ChainPCs, Course, PairPCs
<1>16. QED
  BY <1>1, <1>2, <1>3, <1>4, <1>5, <1>6, <1>7, <1>8, <1>9, <1>11, <1>12,
     <1>13, <1>14, <1>15 DEF PairStep

-----------------------------------------------------------------------------
(* What a step moves: the pair of one slot, the pair in the thread's hand, *)
(* the pair in the victim cache.                                           *)

PairIn(b, s) == {p \in {kv[b][s]} : occupied[b][s]}
Hand(t)      == {p \in {loc[t].carried} : CarriesDisplaced(t)}
Cache        == {p \in {<<victim.key, victim.val>>} : victim.used}

\* The copies of a pair are counted place by place.
LEMMA ContentsStep ==
    ASSUME AgreeInv, AgreeInv', NEW t \in Threads, Begin(t) \/ Step(t), TypeOK,
           NEW b \in Buckets, NEW s \in Slots, OneSlot(b, s), NEW p \in Pairs
    PROVE  /\ Contents[p] \in Nat /\ Contents'[p] \in Nat
           /\ Contents'[p] = Contents[p]
                 + Bit(p \in PairIn(b, s)') - Bit(p \in PairIn(b, s))
                 + Bit(p \in Hand(t)') - Bit(p \in Hand(t))
                 + Bit(p \in Cache') - Bit(p \in Cache)
<1>1. \A c \in Buckets, r \in Slots :
         p \in InSlot(c, r) <=> occupied[c][r] /\ kv[c][r] = p
  BY SlotPair
<1>2. \A c \in Buckets, r \in Slots :
         p \in InSlot(c, r)' <=> occupied'[c][r] /\ kv'[c][r] = p
  <2>1. ASSUME NEW c \in Buckets, NEW r \in Slots
        PROVE  p \in InSlot(c, r)' <=> occupied'[c][r] /\ kv'[c][r] = p
    <3>1. \A u \in Threads : ~HalfMoved(u, c, r)'
      BY DEF AgreeInv, Local, AdaptingPCs, AdaptPCs, HalfMoved
    <3>2. InSlot(c, r)' = {q \in {kv'[c][r]} : occupied'[c][r]}
      BY <3>1 DEF InSlot
    <3>3. QED
      BY <3>2
  <2>2. QED
    BY <2>1
<1>3. /\ Cardinality(InSlots(p)) \in Nat /\ Cardinality(InSlots(p)') \in Nat
      /\ Cardinality(InSlots(p)') = Cardinality(InSlots(p))
            + Bit(p \in PairIn(b, s)') - Bit(p \in PairIn(b, s))
  <2>1. \A x \in (Buckets \X Slots) \ {<<b, s>>} : x \in InSlots(p) <=> x \in InSlots(p)'
    BY <1>1, <1>2 DEF OneSlot, InSlots
  <2>2. InSlots(p) \in SUBSET (Buckets \X Slots) /\ InSlots(p)' \in SUBSET (Buckets \X Slots)
    BY DEF InSlots
  <2>3. <<b, s>> \in Buckets \X Slots
    OBVIOUS
  <2>4. /\ Cardinality(InSlots(p)) \in Nat /\ Cardinality(InSlots(p)') \in Nat
        /\ Cardinality(InSlots(p)') = Cardinality(InSlots(p))
              + Bit(<<b, s>> \in InSlots(p)') - Bit(<<b, s>> \in InSlots(p))
    BY <2>1, <2>2, <2>3, CardinalityStep, PlacesFinite
  <2>5. /\ <<b, s>> \in InSlots(p) <=> p \in PairIn(b, s)
        /\ <<b, s>> \in InSlots(p)' <=> p \in PairIn(b, s)'
    BY <1>1, <1>2 DEF InSlots, PairIn
  <2>6. QED
    BY <2>4, <2>5 DEF Bit
<1>4. /\ Cardinality(InHands(p)) \in Nat /\ Cardinality(InHands(p)') \in Nat
      /\ Cardinality(InHands(p)') = Cardinality(InHands(p))
            + Bit(p \in Hand(t)') - Bit(p \in Hand(t))
  <2>1. \A u \in Threads \ {t} : u \in InHands(p) <=> u \in InHands(p)'
    BY OthersKept DEF InHands, CarriesDisplaced
  <2>2. InHands(p) \in SUBSET Threads /\ InHands(p)' \in SUBSET Threads
    BY DEF InHands
  <2>3. /\ Cardinality(InHands(p)) \in Nat /\ Cardinality(InHands(p)') \in Nat
        /\ Cardinality(InHands(p)') = Cardinality(InHands(p))
              + Bit(t \in InHands(p)') - Bit(t \in InHands(p))
    BY <2>1, <2>2, CardinalityStep, PlacesFinite
  <2>4. /\ t \in InHands(p) <=> p \in Hand(t)
        /\ t \in InHands(p)' <=> p \in Hand(t)'
    BY DEF InHands, Hand
  <2>5. QED
    BY <2>3, <2>4 DEF Bit
<1>5. /\ Contents[p] = Cardinality(InSlots(p)) + Cardinality(InHands(p)) + Bit(p \in Cache)
      /\ Contents'[p] = Cardinality(InSlots(p)') + Cardinality(InHands(p)') + Bit(p \in Cache')
  BY DEF Contents, InVictim, Cache, Bit
<1>6. PICK x \in Nat, x1 \in Nat, y \in Nat, y1 \in Nat :
         /\ x = Cardinality(InSlots(p)) /\ x1 = Cardinality(InSlots(p)')
         /\ y = Cardinality(InHands(p)) /\ y1 = Cardinality(InHands(p)')
  BY <1>3, <1>4
<1>7. /\ Bit(p \in PairIn(b, s)) \in {0, 1} /\ Bit(p \in PairIn(b, s)') \in {0, 1}
       /\ Bit(p \in Hand(t)) \in {0, 1} /\ Bit(p \in Hand(t)') \in {0, 1}
       /\ Bit(p \in Cache) \in {0, 1} /\ Bit(p \in Cache') \in {0, 1}
  BY DEF Bit
<1>8. PICK i \in {0, 1}, i1 \in {0, 1}, j \in {0, 1}, j1 \in {0, 1}, k \in {0, 1}, k1 \in {0, 1} :
         /\ i = Bit(p \in PairIn(b, s)) /\ i1 = Bit(p \in PairIn(b, s)')
         /\ j = Bit(p \in Hand(t)) /\ j1 = Bit(p \in Hand(t)')
         /\ k = Bit(p \in Cache) /\ k1 = Bit(p \in Cache')
  BY <1>7
<1>9. /\ Contents[p] = x + y + k /\ Contents'[p] = x1 + y1 + k1
      /\ x1 = x + i1 - i /\ y1 = y + j1 - j
  BY <1>3, <1>4, <1>5, <1>6, <1>8
<1>10. Contents'[p] = Contents[p] + i1 - i + j1 - j + k1 - k
  BY <1>9
<1>11. Contents[p] \in Nat /\ Contents'[p] \in Nat
  BY <1>9
<1>12. QED
  BY <1>10, <1>11, <1>8

Own(t) == <<loc[t].key, loc[t].val>>

\* A step of t at slot <<b, s>> that takes the pairs of gone out of the
\* contents and brings those of come in.
Moves(t, b, s, gone, come) ==
    /\ OneSlot(b, s)
    /\ \A p \in Pairs :
          Bit(p \in PairIn(b, s)') - Bit(p \in PairIn(b, s))
              + Bit(p \in Hand(t)') - Bit(p \in Hand(t))
              + Bit(p \in Cache') - Bit(p \in Cache)
            = Bit(p \in come) - Bit(p \in gone)
    /\ PairIn(b, s)' \cup Hand(t)' \subseteq PairIn(b, s) \cup Hand(t) \cup come
    /\ Cache' \subseteq PairIn(b, s) \cup Hand(t) \cup Cache \cup come
    /\ gone \subseteq PairIn(b, s) \cup Cache

\* The pair of an insert or update comes when the first pair is stored.
Brought(t) == IF loc[t].kicks = 0 THEN {Own(t)} ELSE {}

\* The pair a thread is about to store: a displaced one, or its own.
LEMMA CarriedPair ==
    ASSUME TypeOK, NEW t \in Threads, Course(t), pc[t] \in {"put_kv", "kick_kv", "victim_used"}
    PROVE  Hand(t) \cup Brought(t) = {loc[t].carried} /\ Hand(t) \cap Brought(t) = {}
<1>1. CASE loc[t].kicks = 0
  <2>1. loc[t].carried = Own(t) /\ ~CarriesDisplaced(t)
    BY <1>1 DEF Course, Own, CarriesDisplaced
  <2>2. QED
    BY <1>1, <2>1 DEF Hand, Brought
<1>2. CASE loc[t].kicks > 0
  <2>1. CarriesDisplaced(t) /\ loc[t].kicks # 0
    BY <1>2, LocalTypes DEF CarriesDisplaced
  <2>2. QED
    BY <2>1 DEF Hand, Brought
<1>3. QED
  BY <1>1, <1>2, LocalTypes

LEMMA PutKVMoves ==
    ASSUME TypeOK, NEW t \in Threads, Course(t), AtSlot(t), PutKV(t)
    PROVE  \E b \in Buckets, s \in Slots : Moves(t, b, s, {}, Brought(t))
<1>1. PICK b \in Buckets, s \in Slots, c \in Pairs :
         b = loc[t].cur /\ s = loc[t].slot /\ c = loc[t].carried
  BY LocalTypes
<1>2. /\ kv' = [kv EXCEPT ![b][s] = c] /\ occupied' = [occupied EXCEPT ![b][s] = TRUE]
      /\ UNCHANGED <<victim, loc>>
      /\ pc[t] = "put_kv" /\ pc'[t] = "put_count"
  BY <1>1 DEF PutKV, setKV, At, Goto, TypeOK
<1>3. OneSlot(b, s)
  BY <1>1, PutKVBalanced
<1>4. PairIn(b, s) = {}
  BY <1>1, <1>2 DEF AtSlot, PairIn
<1>5. PairIn(b, s)' = {c}
  BY <1>2 DEF PairIn, TypeOK
<1>6. Hand(t)' = {} /\ Cache' = Cache
  BY <1>2 DEF Hand, Cache, CarriesDisplaced
<1>7. Hand(t) \cup Brought(t) = {c} /\ Hand(t) \cap Brought(t) = {}
  BY <1>1, <1>2, CarriedPair
<1>8. ASSUME NEW p \in Pairs
      PROVE  Bit(p \in PairIn(b, s)') - Bit(p \in PairIn(b, s))
                + Bit(p \in Hand(t)') - Bit(p \in Hand(t))
                + Bit(p \in Cache') - Bit(p \in Cache)
              = Bit(p \in Brought(t)) - Bit(p \in {})
  <2>1. Bit(p \in PairIn(b, s)) = 0 /\ Bit(p \in Hand(t)') = 0 /\ Bit(p \in {}) = 0
    BY <1>4, <1>6 DEF Bit
  <2>2. Bit(p \in Cache') = Bit(p \in Cache) /\ Bit(p \in Cache) \in Int
    BY <1>6 DEF Bit
  <2>3. /\ Bit(p \in PairIn(b, s)') \in Int /\ Bit(p \in Hand(t)) \in Int
        /\ Bit(p \in Brought(t)) \in Int
        /\ Bit(p \in PairIn(b, s)') = Bit(p \in Hand(t)) + Bit(p \in Brought(t))
    BY <1>5, <1>7 DEF Bit
  <2>4. QED
    BY <2>1, <2>2, <2>3
<1>9. Moves(t, b, s, {}, Brought(t))
  BY <1>3, <1>5, <1>6, <1>7, <1>8 DEF Moves
<1>10. QED
  BY <1>9

LEMMA KickKVMoves ==
    ASSUME TypeOK, NEW t \in Threads, Course(t), AtSlot(t), KickKV(t)
    PROVE  \E b \in Buckets, s \in Slots : Moves(t, b, s, {}, Brought(t))
<1>1. PICK b \in Buckets, s \in Slots, c \in Pairs, d \in Pairs :
         b = loc[t].cur /\ s = loc[t].slot /\ c = loc[t].carried /\ d = loc[t].spare
  BY LocalTypes
<1>2. /\ kv' = [kv EXCEPT ![b][s] = c] /\ occupied' = [occupied EXCEPT ![b][s] = TRUE]
      /\ UNCHANGED victim
      /\ pc[t] = "kick_kv" /\ pc'[t] \in {"kick_tag", "victim_kv", "kick_lock"}
      /\ loc' = [loc EXCEPT ![t] = [loc[t] EXCEPT !.carried = loc[t].spare,
                                       !.kicks = loc[t].kicks + 1, !.old = b,
                                       !.cur = OtherBucket(loc[t].spare[1], b)]]
  BY <1>1 DEF KickKV, NextRound, setKV, At, Goto, TypeOK
<1>3. OneSlot(b, s)
  BY <1>1, KickKVBalanced
<1>4. PairIn(b, s) = {d}
  BY <1>1, <1>2 DEF AtSlot, FilledPCs, PairIn
<1>5. PairIn(b, s)' = {c}
  BY <1>2 DEF PairIn, TypeOK
<1>6. Hand(t)' = {d} /\ Cache' = Cache
  <2>1. loc'[t].kicks = loc[t].kicks + 1 /\ loc'[t].carried = d
    BY <1>1, <1>2, KickWritten
  <2>2. CarriesDisplaced(t)'
    BY <1>2, <2>1, LocalTypes DEF CarriesDisplaced
  <2>3. QED
    BY <1>2, <2>1, <2>2 DEF Hand, Cache
<1>7. Hand(t) \cup Brought(t) = {c} /\ Hand(t) \cap Brought(t) = {}
  BY <1>1, <1>2, CarriedPair
<1>8. ASSUME NEW p \in Pairs
      PROVE  Bit(p \in PairIn(b, s)') - Bit(p \in PairIn(b, s))
                + Bit(p \in Hand(t)') - Bit(p \in Hand(t))
                + Bit(p \in Cache') - Bit(p \in Cache)
              = Bit(p \in Brought(t)) - Bit(p \in {})
  <2>1. Bit(p \in {}) = 0
    BY DEF Bit
  <2>2. Bit(p \in Cache') = Bit(p \in Cache) /\ Bit(p \in Cache) \in Int
    BY <1>6 DEF Bit
  <2>3. Bit(p \in Hand(t)') = Bit(p \in PairIn(b, s)) /\ Bit(p \in PairIn(b, s)) \in Int
    BY <1>4, <1>6 DEF Bit
  <2>4. /\ Bit(p \in PairIn(b, s)') \in Int /\ Bit(p \in Hand(t)) \in Int
        /\ Bit(p \in Brought(t)) \in Int
        /\ Bit(p \in PairIn(b, s)') = Bit(p \in Hand(t)) + Bit(p \in Brought(t))
    BY <1>5, <1>7 DEF Bit
  <2>5. QED
    BY <2>1, <2>2, <2>3, <2>4
<1>9. Moves(t, b, s, {}, Brought(t))
  BY <1>3, <1>4, <1>5, <1>6, <1>7, <1>8 DEF Moves
<1>10. QED
  BY <1>9

LEMMA VictimUsedMoves ==
    ASSUME TypeOK, NEW t \in Threads, Course(t), AtVictim(t), VictimUsed(t)
    PROVE  \E b \in Buckets, s \in Slots : Moves(t, b, s, {}, Brought(t))
<1>1. PICK b \in Buckets, s \in Slots, c \in Pairs :
         b = loc[t].cur /\ s = loc[t].slot /\ c = loc[t].carried
  BY LocalTypes
<1>2. /\ victim' = [victim EXCEPT !.used = TRUE]
      /\ UNCHANGED <<kv, occupied, loc>>
      /\ pc[t] = "victim_used" /\ pc'[t] = "victim_unlock"
  BY DEF VictimUsed, At, Goto, TypeOK, table
<1>3. OneSlot(b, s) /\ PairIn(b, s)' = PairIn(b, s)
  BY <1>2 DEF OneSlot, PairIn
<1>4. Cache = {} /\ Cache' = {c}
  <2>1. ~victim.used /\ <<victim.key, victim.val>> = c
    BY <1>1, <1>2 DEF AtVictim, ClearPCs
  <2>2. victim'.used = TRUE /\ victim'.key = victim.key /\ victim'.val = victim.val
    BY <1>2 DEF TypeOK
  <2>3. QED
    BY <2>1, <2>2 DEF Cache
<1>5. Hand(t)' = {}
  BY <1>2 DEF Hand, CarriesDisplaced
<1>6. Hand(t) \cup Brought(t) = {c} /\ Hand(t) \cap Brought(t) = {}
  BY <1>1, <1>2, CarriedPair
<1>7. ASSUME NEW p \in Pairs
      PROVE  Bit(p \in PairIn(b, s)') - Bit(p \in PairIn(b, s))
                + Bit(p \in Hand(t)') - Bit(p \in Hand(t))
                + Bit(p \in Cache') - Bit(p \in Cache)
              = Bit(p \in Brought(t)) - Bit(p \in {})
  <2>1. Bit(p \in {}) = 0 /\ Bit(p \in Cache) = 0 /\ Bit(p \in Hand(t)') = 0
    BY <1>4, <1>5 DEF Bit
  <2>2. Bit(p \in PairIn(b, s)') = Bit(p \in PairIn(b, s)) /\ Bit(p \in PairIn(b, s)) \in Int
    BY <1>3 DEF Bit
  <2>3. /\ Bit(p \in Cache') \in Int /\ Bit(p \in Hand(t)) \in Int
        /\ Bit(p \in Brought(t)) \in Int
        /\ Bit(p \in Cache') = Bit(p \in Hand(t)) + Bit(p \in Brought(t))
    BY <1>4, <1>6 DEF Bit
  <2>4. QED
    BY <2>1, <2>2, <2>3
<1>8. Moves(t, b, s, {}, Brought(t))
  BY <1>3, <1>4, <1>5, <1>6, <1>7 DEF Moves
<1>9. QED
  BY <1>8

\* erase takes out a pair of its key, update puts its own in the place of one.
Replacement(t) == IF loc[t].op = "update" THEN {Own(t)} ELSE {}
Replaces(t, b, s) ==
    \E v \in Vals : Moves(t, b, s, {<<loc[t].key, v>>}, Replacement(t))

LEMMA HitMoves ==
    ASSUME TypeOK, NEW t \in Threads, Course(t), AtSlot(t), EraseKV(t) \/ UpdateKV(t)
    PROVE  \E b \in Buckets, s \in Slots : Replaces(t, b, s)
<1>1. PICK b \in Buckets, s \in Slots : b = loc[t].cur /\ s = loc[t].slot
  BY LocalTypes
<1>2. /\ UNCHANGED <<victim, loc>>
      /\ pc[t] \in {"erase_kv", "update_kv"} /\ pc'[t] \in {"erase_unlock1", "pair_unlock2"}
  BY DEF EraseKV, UpdateKV, At, Goto, TypeOK
<1>3. OneSlot(b, s)
  BY <1>1, EraseKVBalanced, UpdateKVBalanced
<1>4. PICK v \in Vals : PairIn(b, s) = {<<loc[t].key, v>>}
  <2>1. occupied[b][s] /\ kv[b][s] \in Pairs /\ kv[b][s][1] = loc[t].key
    BY <1>1, <1>2 DEF AtSlot, FilledPCs, HitPCs, TypeOK
  <2>2. PICK v \in Vals : kv[b][s] = <<loc[t].key, v>>
    BY <2>1 DEF Pairs
  <2>3. QED
    BY <2>1, <2>2 DEF PairIn
<1>5. PairIn(b, s)' = Replacement(t)
  <2>1. CASE EraseKV(t)
    <3>1. occupied' = [occupied EXCEPT ![b][s] = FALSE] /\ loc[t].op = "erase"
      BY <1>1, <2>1 DEF EraseKV, eraseKV, At, Course, ErasePCs
    <3>2. ~occupied'[b][s]
      BY <3>1 DEF TypeOK
    <3>3. QED
      BY <3>1, <3>2 DEF PairIn, Replacement
  <2>2. CASE UpdateKV(t)
    <3>1. /\ kv' = [kv EXCEPT ![b][s] = Own(t)] /\ occupied' = [occupied EXCEPT ![b][s] = TRUE]
          /\ loc[t].op = "update"
      BY <1>1, <2>2 DEF UpdateKV, setKV, At, Course, Own
    <3>2. occupied'[b][s] /\ kv'[b][s] = Own(t)
      BY <3>1 DEF TypeOK
    <3>3. QED
      BY <3>1, <3>2 DEF PairIn, Replacement
  <2>3. QED
    BY <2>1, <2>2
<1>6. Hand(t)' = {} /\ Hand(t) = {} /\ Cache' = Cache
  BY <1>2 DEF Hand, Cache, CarriesDisplaced
<1>7. ASSUME NEW p \in Pairs
      PROVE  Bit(p \in PairIn(b, s)') - Bit(p \in PairIn(b, s))
                + Bit(p \in Hand(t)') - Bit(p \in Hand(t))
                + Bit(p \in Cache') - Bit(p \in Cache)
              = Bit(p \in Replacement(t)) - Bit(p \in {<<loc[t].key, v>>})
  <2>1. Bit(p \in Hand(t)) = 0 /\ Bit(p \in Hand(t)') = 0
    BY <1>6 DEF Bit
  <2>2. Bit(p \in Cache') = Bit(p \in Cache) /\ Bit(p \in Cache) \in Int
    BY <1>6 DEF Bit
  <2>3. /\ Bit(p \in PairIn(b, s)') \in Int /\ Bit(p \in PairIn(b, s)) \in Int
        /\ Bit(p \in PairIn(b, s)') = Bit(p \in Replacement(t))
        /\ Bit(p \in PairIn(b, s)) = Bit(p \in {<<loc[t].key, v>>})
    BY <1>4, <1>5 DEF Bit
  <2>4. QED
    BY <2>1, <2>2, <2>3
<1>8. Moves(t, b, s, {<<loc[t].key, v>>}, Replacement(t))
  BY <1>3, <1>4, <1>5, <1>6, <1>7 DEF Moves
<1>9. QED
  BY <1>8 DEF Replaces

LEMMA VictimHitMoves ==
    ASSUME TypeOK, NEW t \in Threads, Course(t), VictimHit(t)
    PROVE  \E b \in Buckets, s \in Slots : Replaces(t, b, s)
<1>1. PICK b \in Buckets, s \in Slots : b = loc[t].cur /\ s = loc[t].slot
  BY LocalTypes
<1>2. /\ victim.used /\ victim.key = loc[t].key /\ victim.val \in Vals
      /\ victim' = IF loc[t].op = "erase" THEN [victim EXCEPT !.used = FALSE]
                                          ELSE [victim EXCEPT !.val = loc[t].val]
      /\ UNCHANGED <<kv, occupied>>
      /\ pc[t] = "miss_victim" /\ pc'[t] = "miss_unlock"
      /\ loc[t].op \in {"erase", "update"}
  BY DEF VictimHit, MissVictim, IsVictim, At, Goto, TypeOK, table, Course, PairPCs
<1>3. PICK v \in Vals : v = victim.val
  BY <1>2
<1>4. OneSlot(b, s) /\ PairIn(b, s)' = PairIn(b, s)
  BY <1>2 DEF OneSlot, PairIn
<1>5. Cache = {<<loc[t].key, v>>}
  BY <1>2, <1>3 DEF Cache
<1>6. Cache' = Replacement(t)
  <2>1. CASE loc[t].op = "erase"
    <3>1. ~victim'.used
      BY <1>2, <2>1 DEF TypeOK
    <3>2. QED
      BY <2>1, <3>1 DEF Cache, Replacement
  <2>2. CASE loc[t].op = "update"
    <3>1. victim'.used /\ victim'.key = loc[t].key /\ victim'.val = loc[t].val
      BY <1>2, <2>2 DEF TypeOK
    <3>2. QED
      BY <2>2, <3>1 DEF Cache, Replacement, Own
  <2>3. QED
    BY <1>2, <2>1, <2>2
<1>7. Hand(t)' = {} /\ Hand(t) = {}
  BY <1>2 DEF Hand, CarriesDisplaced
<1>8. ASSUME NEW p \in Pairs
      PROVE  Bit(p \in PairIn(b, s)') - Bit(p \in PairIn(b, s))
                + Bit(p \in Hand(t)') - Bit(p \in Hand(t))
                + Bit(p \in Cache') - Bit(p \in Cache)
              = Bit(p \in Replacement(t)) - Bit(p \in {<<loc[t].key, v>>})
  <2>1. Bit(p \in Hand(t)) = 0 /\ Bit(p \in Hand(t)') = 0
    BY <1>7 DEF Bit
  <2>2. Bit(p \in PairIn(b, s)') = Bit(p \in PairIn(b, s)) /\ Bit(p \in PairIn(b, s)) \in Int
    BY <1>4 DEF Bit
  <2>3. /\ Bit(p \in Cache') \in Int /\ Bit(p \in Cache) \in Int
        /\ Bit(p \in Cache') = Bit(p \in Replacement(t))
        /\ Bit(p \in Cache) = Bit(p \in {<<loc[t].key, v>>})
    BY <1>5, <1>6 DEF Bit
  <2>4. QED
    BY <2>1, <2>2, <2>3
<1>9. Moves(t, b, s, {<<loc[t].key, v>>}, Replacement(t))
  BY <1>4, <1>5, <1>6, <1>7, <1>8 DEF Moves
<1>10. QED
  BY <1>9 DEF Replaces

-----------------------------------------------------------------------------
(* The inductive invariant: what a thread that has found no copy of its    *)
(* key may rely on until it takes effect.                                  *)

KeyInTable(k) ==
    \/ \E b \in Buckets, s \in Slots : occupied[b][s] /\ kv[b][s][1] = k
    \/ \E t \in Threads : CarriesDisplaced(t) /\ loc[t].carried[1] = k
KeyInVictim(k) == victim.used /\ victim.key = k

CallOf(t) == [op |-> loc[t].op, key |-> loc[t].key, val |-> loc[t].val]

Missed(t) ==
    /\ /\ loc[t].op \in {"erase", "update"} /\ ~loc[t].out
       /\ pc[t] \in {"pair_unlock2", "pair_unlock1", "miss_mutex", "miss_victim", "miss_unlock"}
       => ~KeyInTable(loc[t].key)
    /\ ~loc[t].out /\ pc[t] = "miss_unlock" => ~KeyInVictim(loc[t].key)
    /\ loc[t].op = "update" /\ pc[t] \in InsertPCs /\ ~TookEffect(t) =>
          ~KeyInTable(loc[t].key) /\ ~KeyInVictim(loc[t].key)

MissedInv == \A t \in Threads :
    /\ pc[t] # "idle" => CallOf(t) \in Calls[t]
    /\ Missed(t)

\* Under WritersOnly no thread is in findinfilter.
LEMMA OnlyWriterSteps ==
    ASSUME WritersOnly, TypeOK, AgreeInv, CourseInv, MissedInv, NEW t \in Threads, Begin(t) \/ Step(t)
    PROVE  ~(FindStep(t) \/ AdaptStep(t))
<1> SUFFICES ASSUME FindStep(t) \/ AdaptStep(t) PROVE FALSE
  OBVIOUS
<1>1. pc[t] \in FindPCs
  BY FindReads DEF AgreeInv, CourseInv
<1>2. loc[t].op = "findinfilter" /\ pc[t] # "idle"
  BY <1>1 DEF CourseInv, Course, FindPCs
<1>3. QED
  BY <1>2 DEF MissedInv, CallOf, WritersOnly

\* The other steps move no pair.
LEMMA StillMoves ==
    ASSUME WritersOnly, TypeOK, AgreeInv, CourseInv, MissedInv, NEW t \in Threads,
           Begin(t) \/ Step(t), ~(SlotWrite(t) \/ VictimUsed(t) \/ VictimHit(t))
    PROVE  \E b \in Buckets, s \in Slots : Moves(t, b, s, {}, {})
<1>1. Local(t) /\ Course(t) /\ AtVictim(t) /\ loc'[t].op # "find"
  BY WritersDoNotLookUp, LookupFree DEF AgreeInv, CourseInv
<1>2. UNCHANGED <<kv, occupied>>
  BY <1>1, Writers
<1>3. Cache' = Cache
  <2>1. CASE UNCHANGED victim
    BY <2>1 DEF Cache
  <2>2. CASE VictimKV(t)
    <3>1. ~victim.used /\ ~victim'.used
      BY <1>1, <2>2 DEF VictimKV, VictimKey, VictimVal, AtVictim, ClearPCs, At, TypeOK
    <3>2. QED
      BY <3>1 DEF Cache
  <2>3. CASE MissVictim(t)
    <3>1. UNCHANGED victim
      BY <2>3 DEF MissVictim, VictimHit
    <3>2. QED
      BY <3>1 DEF Cache
  <2>4. QED
    BY <1>1, <2>1, <2>2, <2>3, Writers DEF VictimWrite
<1>4. Hand(t)' = Hand(t)
  <2>1. CASE pc[t] \in {"idle", "ret", "insert_victim", "miss_unlock"}
             /\ pc'[t] \in {"idle", "ret", "first_lock", "pair_lock1", "find_even1"}
    BY <2>1 DEF Hand, CarriesDisplaced
  <2>2. CASE Begin(t) \/ Return(t)
    BY <1>1, <2>1, <2>2, CallPlaces
  <2>3. CASE InsertRefused(t) \/ EraseMiss(t)
    <3>1. /\ pc[t] \in {"insert_victim", "miss_unlock"} /\ pc'[t] = "ret"
      BY <2>3 DEF InsertRefused, EraseMiss, MissUnlock, Finish, At, Goto, TypeOK
    <3>2. QED
      BY <2>1, <3>1
  <2>4. CASE Quiet(t)
    BY <2>4 DEF Quiet, HandKept, Hand
  <2>5. QED
    BY <1>1, <2>2, <2>3, <2>4, OnlyWriterSteps, InsertQuiet, PairQuiet DEF Step, Visible
<1>5. PICK b \in Buckets, s \in Slots : TRUE
  BY LocalTypes
<1>6. OneSlot(b, s) /\ PairIn(b, s)' = PairIn(b, s)
  BY <1>2 DEF OneSlot, PairIn
<1>7. ASSUME NEW p \in Pairs
      PROVE  Bit(p \in PairIn(b, s)') - Bit(p \in PairIn(b, s))
                + Bit(p \in Hand(t)') - Bit(p \in Hand(t))
                + Bit(p \in Cache') - Bit(p \in Cache)
              = Bit(p \in {}) - Bit(p \in {})
  <2>1. /\ Bit(p \in PairIn(b, s)') = Bit(p \in PairIn(b, s)) /\ Bit(p \in PairIn(b, s)) \in Int
        /\ Bit(p \in Hand(t)') = Bit(p \in Hand(t)) /\ Bit(p \in Hand(t)) \in Int
        /\ Bit(p \in Cache') = Bit(p \in Cache) /\ Bit(p \in Cache) \in Int
        /\ Bit(p \in {}) \in Int
    BY <1>3, <1>4, <1>6 DEF Bit
  <2>2. QED
    BY <2>1
<1>8. Moves(t, b, s, {}, {})
  BY <1>3, <1>4, <1>6, <1>7 DEF Moves
<1>9. QED
  BY <1>8

\* The steps by which a pair comes or goes.
Effect(t) == SlotWrite(t) \/ VictimUsed(t) \/ VictimHit(t)

LEMMA StepMoves ==
    ASSUME WritersOnly, TypeOK, AgreeInv, CourseInv, MissedInv, NEW t \in Threads,
           Begin(t) \/ Step(t)
    PROVE  \E b \in Buckets, s \in Slots : \E gone, come :
              /\ Moves(t, b, s, gone, come)
              /\ come = {} \/ (come = {Own(t)} /\ Effect(t))
<1>1. Course(t) /\ AtSlot(t) /\ AtVictim(t)
  BY DEF CourseInv
<1>2. CASE PutKV(t) \/ KickKV(t) \/ VictimUsed(t)
  <2>1. \E b \in Buckets, s \in Slots : Moves(t, b, s, {}, Brought(t))
    BY <1>1, <1>2, PutKVMoves, KickKVMoves, VictimUsedMoves
  <2>2. QED
    BY <1>2, <2>1 DEF Brought, Effect, SlotWrite
<1>3. CASE EraseKV(t) \/ UpdateKV(t) \/ VictimHit(t)
  <2>1. \E b \in Buckets, s \in Slots : Replaces(t, b, s)
    BY <1>1, <1>3, HitMoves, VictimHitMoves
  <2>2. QED
    BY <1>3, <2>1 DEF Replaces, Replacement, Effect, SlotWrite
<1>4. CASE ~Effect(t)
  BY <1>4, StillMoves DEF Effect
<1>5. QED
  BY <1>2, <1>3, <1>4 DEF Effect, SlotWrite

\* A step brings a key only by taking effect, and only the key of its call.
LEMMA KeysKept ==
    ASSUME WritersOnly, TypeOK, AgreeInv, CourseInv, MissedInv, NEW t \in Threads,
           Begin(t) \/ Step(t), NEW k, k # loc[t].key \/ ~Effect(t)
    PROVE  /\ KeyInTable(k)' => KeyInTable(k)
           /\ KeyInVictim(k)' => KeyInTable(k) \/ KeyInVictim(k)
<1>0. PICK b \in Buckets, s \in Slots :
         \E gone, come : /\ Moves(t, b, s, gone, come)
                         /\ come = {} \/ (come = {Own(t)} /\ Effect(t))
  BY StepMoves
<1>1. PICK gone, come : /\ Moves(t, b, s, gone, come)
                        /\ come = {} \/ (come = {Own(t)} /\ Effect(t))
  BY <1>0
<1>2. \A q \in PairIn(b, s) \cup Hand(t) \cup come : q[1] = k => KeyInTable(k)
  <2>1. \A q \in PairIn(b, s) : q[1] = k => KeyInTable(k)
    BY DEF PairIn, KeyInTable
  <2>2. \A q \in Hand(t) : q[1] = k => KeyInTable(k)
    BY DEF Hand, KeyInTable
  <2>3. \A q \in come : q[1] # k
    BY <1>1 DEF Own
  <2>4. QED
    BY <2>1, <2>2, <2>3
<1>3. ASSUME NEW c \in Buckets, NEW r \in Slots, occupied'[c][r], kv'[c][r][1] = k
      PROVE  KeyInTable(k)
  <2>1. CASE c = b /\ r = s
    <3>1. kv'[c][r] \in PairIn(b, s)'
      BY <1>3, <2>1 DEF PairIn
    <3>2. QED
      BY <1>1, <1>2, <1>3, <3>1 DEF Moves
  <2>2. CASE ~(c = b /\ r = s)
    <3>1. kv'[c][r] = kv[c][r] /\ occupied'[c][r] = occupied[c][r]
      BY <1>1, <2>2 DEF Moves, OneSlot
    <3>2. QED
      BY <1>3, <3>1 DEF KeyInTable
  <2>3. QED
    BY <2>1, <2>2
<1>4. ASSUME NEW u \in Threads, CarriesDisplaced(u)', loc'[u].carried[1] = k
      PROVE  KeyInTable(k)
  <2>1. CASE u = t
    <3>1. loc'[t].carried \in Hand(t)'
      BY <1>4, <2>1 DEF Hand
    <3>2. QED
      BY <1>1, <1>2, <1>4, <2>1, <3>1 DEF Moves
  <2>2. CASE u # t
    <3>1. pc'[u] = pc[u] /\ loc'[u] = loc[u]
      BY <2>2, OthersKept
    <3>2. QED
      BY <1>4, <3>1 DEF KeyInTable, CarriesDisplaced
  <2>3. QED
    BY <2>1, <2>2
<1>5. KeyInVictim(k)' => KeyInTable(k) \/ KeyInVictim(k)
  <2>1. SUFFICES ASSUME victim'.used, victim'.key = k PROVE KeyInTable(k) \/ KeyInVictim(k)
    BY DEF KeyInVictim
  <2>2. PICK q : q = <<victim'.key, victim'.val>> /\ q \in Cache'
    BY <2>1 DEF Cache
  <2>3. q[1] = k
    BY <2>1, <2>2
  <2>4. q \in PairIn(b, s) \cup Hand(t) \cup Cache \cup come
    BY <1>1, <2>2 DEF Moves
  <2>5. CASE q \in Cache
    BY <2>3, <2>5 DEF Cache, KeyInVictim
  <2>6. QED
    BY <1>2, <2>3, <2>4, <2>5
<1>6. QED
  BY <1>3, <1>4, <1>5 DEF KeyInTable

\* Both buckets of a key searched under their locks: no slot holds the key, and
\* no kick chain has it in its hands.
LEMMA MissedKey ==
    ASSUME TypeOK, LockInv, AgreeInv, CourseInv, NEW t \in Threads, PairMiss(t)
    PROVE  ~KeyInTable(loc[t].key)
<1>1. PICK k \in Keys : k = loc[t].key
  BY LocalTypes
<1>2. pc[t] = "pair_scan" /\ Hits(I1(t), k) = {} /\ Hits(I2(t), k) = {}
  BY <1>1 DEF PairMiss, At
<1>3. \A b \in Buckets : Home(k, b) => Holds(t, b) /\ Hits(b, k) = {}
  BY <1>1, <1>2 DEF Home, I1, I2, Holds, FirstPCs, SecondPCs
<1>4. ASSUME NEW b \in Buckets, NEW s \in Slots, occupied[b][s], kv[b][s][1] = k PROVE FALSE
  <2>1. Home(k, b)
    BY <1>4 DEF CourseInv, HomeInv
  <2>2. SlotOK(b, s)
    BY <1>2, <1>3, <2>1, HeldSlotOK DEF Dirty, TagPCs
  <2>3. s \in Hits(b, k)
    BY <1>4, <2>2 DEF SlotOK, Hits, Matches
  <2>4. QED
    BY <1>3, <2>1, <2>3
<1>5. ASSUME NEW u \in Threads, CarriesDisplaced(u), loc[u].carried[1] = k PROVE FALSE
  <2>1. PICK b \in Buckets : Home(k, b) /\ Holds(u, b)
    <3>1. InHand(u)
      BY DEF CourseInv
    <3>2. loc[u].cur \in Buckets /\ loc[u].old \in Buckets
      BY LocalTypes
    <3>3. CASE pc[u] = "kick_lock"
      BY <1>5, <3>1, <3>2, <3>3 DEF InHand, Holds, OldPCs
    <3>4. CASE pc[u] # "kick_lock"
      BY <1>5, <3>1, <3>2, <3>4 DEF InHand, CarriesDisplaced, Holds, CurPCs
    <3>5. QED
      BY <3>3, <3>4
  <2>2. u = t
    BY <1>3, <2>1 DEF LockInv
  <2>3. QED
    BY <1>2, <1>5, <2>2 DEF CarriesDisplaced
<1>6. QED
  BY <1>1, <1>4, <1>5 DEF KeyInTable

\* Where a step that takes effect leaves its call.
LEMMA EffectAfter ==
    ASSUME TypeOK, NEW t \in Threads, Course(t), Effect(t)
    PROVE  /\ SameCall(loc'[t], loc[t]) /\ TookEffect(t)'
           /\ pc[t] \notin {"idle", "ret"} /\ pc'[t] \notin {"idle", "ret"}
           /\ pc'[t] \in {"pair_unlock2", "miss_unlock"} => loc'[t].out
           /\ TookEffect(t) <=> loc[t].kicks > 0
<1>0. loc[t].kicks \in Nat
  BY LocalTypes
<1> USE DEF TookEffect, SameCall, At, Goto, TypeOK
<1>1. CASE PutKV(t)
  BY <1>1 DEF PutKV
<1>2. CASE KickKV(t)
  <2>1. PICK x, y : loc' = [loc EXCEPT ![t] = [loc[t] EXCEPT !.carried = loc[t].spare,
                              !.kicks = loc[t].kicks + 1, !.old = x, !.cur = y]]
    BY <1>2, ZenonT(60) DEF KickKV
  <2>2. SameCall(loc'[t], loc[t]) /\ loc'[t].kicks = loc[t].kicks + 1
    <3> HIDE DEF TypeOK
    <3>1. QED
      BY <2>1, KickWritten
  <2>3. pc[t] = "kick_kv" /\ pc'[t] \in {"kick_tag", "victim_kv", "kick_lock"}
    BY <1>2 DEF KickKV, NextRound
  <2>4. QED
    BY <1>0, <2>2, <2>3
<1>3. CASE VictimUsed(t)
  BY <1>3 DEF VictimUsed
<1>4. CASE EraseKV(t)
  BY <1>4 DEF EraseKV
<1>5. CASE UpdateKV(t)
  BY <1>5 DEF UpdateKV, Course
<1>6. CASE VictimHit(t)
  <2>1. loc' = [loc EXCEPT ![t].out = TRUE] /\ pc[t] = "miss_victim" /\ pc'[t] = "miss_unlock"
    BY <1>6 DEF VictimHit, MissVictim
  <2>2. SameCall(loc'[t], loc[t]) /\ loc'[t].out
    BY <2>1, OutWritten
  <2>3. QED
    BY <2>1, <2>2
<1>7. QED
  BY <1>1, <1>2, <1>3, <1>4, <1>5, <1>6 DEF Effect, SlotWrite

\* A refused insert and an erase that found nothing return.
LEMMA NothingDone ==
    ASSUME TypeOK, NEW t \in Threads, Course(t), InsertRefused(t) \/ EraseMiss(t)
    PROVE  /\ SameCall(loc'[t], loc[t]) /\ ~loc'[t].out /\ pc'[t] = "ret"
           /\ pc[t] \notin {"idle", "ret"} /\ ~TookEffect(t)
<1>0. /\ loc[t] \in LocType
      /\ pc[t] \notin ChainPCs => loc[t].kicks = 0
  BY LocalTypes DEF Course
<1> USE DEF TookEffect, At, Goto, TypeOK
<1>1. CASE InsertRefused(t)
  <2>1. loc' = [loc EXCEPT ![t].out = FALSE] /\ pc[t] = "insert_victim" /\ pc'[t] = "ret"
    BY <1>1 DEF InsertRefused, Finish
  <2>2. loc[t].kicks = 0
    BY <1>0, <2>1 DEF ChainPCs
  <2>3. SameCall(loc'[t], loc[t]) /\ ~loc'[t].out
    <3>1. loc'[t] = [loc[t] EXCEPT !.out = FALSE]
      BY <2>1
    <3>2. QED
      BY <1>0, <3>1 DEF LocType, SameCall
  <2>4. QED
    BY <2>1, <2>2, <2>3
<1>2. CASE EraseMiss(t)
  <2>1. UNCHANGED loc /\ pc[t] = "miss_unlock" /\ pc'[t] = "ret" /\ ~loc[t].out
    BY <1>2 DEF EraseMiss, MissUnlock
  <2>2. loc[t].kicks = 0
    BY <1>0, <2>1 DEF ChainPCs
  <2>3. QED
    BY <2>1, <2>2 DEF SameCall
<1>3. QED
  BY <1>1, <1>2

\* A call starts.
LEMMA CallBegins ==
    ASSUME WritersOnly, TypeOK, NEW t \in Threads, Begin(t)
    PROVE  /\ pc[t] = "idle" /\ pc'[t] \in {"first_lock", "pair_lock1"}
           /\ CallOf(t)' \in Calls[t] /\ loc'[t].kicks = 0
           /\ pc'[t] = "first_lock" => loc'[t].op = "insert"
<1>1. PICK c \in Calls[t] :
         /\ loc' = [loc EXCEPT ![t] = Fresh(c.op, c.key, c.val)]
         /\ pc' = [pc EXCEPT ![t] = CASE c.op = "insert" -> "first_lock"
                                      [] c.op \in {"erase", "update"} -> "pair_lock1"
                                      [] c.op \in {"find", "findinfilter"} -> "find_even1"]
         /\ pc[t] = "idle"
  BY DEF Begin, At, Goto
<1>2. c.op \in {"insert", "erase", "update"} /\ c \in CallSet
  BY CallAssumption DEF WritersOnly
<1>3. loc'[t].op = c.op /\ loc'[t].key = c.key /\ loc'[t].val = c.val /\ loc'[t].kicks = 0
  BY <1>1 DEF Fresh, TypeOK
<1>4. CallOf(t)' = c
  BY <1>2, <1>3 DEF CallOf, CallSet
<1>5. pc'[t] = IF c.op = "insert" THEN "first_lock" ELSE "pair_lock1"
  BY <1>1, <1>2 DEF TypeOK
<1>6. QED
  BY <1>1, <1>2, <1>3, <1>4, <1>5

\* The steps of insert_impl stay in it until the call is over.
LEMMA InsertStays ==
    ASSUME TypeOK, NEW t \in Threads, InsertStep(t)
    PROVE  pc[t] \in InsertPCs /\ pc'[t] \in InsertPCs \cup {"ret"}
BY DEF InsertPCs, At, Goto, TypeOK, Finish, NextRound, InsertStep, FirstLock, TakeFreeSlot,
   FirstFull, PutKV, PutCount, PutUnlock, FullUnlock, InsertMutex, InsertRefused, InsertProceed,
   SecondLock, KickOut, KickRead, KickKV, KickLock, KickUnlock, VictimKV, VictimKey, VictimVal, VictimUsed,
   VictimUnlock, VictimCount, MutexUnlock

\* What a thread knows of its own key after its own step.
LEMMA MissedOwn ==
    ASSUME WritersOnly, TypeOK, LockInv, AgreeInv, CourseInv, MissedInv, NEW t \in Threads,
           Begin(t) \/ Step(t)
    PROVE  (pc'[t] # "idle" => CallOf(t)' \in Calls[t]) /\ Missed(t)'
<1>1. PICK k \in Keys : k = loc[t].key
  BY LocalTypes
<1>2. Course(t) /\ Missed(t) /\ (pc[t] # "idle" => CallOf(t) \in Calls[t])
  BY DEF CourseInv, MissedInv
<1>3. CASE Begin(t)
  BY <1>3, CallBegins DEF Missed, InsertPCs
<1>4. CASE Return(t)
  <2>1. pc'[t] = "idle"
    BY <1>4 DEF Return, Goto, TypeOK
  <2>2. QED
    BY <2>1 DEF Missed, InsertPCs
<1>5. CASE Effect(t)
  <2>1. CallOf(t)' = CallOf(t)
    BY <1>2, <1>5, EffectAfter DEF CallOf, SameCall
  <2>2. pc'[t] \notin {"pair_unlock1", "miss_mutex", "miss_victim"}
    BY <1>5 DEF Effect, SlotWrite, PutKV, KickKV, EraseKV, UpdateKV, VictimUsed, VictimHit,
       MissVictim, NextRound, At, Goto, TypeOK
  <2>3. Missed(t)'
    BY <1>2, <1>5, <2>2, EffectAfter DEF Missed
  <2>4. QED
    BY <1>2, <1>5, <2>1, <2>3, EffectAfter
<1>6. CASE InsertRefused(t) \/ EraseMiss(t)
  <2>1. CallOf(t)' = CallOf(t)
    BY <1>2, <1>6, NothingDone DEF CallOf, SameCall
  <2>2. QED
    BY <1>2, <1>6, <2>1, NothingDone DEF Missed, InsertPCs
<1>7. CASE ~Visible(t) /\ (InsertStep(t) \/ PairStep(t))
  <2>1. Quiet(t) /\ ~Effect(t)
    BY <1>2, <1>7, InsertQuiet, PairQuiet DEF Visible, Effect
  <2>2. /\ KeyInTable(k)' => KeyInTable(k)
        /\ KeyInVictim(k)' => KeyInTable(k) \/ KeyInVictim(k)
    BY <2>1, KeysKept
  <2>3. CallOf(t)' = CallOf(t) /\ loc'[t].op = loc[t].op /\ loc'[t].key = k
    BY <1>1, <2>1 DEF Quiet, CallOf, SameCall
  <2>4. CASE InsertStep(t)
    <3>1. pc[t] \in InsertPCs /\ pc'[t] \in InsertPCs \cup {"ret"}
      BY <2>4, InsertStays
    <3>2. pc'[t] \notin {"pair_unlock2", "pair_unlock1", "miss_mutex", "miss_victim", "miss_unlock"}
      BY <3>1 DEF InsertPCs
    <3>3. pc'[t] # "ret" => (TookEffect(t)' <=> TookEffect(t))
      BY <2>1 DEF Quiet
    <3>4. "ret" \notin InsertPCs
      BY DEF InsertPCs
    <3>5. Missed(t)'
      BY <1>1, <1>2, <2>2, <2>3, <3>1, <3>2, <3>3, <3>4 DEF Missed
    <3>6. QED
      BY <1>2, <2>1, <2>3, <3>5 DEF Quiet
  <2>5. CASE PairStep(t)
    <3>1. pc'[t] \in InsertPCs => MissUnlock(t)
      BY <2>5, ZenonT(60) DEF PairStep, PairLock1, PairLock2, PairHit, PairMiss, EraseTag, EraseKV,
         EraseUnlock1, EraseUnlock2, EraseCount, UpdateKV, PairUnlock2, PairUnlock1, MissMutex,
         MissVictim, AfterPair, Finish, At, Goto, TypeOK, InsertPCs
    <3>2. MissUnlock(t) => /\ pc[t] = "miss_unlock" /\ loc' = loc
                           /\ pc'[t] \in {"ret", "first_lock", "erase_count"}
                           /\ pc'[t] = "first_lock" => ~loc[t].out
      BY DEF MissUnlock, At, Goto, TypeOK
    <3>3. pc'[t] \in InsertPCs => ~KeyInTable(k)' /\ ~KeyInVictim(k)'
      <4>1. SUFFICES ASSUME pc'[t] \in InsertPCs PROVE ~KeyInTable(k)' /\ ~KeyInVictim(k)'
        OBVIOUS
      <4>2. pc[t] = "miss_unlock" /\ pc'[t] = "first_lock" /\ ~loc[t].out
        BY <3>1, <3>2, <4>1 DEF InsertPCs
      <4>3. loc[t].op \in {"erase", "update"}
        BY <1>2, <4>2 DEF Course, PairPCs
      <4>4. QED
        BY <1>1, <1>2, <2>2, <4>2, <4>3 DEF Missed
    <3>4. pc'[t] = "miss_unlock" /\ ~loc'[t].out => ~KeyInTable(k)' /\ ~KeyInVictim(k)'
      <4>1. SUFFICES ASSUME pc'[t] = "miss_unlock", ~loc'[t].out
                     PROVE  ~KeyInTable(k)' /\ ~KeyInVictim(k)'
        OBVIOUS
      <4>2. MissVictim(t)
        BY <2>5, <4>1 DEF PairStep, PairLock1, PairLock2, PairHit, PairMiss, EraseTag, EraseKV,
           EraseUnlock1, EraseUnlock2, EraseCount, UpdateKV, PairUnlock2, PairUnlock1, MissMutex,
           MissUnlock, AfterPair, Finish, At, Goto, TypeOK
      <4>3. pc[t] = "miss_victim" /\ UNCHANGED loc /\ ~IsVictim(loc[t].key)
        BY <1>7, <4>2 DEF MissVictim, Visible, VictimHit, At
      <4>4. ~loc[t].out /\ loc[t].op \in {"erase", "update"} /\ ~KeyInVictim(k)
        BY <1>1, <1>2, <4>3 DEF Course, UnhitPCs, PairPCs, IsVictim, KeyInVictim
      <4>5. QED
        BY <1>1, <1>2, <2>2, <4>3, <4>4 DEF Missed
    <3>5. pc'[t] \in {"pair_unlock2", "pair_unlock1", "miss_mutex", "miss_victim"}
            /\ loc'[t].op \in {"erase", "update"} /\ ~loc'[t].out => ~KeyInTable(k)'
      <4>1. SUFFICES ASSUME pc'[t] \in {"pair_unlock2", "pair_unlock1", "miss_mutex", "miss_victim"},
                            loc'[t].op \in {"erase", "update"}, ~loc'[t].out
                     PROVE  ~KeyInTable(k)'
        OBVIOUS
      <4>2. CASE PairMiss(t)
        BY <1>1, <2>2, <4>2, MissedKey
      <4>3. CASE PairUnlock2(t) \/ PairUnlock1(t) \/ MissMutex(t)
        <5>1. pc[t] \in {"pair_unlock2", "pair_unlock1", "miss_mutex"} /\ loc' = loc
          BY <4>3 DEF PairUnlock2, PairUnlock1, MissMutex, At
        <5>2. QED
          BY <1>1, <1>2, <2>2, <4>1, <5>1 DEF Missed
      <4>4. ~UpdateKV(t)
        BY <1>7 DEF Visible, SlotWrite
      <4>5. QED
        BY <2>5, <4>1, <4>2, <4>3, <4>4 DEF PairStep, PairLock1, PairLock2, PairHit, EraseTag, EraseKV,
           EraseUnlock1, EraseUnlock2, EraseCount, MissVictim,
           MissUnlock, Finish, At, Goto, TypeOK
    <3>6. Missed(t)'
      BY <2>3, <3>3, <3>4, <3>5 DEF Missed
    <3>7. QED
      BY <1>2, <2>1, <2>3, <3>6 DEF Quiet
  <2>6. QED
    BY <1>7, <2>4, <2>5
<1>8. QED
  BY <1>3, <1>4, <1>5, <1>6, <1>7, OnlyWriterSteps DEF Step, Visible, Effect

\* A step of another thread: the keys of the two calls differ.
LEMMA MissedOthers ==
    ASSUME WritersOnly, OwnKeys, TypeOK, AgreeInv, CourseInv, MissedInv,
           NEW t \in Threads, Begin(t) \/ Step(t), NEW u \in Threads \ {t}
    PROVE  (pc'[u] # "idle" => CallOf(u)' \in Calls[u]) /\ Missed(u)'
<1>1. PICK k \in Keys : k = loc[u].key
  BY LocalTypes
<1>2. pc'[u] = pc[u] /\ loc'[u] = loc[u]
  BY OthersKept
<1>3. Missed(u) /\ (pc[u] # "idle" => CallOf(u) \in Calls[u])
  BY DEF MissedInv
<1>4. CallOf(u)' = CallOf(u)
  BY <1>2 DEF CallOf
<1>5. TookEffect(u)' <=> TookEffect(u)
  BY <1>2 DEF TookEffect
<1>6. CASE pc[u] # "idle" /\ loc[u].op \in {"erase", "update"}
  <2>1. Effect(t) => pc[t] # "idle"
    BY EffectAfter DEF CourseInv
  <2>2. Effect(t) => k # loc[t].key
    <3>1. SUFFICES ASSUME Effect(t) PROVE k # loc[t].key
      OBVIOUS
    <3>2. CallOf(t) \in Calls[t] /\ CallOf(u) \in Calls[u]
      BY <1>3, <1>6, <2>1, <3>1 DEF MissedInv
    <3>3. CallOf(u).op = loc[u].op /\ CallOf(u).key = k /\ CallOf(t).key = loc[t].key
      BY <1>1 DEF CallOf
    <3>4. QED
      BY <1>6, <3>2, <3>3 DEF OwnKeys
  <2>3. /\ KeyInTable(k)' => KeyInTable(k)
        /\ KeyInVictim(k)' => KeyInTable(k) \/ KeyInVictim(k)
    BY <2>2, KeysKept
  <2>4. pc[u] = "miss_unlock" => loc[u].op \in {"erase", "update"}
    BY <1>6
  <2>5. Missed(u)'
    BY <1>1, <1>2, <1>3, <1>5, <1>6, <2>3 DEF Missed
  <2>6. QED
    BY <1>2, <1>3, <1>4, <2>5
<1>7. CASE ~(pc[u] # "idle" /\ loc[u].op \in {"erase", "update"})
  <2>1. pc[u] # "miss_unlock"
    BY <1>7 DEF CourseInv, Course, PairPCs
  <2>2. loc[u].op = "update" => pc[u] \notin InsertPCs
    BY <1>7 DEF InsertPCs
  <2>3. pc[u] \in {"pair_unlock2", "pair_unlock1", "miss_mutex", "miss_victim"}
           => loc[u].op \notin {"erase", "update"}
    BY <1>7
  <2>4. Missed(u)'
    BY <1>2, <2>1, <2>2, <2>3 DEF Missed
  <2>5. QED
    BY <1>2, <1>3, <1>4, <2>4
<1>8. QED
  BY <1>6, <1>7

LEMMA MissedCorrect == WritersOnly /\ OwnKeys => (Spec => []MissedInv)
<1> SUFFICES ASSUME WritersOnly, OwnKeys PROVE Spec => []MissedInv
  OBVIOUS
<1>1. Init => MissedInv
  BY DEF Init, MissedInv, Missed, InsertPCs
<1>2. TypeOK /\ LockInv /\ AgreeInv /\ CourseInv /\ MissedInv /\ [Next]_vars => MissedInv'
  <2> SUFFICES ASSUME TypeOK, LockInv, AgreeInv, CourseInv, MissedInv, [Next]_vars
               PROVE  MissedInv'
    OBVIOUS
  <2>1. CASE UNCHANGED vars
    BY <2>1 DEF vars, MissedInv, Missed, KeyInTable, KeyInVictim, CarriesDisplaced, TookEffect, CallOf
  <2>2. ASSUME NEW t \in Threads, Begin(t) \/ Step(t) PROVE MissedInv'
    BY <2>2, MissedOwn, MissedOthers DEF MissedInv
  <2>3. QED
    BY <2>1, <2>2 DEF Next
<1>3. NoLookups
  BY WritersDoNotLookUp
<1>4. QED
  BY <1>1, <1>2, <1>3, TypeCorrect, LockCorrect, AgreeCorrect, CourseCorrect, PTL DEF Spec

-----------------------------------------------------------------------------
(* The refinement: every step is a step of KeyValueBag or changes nothing  *)
(* of it.                                                                  *)

LEMMA ContentsType == Contents \in [Pairs -> Nat]
<1>1. ASSUME NEW p \in Pairs
      PROVE  Cardinality(InSlots(p)) + Cardinality(InHands(p)) + (IF InVictim(p) THEN 1 ELSE 0) \in Nat
  <2>1. InSlots(p) \in SUBSET (Buckets \X Slots) /\ InHands(p) \in SUBSET Threads
    BY DEF InSlots, InHands
  <2>2. Cardinality(InSlots(p)) \in Nat /\ Cardinality(InHands(p)) \in Nat
    BY <2>1, PlacesFinite, FS_Subset, FS_CardinalityType
  <2>3. QED
    BY <2>2
<1>2. QED
  BY <1>1 DEF Contents

\* A key that is in no place is not stored.
LEMMA AbsentKey ==
    ASSUME AgreeInv, NEW k \in Keys, ~KeyInTable(k), ~KeyInVictim(k), NEW v \in Vals
    PROVE  Contents[<<k, v>>] = 0
<1> DEFINE p == <<k, v>>
<1>1. p \in Pairs /\ p[1] = k
  BY DEF Pairs
<1>2. InSlots(p) = {}
  BY <1>1, SlotPair DEF InSlots, KeyInTable
<1>3. InHands(p) = {}
  BY <1>1 DEF InHands, KeyInTable
<1>4. ~InVictim(p)
  BY DEF InVictim, KeyInVictim
<1>5. Contents[p] = Cardinality(InSlots(p)) + Cardinality(InHands(p))
                       + (IF InVictim(p) THEN 1 ELSE 0)
  BY <1>1 DEF Contents
<1>6. QED
  BY <1>2, <1>3, <1>4, <1>5, FS_EmptySet

\* A pair that is in a slot or in the victim cache is stored.
LEMMA StoredPair ==
    ASSUME AgreeInv, NEW b \in Buckets, NEW s \in Slots, NEW p \in Pairs,
           p \in PairIn(b, s) \cup Cache
    PROVE  Contents[p] > 0
<1>1. InSlots(p) \in SUBSET (Buckets \X Slots) /\ InHands(p) \in SUBSET Threads
  BY DEF InSlots, InHands
<1>2. IsFiniteSet(InSlots(p)) /\ IsFiniteSet(InHands(p))
  BY <1>1, PlacesFinite, FS_Subset
<1>3. Cardinality(InSlots(p)) \in Nat /\ Cardinality(InHands(p)) \in Nat
  BY <1>2, FS_CardinalityType
<1>4. Contents[p] = Cardinality(InSlots(p)) + Cardinality(InHands(p))
                       + (IF InVictim(p) THEN 1 ELSE 0)
  BY DEF Contents
<1>5. CASE p \in PairIn(b, s)
  <2>1. <<b, s>> \in InSlots(p)
    BY <1>5, SlotPair DEF PairIn, InSlots
  <2>2. Cardinality(InSlots(p)) # 0
    BY <1>2, <2>1, FS_EmptySet
  <2>3. QED
    BY <1>3, <1>4, <2>2
<1>6. CASE p \in Cache
  <2>1. InVictim(p)
    BY <1>6 DEF Cache, InVictim
  <2>2. QED
    BY <1>3, <1>4, <2>1
<1>7. QED
  BY <1>5, <1>6

\* What a step does to the number of copies of each pair.
Exchanges(gone, come) ==
    /\ \A p \in Pairs :
          /\ Contents[p] \in Nat /\ Contents'[p] \in Nat
          /\ Contents'[p] = Contents[p] + Bit(p \in come) - Bit(p \in gone)
    /\ \A p \in Pairs : p \in gone => Contents[p] > 0

LEMMA MovesExchange ==
    ASSUME AgreeInv, AgreeInv', TypeOK, NEW t \in Threads, Begin(t) \/ Step(t),
           NEW b \in Buckets, NEW s \in Slots, NEW gone, NEW come, Moves(t, b, s, gone, come)
    PROVE  Exchanges(gone, come)
<1>1. ASSUME NEW p \in Pairs
      PROVE  /\ Contents[p] \in Nat /\ Contents'[p] \in Nat
             /\ Contents'[p] = Contents[p] + Bit(p \in come) - Bit(p \in gone)
  <2>1. /\ Contents[p] \in Nat /\ Contents'[p] \in Nat
        /\ Contents'[p] = Contents[p]
              + Bit(p \in PairIn(b, s)') - Bit(p \in PairIn(b, s))
              + Bit(p \in Hand(t)') - Bit(p \in Hand(t))
              + Bit(p \in Cache') - Bit(p \in Cache)
    BY ContentsStep DEF Moves
  <2>2. Bit(p \in PairIn(b, s)') - Bit(p \in PairIn(b, s))
           + Bit(p \in Hand(t)') - Bit(p \in Hand(t))
           + Bit(p \in Cache') - Bit(p \in Cache)
          = Bit(p \in come) - Bit(p \in gone)
    BY DEF Moves
  <2>3. /\ Bit(p \in PairIn(b, s)) \in Int /\ Bit(p \in PairIn(b, s)') \in Int
        /\ Bit(p \in Hand(t)) \in Int /\ Bit(p \in Hand(t)') \in Int
        /\ Bit(p \in Cache) \in Int /\ Bit(p \in Cache') \in Int
        /\ Bit(p \in come) \in Int /\ Bit(p \in gone) \in Int
    BY DEF Bit
  <2>4. PICK n \in Int, n1 \in Int, c \in Int, g \in Int :
           /\ n = Contents[p] /\ n1 = Contents'[p]
           /\ c = Bit(p \in come) /\ g = Bit(p \in gone)
    BY <2>1, <2>3
  <2>5. PICK i \in Int, i1 \in Int, j \in Int, j1 \in Int, k \in Int, k1 \in Int :
           /\ i = Bit(p \in PairIn(b, s)) /\ i1 = Bit(p \in PairIn(b, s)')
           /\ j = Bit(p \in Hand(t)) /\ j1 = Bit(p \in Hand(t)')
           /\ k = Bit(p \in Cache) /\ k1 = Bit(p \in Cache')
    BY <2>3
  <2>6. n1 = n + i1 - i + j1 - j + k1 - k /\ i1 - i + j1 - j + k1 - k = c - g
    BY <2>1, <2>2, <2>4, <2>5
  <2>7. n1 = n + c - g
    BY <2>6
  <2>8. QED
    BY <2>1, <2>4, <2>7
<1>2. \A p \in Pairs : p \in gone => Contents[p] > 0
  BY StoredPair DEF Moves
<1>3. QED
  BY <1>1, <1>2 DEF Exchanges

\* What an exchange is to a bag.
LEMMA ExchangedBag ==
    ASSUME NEW gone, NEW come, Exchanges(gone, come)
    PROVE  /\ gone = {} /\ come = {} => Contents' = Contents
           /\ \A p \in Pairs : gone = {} /\ come = {p} =>
                 Contents' = [Contents EXCEPT ![p] = @ + 1]
           /\ \A p \in Pairs : gone = {p} /\ come = {} =>
                 Contents' = [Contents EXCEPT ![p] = @ - 1]
           /\ \A p, q \in Pairs : gone = {p} /\ come = {q} =>
                 Contents' = [r \in Pairs |-> Contents[r] - (IF r = p THEN 1 ELSE 0)
                                                + (IF r = q THEN 1 ELSE 0)]
<1>1. Contents = [p \in Pairs |-> Contents[p]] /\ Contents' = [p \in Pairs |-> Contents'[p]]
  BY DEF Contents
<1>2. PICK B, B1 : B = Contents /\ B1 = Contents'
  OBVIOUS
<1>3. B \in [Pairs -> Nat] /\ B1 \in [Pairs -> Nat]
  BY <1>1, <1>2 DEF Exchanges
<1>4. \A r \in Pairs : B1[r] = B[r] + (IF r \in come THEN 1 ELSE 0)
                                  - (IF r \in gone THEN 1 ELSE 0)
  BY <1>2 DEF Exchanges, Bit
<1>5. gone = {} /\ come = {} => B1 = B
  BY <1>3, <1>4
<1>6. \A p \in Pairs : gone = {} /\ come = {p} => B1 = [B EXCEPT ![p] = @ + 1]
  BY <1>3, <1>4
<1>7. \A p \in Pairs : gone = {p} /\ come = {} => B1 = [B EXCEPT ![p] = @ - 1]
  BY <1>3, <1>4
<1>8. \A p, q \in Pairs : gone = {p} /\ come = {q} =>
         B1 = [r \in Pairs |-> B[r] - (IF r = p THEN 1 ELSE 0) + (IF r = q THEN 1 ELSE 0)]
  BY <1>3, <1>4
<1>9. QED
  BY <1>2, <1>5, <1>6, <1>7, <1>8

\* The other threads' calls and replies are not touched.
LEMMA OthersShown ==
    ASSUME TypeOK, NEW t \in Threads, Begin(t) \/ Step(t), NEW u \in Threads \ {t}
    PROVE  AbstractCall(u)' = AbstractCall(u) /\ AbstractReply(u)' = AbstractReply(u)
<1>1. pc'[u] = pc[u] /\ loc'[u] = loc[u]
  BY OthersKept
<1>2. AbstractCall(u)' = AbstractCall(u)
  BY <1>1 DEF AbstractCall
<1>3. TookEffect(u)' <=> TookEffect(u)
  BY <1>1 DEF TookEffect
<1>4. AbstractReply(u)' = AbstractReply(u)
  BY <1>1, <1>3 DEF AbstractReply
<1>5. QED
  BY <1>2, <1>4

\* A reply of the filter is one: it is not the absence of a reply.
LEMMA ReplyShown ==
    ASSUME TypeOK, CourseInv, NEW t \in Threads
    PROVE  /\ pc[t] # "idle" => AbstractCall(t) = CallOf(t) /\ AbstractCall(t) # NoCall
           /\ pc[t] = "ret" => AbstractReply(t) = [found |-> loc[t].out, val |-> loc[t].val]
           /\ pc[t] # "ret" /\ TookEffect(t) =>
                 AbstractReply(t) = [found |-> TRUE, val |-> loc[t].val]
           /\ pc[t] # "ret" /\ ~TookEffect(t) => AbstractReply(t) = NoReply
           /\ AbstractReply(t) = NoReply => pc[t] # "ret" /\ ~TookEffect(t)
<1>1. CallOf(t) \in CallSet /\ loc[t].val \in Vals /\ loc[t].out \in BOOLEAN /\ loc[t].op \in Ops
  BY LocalTypes DEF CallOf, CallSet, LocType
<1>2. pc[t] # "idle" => AbstractCall(t) = CallOf(t)
  BY DEF AbstractCall, CallOf
<1>3. loc[t].got = loc[t].val
  BY DEF CourseInv, Course
<1>4. pc[t] = "ret" => AbstractReply(t) = [found |-> loc[t].out, val |-> loc[t].val]
  BY <1>3 DEF AbstractReply
<1>5. pc[t] # "ret" /\ TookEffect(t) => AbstractReply(t) = [found |-> TRUE, val |-> loc[t].val]
  BY <1>3 DEF AbstractReply
<1>6. pc[t] # "ret" /\ ~TookEffect(t) => AbstractReply(t) = NoReply
  BY DEF AbstractReply
<1>7. \A f \in BOOLEAN : [found |-> f, val |-> loc[t].val] # NoReply
  BY <1>1, NoneAssumption
<1>8. QED
  BY <1>1, <1>2, <1>4, <1>5, <1>6, <1>7, NoneAssumption

\* A step that moves no pair and answers nothing.
LEMMA HiddenStep ==
    ASSUME TypeOK, TypeOK', CourseInv, NEW t \in Threads, Begin(t) \/ Step(t),
           Contents' = Contents,
           SameCall(loc'[t], loc[t]), pc[t] \notin {"idle", "ret"}, pc'[t] # "idle",
           IF pc'[t] = "ret" THEN TookEffect(t) /\ loc'[t].out ELSE TookEffect(t)' <=> TookEffect(t)
    PROVE  UNCHANGED Abstract!vars
<1>1. loc[t].got = loc[t].val
  BY DEF CourseInv, Course
<1>2. AbstractCall(t)' = AbstractCall(t)
  BY DEF AbstractCall, SameCall
<1>3. AbstractReply(t)' = AbstractReply(t)
  <2>1. CASE pc'[t] = "ret"
    <3>1. AbstractReply(t)' = [found |-> TRUE, val |-> loc[t].val]
      <4>1. loc'[t].out = TRUE
        <5>1. loc'[t] \in LocType
          BY DEF TypeOK
        <5>2. loc'[t].out \in BOOLEAN /\ loc'[t].out
          BY <2>1, <5>1 DEF LocType
        <5>3. QED
          BY <5>2
      <4>2. QED
        BY <1>1, <2>1, <4>1 DEF AbstractReply, SameCall
    <3>2. QED
      BY <2>1, <3>1, ReplyShown
  <2>2. CASE pc'[t] # "ret"
    BY <1>1, <2>2 DEF AbstractReply, SameCall
  <2>3. QED
    BY <2>1, <2>2
<1>4. \A u \in Threads : AbstractCall(u)' = AbstractCall(u) /\ AbstractReply(u)' = AbstractReply(u)
  BY <1>2, <1>3, OthersShown
<1>5. QED
  BY <1>4 DEF Abstract!vars

\* A step that answers.
LEMMA EffectStep ==
    ASSUME TypeOK, CourseInv, NEW t \in Threads, Begin(t) \/ Step(t),
           SameCall(loc'[t], loc[t]), pc[t] \notin {"idle", "ret"}, pc'[t] # "idle",
           ~TookEffect(t),
           NEW f \in BOOLEAN, AbstractReply(t)' = [found |-> f, val |-> loc[t].val],
           \/ loc[t].op = "insert" /\ (Abstract!Answer(t, f, loc[t].val) => Abstract!InsertPair(t, CallOf(t)))
           \/ loc[t].op = "erase" /\ (Abstract!Answer(t, f, loc[t].val) => Abstract!EraseKey(t, CallOf(t)))
           \/ loc[t].op = "update" /\ (Abstract!Answer(t, f, loc[t].val) => Abstract!UpdateKey(t, CallOf(t)))
    PROVE  Abstract!TakeEffect(t)
<1>1. AbstractCall(t)' = AbstractCall(t)
  BY DEF AbstractCall, SameCall
<1>2. \A u \in Threads \ {t} :
         AbstractCall(u)' = AbstractCall(u) /\ AbstractReply(u)' = AbstractReply(u)
  BY OthersShown
<1>3. UNCHANGED [u \in Threads |-> AbstractCall(u)]
  BY <1>1, <1>2
<1>4. Abstract!Answer(t, f, loc[t].val)
  BY <1>2 DEF Abstract!Answer, Abstract!Reply
<1>5. AbstractCall(t) = CallOf(t) /\ AbstractCall(t) # NoCall /\ AbstractReply(t) = NoReply
  BY ReplyShown
<1>6. CallOf(t).op = loc[t].op
  BY DEF CallOf
<1>7. QED
  BY <1>3, <1>4, <1>5, <1>6 DEF Abstract!TakeEffect

\* A thread that took no effect and is done with the search has no copy to find.
LEMMA NotPresent ==
    ASSUME TypeOK, AgreeInv, NEW t \in Threads,
           ~KeyInTable(loc[t].key), ~KeyInVictim(loc[t].key)
    PROVE  ~Abstract!Present(loc[t].key)
<1>1. PICK k \in Keys : k = loc[t].key
  BY LocalTypes
<1>2. \A v \in Vals : Contents[<<k, v>>] = 0
  BY <1>1, AbsentKey
<1>3. \A v \in Vals : ~(Contents[<<k, v>>] > 0)
  BY <1>2
<1>4. ~Abstract!Present(k)
  BY <1>3 DEF Abstract!Present
<1>5. QED
  BY <1>1, <1>4

LEMMA EffectAnswer ==
    ASSUME TypeOK, CourseInv, NEW t \in Threads, Effect(t)
    PROVE  /\ SameCall(loc'[t], loc[t]) /\ pc[t] \notin {"idle", "ret"} /\ pc'[t] \notin {"idle", "ret"}
           /\ TookEffect(t)' /\ (TookEffect(t) <=> loc[t].kicks > 0)
           /\ AbstractReply(t)' = [found |-> TRUE, val |-> loc[t].val]
<1>1. Course(t)
  BY DEF CourseInv
<1>2. /\ SameCall(loc'[t], loc[t]) /\ pc[t] \notin {"idle", "ret"} /\ pc'[t] \notin {"idle", "ret"}
      /\ TookEffect(t)' /\ (TookEffect(t) <=> loc[t].kicks > 0)
  BY <1>1, EffectAfter
<1>3. AbstractReply(t)' = [found |-> TRUE, val |-> loc[t].val]
  BY <1>1, <1>2 DEF AbstractReply, SameCall, Course
<1>4. QED
  BY <1>2, <1>3

\* The first pair an insert or update stores is its own; the later ones were
\* stored all along.
LEMMA StoreIsAtomic ==
    ASSUME WritersOnly, TypeOK, TypeOK', AgreeInv, AgreeInv', CourseInv, MissedInv,
           NEW t \in Threads, Begin(t) \/ Step(t), PutKV(t) \/ KickKV(t) \/ VictimUsed(t)
    PROVE  Abstract!TakeEffect(t) \/ UNCHANGED Abstract!vars
<1>1. Course(t) /\ AtSlot(t) /\ AtVictim(t) /\ Missed(t)
  BY DEF CourseInv, MissedInv
<1>2. Effect(t)
  BY DEF Effect, SlotWrite
<1>3. PICK b \in Buckets, s \in Slots : Moves(t, b, s, {}, Brought(t))
  BY <1>1, PutKVMoves, KickKVMoves, VictimUsedMoves
<1>4. PICK come : come = Brought(t) /\ Exchanges({}, come)
  BY <1>3, MovesExchange
<1>5. /\ SameCall(loc'[t], loc[t]) /\ pc[t] \notin {"idle", "ret"} /\ pc'[t] \notin {"idle", "ret"}
      /\ TookEffect(t)' /\ (TookEffect(t) <=> loc[t].kicks > 0)
      /\ AbstractReply(t)' = [found |-> TRUE, val |-> loc[t].val]
  BY <1>2, EffectAnswer
<1>6. CASE loc[t].kicks > 0
  <2>1. come = {}
    BY <1>4, <1>6 DEF Brought
  <2>2. Contents' = Contents
    BY <1>4, <2>1, ExchangedBag
  <2>3. QED
    BY <1>5, <1>6, <2>2, HiddenStep
<1>7. CASE loc[t].kicks = 0
  <2>1. PICK p \in Pairs : p = Own(t)
    BY LocalTypes DEF Own, Pairs
  <2>2. come = {p}
    BY <1>4, <1>7, <2>1 DEF Brought
  <2>3. Contents' = [Contents EXCEPT ![p] = @ + 1]
    BY <1>4, <2>2, ExchangedBag
  <2>4. pc[t] \in InsertPCs /\ loc[t].op \in {"insert", "update"} /\ ~TookEffect(t)
    <3>1. pc[t] \in InsertPCs
      BY DEF PutKV, KickKV, VictimUsed, At, InsertPCs
    <3>2. QED
      BY <1>1, <1>5, <1>7, <3>1 DEF Course
  <2>5. CallOf(t).key = loc[t].key /\ CallOf(t).val = loc[t].val
    BY DEF CallOf
  <2>6. Abstract!Answer(t, TRUE, loc[t].val) => Abstract!InsertPair(t, CallOf(t))
    BY <2>1, <2>3, <2>5 DEF Abstract!InsertPair, Own
  <2>7. loc[t].op = "update" =>
           (Abstract!Answer(t, TRUE, loc[t].val) => Abstract!UpdateKey(t, CallOf(t)))
    <3>1. loc[t].op = "update" => ~Abstract!Present(loc[t].key)
      BY <1>1, <2>4, NotPresent DEF Missed
    <3>2. QED
      BY <2>5, <2>6, <3>1 DEF Abstract!UpdateKey
  <2>8. QED
    BY <1>5, <2>4, <2>6, <2>7, EffectStep
<1>8. QED
  BY <1>6, <1>7, LocalTypes

\* A hit of erase or update.
LEMMA HitIsAtomic ==
    ASSUME WritersOnly, TypeOK, TypeOK', AgreeInv, AgreeInv', CourseInv, MissedInv,
           NEW t \in Threads, Begin(t) \/ Step(t), EraseKV(t) \/ UpdateKV(t) \/ VictimHit(t)
    PROVE  Abstract!TakeEffect(t)
<1>1. Course(t) /\ AtSlot(t)
  BY DEF CourseInv
<1>2. Effect(t)
  BY DEF Effect, SlotWrite
<1>3. PICK b \in Buckets, s \in Slots, v \in Vals :
         Moves(t, b, s, {<<loc[t].key, v>>}, Replacement(t))
  BY <1>1, HitMoves, VictimHitMoves DEF Replaces
<1>4. PICK p \in Pairs, q \in Pairs : p = <<loc[t].key, v>> /\ q = Own(t)
  BY LocalTypes DEF Own, Pairs
<1>5. PICK gone, come : gone = {p} /\ come = Replacement(t) /\ Exchanges(gone, come)
  BY <1>3, <1>4, MovesExchange
<1>6. Contents[p] > 0
  BY <1>5 DEF Exchanges
<1>7. /\ SameCall(loc'[t], loc[t]) /\ pc[t] \notin {"idle", "ret"} /\ pc'[t] \notin {"idle", "ret"}
      /\ ~TookEffect(t) /\ loc[t].op \in {"erase", "update"}
      /\ AbstractReply(t)' = [found |-> TRUE, val |-> loc[t].val]
  <2>1. pc[t] \in PairPCs
    BY DEF EraseKV, UpdateKV, VictimHit, MissVictim, At, PairPCs
  <2>2. loc[t].kicks = 0 /\ loc[t].op \in {"erase", "update"}
    BY <1>1, <2>1, LocalTypes DEF Course, ChainPCs, PairPCs
  <2>3. QED
    BY <1>2, <2>2, EffectAnswer
<1>8. CallOf(t).key = loc[t].key /\ CallOf(t).val = loc[t].val
  BY DEF CallOf
<1>9. CASE loc[t].op = "erase"
  <2>1. come = {}
    BY <1>5, <1>9 DEF Replacement
  <2>2. Contents' = [Contents EXCEPT ![p] = @ - 1]
    BY <1>5, <2>1, ExchangedBag
  <2>3. Abstract!Answer(t, TRUE, loc[t].val) => Abstract!EraseKey(t, CallOf(t))
    BY <1>4, <1>6, <1>8, <2>2 DEF Abstract!EraseKey
  <2>4. QED
    BY <1>7, <1>9, <2>3, EffectStep
<1>10. CASE loc[t].op = "update"
  <2>1. come = {q}
    BY <1>4, <1>5, <1>10 DEF Replacement
  <2>2. Contents' = [r \in Pairs |-> Contents[r] - (IF r = p THEN 1 ELSE 0)
                                       + (IF r = q THEN 1 ELSE 0)]
    BY <1>5, <2>1, ExchangedBag
  <2>3. Abstract!Answer(t, TRUE, loc[t].val) => Abstract!UpdateKey(t, CallOf(t))
    BY <1>4, <1>6, <1>8, <2>2 DEF Abstract!UpdateKey, Own, Pairs
  <2>4. QED
    BY <1>7, <1>10, <2>3, EffectStep
<1>11. QED
  BY <1>7, <1>9, <1>10

\* A refused insert, an erase of a key that is nowhere.
LEMMA NothingIsAtomic ==
    ASSUME WritersOnly, TypeOK, TypeOK', AgreeInv, AgreeInv', CourseInv, MissedInv,
           NEW t \in Threads, Begin(t) \/ Step(t), InsertRefused(t) \/ EraseMiss(t)
    PROVE  Abstract!TakeEffect(t)
<1>1. Course(t) /\ Missed(t)
  BY DEF CourseInv, MissedInv
<1>2. /\ SameCall(loc'[t], loc[t]) /\ ~loc'[t].out /\ pc'[t] = "ret"
      /\ pc[t] \notin {"idle", "ret"} /\ ~TookEffect(t)
  BY <1>1, NothingDone
<1>3. ~Effect(t)
  BY DEF Effect, SlotWrite, InsertRefused, EraseMiss, MissUnlock, PutKV, KickKV, EraseKV, UpdateKV,
     VictimUsed, VictimHit, MissVictim, At
<1>4. Contents' = Contents
  <2>1. PICK b \in Buckets, s \in Slots : Moves(t, b, s, {}, {})
    BY <1>3, StillMoves DEF Effect
  <2>2. QED
    BY <2>1, MovesExchange, ExchangedBag
<1>5. AbstractReply(t)' = [found |-> FALSE, val |-> loc[t].val]
  <2>1. loc'[t].out \in BOOLEAN
    BY DEF TypeOK, LocType
  <2>2. loc'[t].out = FALSE /\ loc'[t].got = loc[t].val
    BY <1>1, <1>2, <2>1 DEF SameCall, Course
  <2>3. QED
    BY <1>2, <2>2 DEF AbstractReply
<1>6. CallOf(t).key = loc[t].key /\ CallOf(t).val = loc[t].val
  BY DEF CallOf
<1>7. CASE InsertRefused(t)
  <2>1. loc[t].op \in {"insert", "update"} /\ pc[t] \in InsertPCs
    BY <1>1, <1>7 DEF InsertRefused, At, Course, InsertPCs
  <2>2. Abstract!Answer(t, FALSE, loc[t].val) => Abstract!InsertPair(t, CallOf(t))
    BY <1>4, <1>6 DEF Abstract!InsertPair
  <2>3. loc[t].op = "update" => ~Abstract!Present(loc[t].key)
    BY <1>1, <1>2, <2>1, NotPresent DEF Missed
  <2>4. loc[t].op = "update" =>
           (Abstract!Answer(t, FALSE, loc[t].val) => Abstract!UpdateKey(t, CallOf(t)))
    BY <1>6, <2>2, <2>3 DEF Abstract!UpdateKey
  <2>5. QED
    BY <1>2, <1>5, <2>1, <2>2, <2>4, EffectStep
<1>8. CASE EraseMiss(t)
  <2>1. loc[t].op = "erase" /\ pc[t] = "miss_unlock" /\ ~loc[t].out
    BY <1>8 DEF EraseMiss, MissUnlock, At
  <2>2. ~Abstract!Present(loc[t].key)
    BY <1>1, <2>1, NotPresent DEF Missed
  <2>3. Abstract!Answer(t, FALSE, loc[t].val) => Abstract!EraseKey(t, CallOf(t))
    BY <1>4, <1>6, <2>2 DEF Abstract!EraseKey
  <2>4. QED
    BY <1>2, <1>5, <2>1, <2>3, EffectStep
<1>9. QED
  BY <1>7, <1>8

\* A call starts or returns.
LEMMA CallShown ==
    ASSUME WritersOnly, TypeOK, TypeOK', AgreeInv, AgreeInv', CourseInv, MissedInv,
           NEW t \in Threads, Begin(t) \/ Return(t)
    PROVE  Abstract!Start(t) \/ Abstract!End(t)
<1>0. Begin(t) \/ Step(t)
  BY DEF Step
<1>1. \A u \in Threads \ {t} :
         AbstractCall(u)' = AbstractCall(u) /\ AbstractReply(u)' = AbstractReply(u)
  BY <1>0, OthersShown
<1>2. Contents' = Contents
  <2>1. pc[t] \in {"idle", "ret"}
    BY DEF Begin, Return, At
  <2>2. ~Effect(t)
    BY <2>1 DEF Effect, SlotWrite, PutKV, KickKV, EraseKV, UpdateKV, VictimUsed, VictimHit,
       MissVictim, At
  <2>3. PICK b \in Buckets, s \in Slots : Moves(t, b, s, {}, {})
    BY <1>0, <2>2, StillMoves DEF Effect
  <2>4. QED
    BY <1>0, <2>3, MovesExchange, ExchangedBag
<1>3. CASE Begin(t)
  <2>1. /\ pc[t] = "idle" /\ pc'[t] \in {"first_lock", "pair_lock1"}
        /\ CallOf(t)' \in Calls[t] /\ loc'[t].kicks = 0
    BY <1>3, CallBegins
  <2>2. AbstractCall(t) = NoCall /\ AbstractCall(t)' \in Calls[t]
    BY <2>1 DEF AbstractCall, CallOf
  <2>3. ~TookEffect(t)'
    BY <2>1 DEF TookEffect
  <2>4. AbstractReply(t)' = NoReply
    BY <2>1, <2>3 DEF AbstractReply
  <2>5. ~TookEffect(t)
    BY <2>1, LocalTypes DEF TookEffect, CourseInv, Course, ChainPCs
  <2>6. AbstractReply(t) = NoReply
    BY <2>1, <2>5 DEF AbstractReply
  <2>7. Abstract!Start(t)
    BY <1>1, <1>2, <2>2, <2>4, <2>6 DEF Abstract!Start
  <2>8. QED
    BY <2>7
<1>4. CASE Return(t)
  <2>1. pc[t] = "ret" /\ pc'[t] = "idle" /\ loc'[t] = idle
    BY <1>4 DEF Return, At, Goto, TypeOK
  <2>2. AbstractReply(t) # NoReply
    BY <2>1, ReplyShown
  <2>3. AbstractCall(t)' = NoCall
    BY <2>1 DEF AbstractCall
  <2>4. ~TookEffect(t)'
    BY <2>1 DEF TookEffect, idle, Fresh
  <2>5. AbstractReply(t)' = NoReply
    BY <2>1, <2>4 DEF AbstractReply
  <2>6. [u \in Threads |-> AbstractCall(u)]'
           = [[u \in Threads |-> AbstractCall(u)] EXCEPT ![t] = NoCall]
    BY <1>1, <2>3
  <2>7. [u \in Threads |-> AbstractReply(u)]'
           = [[u \in Threads |-> AbstractReply(u)] EXCEPT ![t] = NoReply]
    BY <1>1, <2>5
  <2>8. Abstract!End(t)
    BY <1>2, <2>2, <2>6, <2>7 DEF Abstract!End
  <2>9. QED
    BY <2>8
<1>5. QED
  BY <1>3, <1>4

LEMMA StepIsAtomic ==
    ASSUME WritersOnly, TypeOK, TypeOK', AgreeInv, AgreeInv', CourseInv, MissedInv,
           NEW t \in Threads, Begin(t) \/ Step(t)
    PROVE  [Abstract!Next]_Abstract!vars
<1>1. CASE Visible(t)
  BY <1>1, StoreIsAtomic, HitIsAtomic, NothingIsAtomic DEF Visible, SlotWrite, Abstract!Next
<1>2. CASE Begin(t) \/ Return(t)
  BY <1>2, CallShown DEF Abstract!Next
<1>3. CASE ~Visible(t) /\ (InsertStep(t) \/ PairStep(t))
  <2>1. Quiet(t) /\ ~Effect(t)
    BY <1>3, InsertQuiet, PairQuiet DEF Visible, Effect, CourseInv
  <2>2. PICK b \in Buckets, s \in Slots : Moves(t, b, s, {}, {})
    BY <2>1, StillMoves DEF Effect
  <2>3. Contents' = Contents
    BY <2>2, MovesExchange, ExchangedBag
  <2>4. UNCHANGED Abstract!vars
    BY <2>1, <2>3, HiddenStep DEF Quiet
  <2>5. QED
    BY <2>4
<1>4. QED
  BY <1>1, <1>2, <1>3, OnlyWriterSteps DEF Step

\* Threads that insert, erase and update, each its own keys as far as it erases
\* and updates: every call is one atomic step of the bag of stored pairs.  A
\* displaced key is never missing and never there twice, an erase takes out one
\* copy, an update that finds its key replaces it, what is reported absent is.
THEOREM CallsAreAtomic == WritersOnly /\ OwnKeys => (Spec => AtomicCalls)
<1> SUFFICES ASSUME WritersOnly, OwnKeys PROVE Spec => AtomicCalls
  OBVIOUS
<1>1. Init => Abstract!Init
  <2> SUFFICES ASSUME Init PROVE Abstract!Init
    OBVIOUS
  <2>1. \A t \in Threads : pc[t] = "idle" /\ loc[t] = idle
    BY DEF Init
  <2>2. \A t \in Threads : ~TookEffect(t)
    BY <2>1 DEF TookEffect, idle, Fresh
  <2>3. \A t \in Threads : AbstractCall(t) = NoCall /\ AbstractReply(t) = NoReply
    BY <2>1, <2>2 DEF AbstractCall, AbstractReply
  <2>4. QED
    BY <2>3, ContentsType DEF Abstract!Init, Pairs
<1>2. /\ TypeOK /\ TypeOK' /\ AgreeInv /\ AgreeInv' /\ CourseInv /\ MissedInv /\ [Next]_vars
      => [Abstract!Next]_Abstract!vars
  <2> SUFFICES ASSUME TypeOK, TypeOK', AgreeInv, AgreeInv', CourseInv, MissedInv, [Next]_vars
               PROVE  [Abstract!Next]_Abstract!vars
    OBVIOUS
  <2>1. CASE UNCHANGED vars
    <3>1. Contents' = Contents
      BY <2>1 DEF vars, Contents, InSlots, InHands, InVictim, InSlot, HalfMoved, CarriesDisplaced
    <3>2. \A t \in Threads : AbstractCall(t)' = AbstractCall(t) /\ AbstractReply(t)' = AbstractReply(t)
      BY <2>1 DEF vars, AbstractCall, AbstractReply, TookEffect
    <3>3. QED
      BY <3>1, <3>2 DEF Abstract!vars
  <2>2. QED
    BY <2>1, StepIsAtomic DEF Next
<1>3. NoLookups
  BY WritersDoNotLookUp
<1>4. QED
  BY <1>1, <1>2, <1>3, TypeCorrect, AgreeCorrect, CourseCorrect, MissedCorrect, PTL
     DEF Spec, AtomicCalls, Abstract!Spec

-----------------------------------------------------------------------------
(* One thread that also looks up. The adaptation of find moves pairs       *)
(* between the slots of a bucket that it may not hold, but nobody else is  *)
(* there: what it keeps, and what a lookup knows when it answers.          *)

OneThread == Threads # {} /\ \A t, u \in Threads : t = u

\* Keys that are looked up have two different buckets.
TwoBuckets == \A t \in Threads : \A c \in Calls[t] :
    c.op = "find" => Index1[c.key] # Index2[c.key]

TakingPCs == {"rf_slot", "rf_spare"}
MovingPCs == {"rf_tag_new", "rf_tag_slot", "rf_kv_new", "rf_kv_slot"}
ScanPCs   == {"find_even1", "find_even2", "find_read1", "find_key1", "find_read2", "find_key2",
              "find_val", "find_again", "find_victim", "find_vkey"}
AnswerPCs == AdaptPCs \cup {"adapt_unlock", "ret"}

\* The pair on its way to the next slot of its bucket, and the one it makes room
\* for, if there is one.
Moving(t) ==
    LET b == FpBucket(t)
        s == FpSlot(t)
        n == NewSlot(t)
        r == loc[t]
    IN  /\ Home(r.carried[1], b)
        /\ ~r.empty => Home(r.spare[1], b)
        /\ pc[t] # "rf_tag_new" => tags[b][n] = Tag[r.carried[1]][n]
        /\ pc[t] \in {"rf_kv_new", "rf_kv_slot"} =>
              tags[b][s] = IF r.empty THEN 0 ELSE Tag[r.spare[1]][s]
        /\ pc[t] # "rf_kv_slot" => /\ occupied[b][s] /\ kv[b][s] = r.carried
                                   /\ occupied[b][n] <=> ~r.empty
                                   /\ ~r.empty => kv[b][n] = r.spare
        /\ pc[t] = "rf_kv_slot" => occupied[b][n] /\ kv[b][n] = r.carried

\* What has been read for that so far is still so.
Taking(t) ==
    LET b == FpBucket(t)
        r == loc[t]
    IN  /\ r.empty <=> tags[b][NewSlot(t)] = 0
        /\ pc[t] = "rf_spare" => ~r.empty /\ r.carried = kv[b][FpSlot(t)]

\* Every slot agrees with its tag, but for the two that are being exchanged.
LookSlots(t) ==
    /\ \A b \in Buckets, s \in Slots :
          \/ SlotOK(b, s)
          \/ pc[t] \in MovingPCs /\ b = FpBucket(t) /\ s \in {FpSlot(t), NewSlot(t)}
    /\ pc[t] \in TakingPCs => Taking(t)
    /\ pc[t] \in MovingPCs => Moving(t)

\* The false positives collected are different slots with a pair in them.
Positives(t) ==
    LET fps == loc[t].fps
    IN  /\ IsInjective(fps)
        /\ \A i \in DOMAIN fps : occupied[fps[i][1]][fps[i][2]]

\* Bucket b has the key in no slot of S.
Without(key, b, S) == \A s \in S : occupied[b][s] => kv[b][s][1] # key

\* Bucket b is being compared: what has been passed, and what is left.
Comparing(t, b) ==
    /\ loc[t].todo \subseteq Matches(b, loc[t].key)
    /\ \A i \in DOMAIN loc[t].fps : loc[t].fps[i][1] = b => loc[t].fps[i][2] \notin loc[t].todo
    /\ Without(loc[t].key, b, Slots \ loc[t].todo)

\* What a scan has seen.
Scan(t) ==
    LET key == loc[t].key
        fps == loc[t].fps
    IN  /\ pc[t] \in ScanPCs => ~loc[t].out
        /\ pc[t] = "find_read1" => fps = <<>>
        /\ pc[t] \in {"find_key1", "find_read2"} => \A i \in DOMAIN fps : fps[i][1] = I1(t)
        /\ pc[t] = "find_key1" => Comparing(t, I1(t))
        /\ pc[t] = "find_key2" => Comparing(t, I2(t))
        /\ pc[t] \in {"find_read2", "find_key2", "find_again"} => Without(key, I1(t), Slots)
        /\ pc[t] = "find_again" => Without(key, I2(t), Slots)
        /\ pc[t] = "find_val" => /\ occupied[loc[t].cur][loc[t].slot]
                                 /\ kv[loc[t].cur][loc[t].slot][1] = key

InTable(p) == \E b \in Buckets, s \in Slots : p \in InSlot(b, s)

\* What it answers is right, and stays right while it adapts.
Answer(t) ==
    LET key == loc[t].key
        got == <<key, loc[t].got>>
    IN  /\ pc[t] \in AnswerPCs \cup {"find_victim", "find_vkey"} /\ ~loc[t].out =>
              \/ \A v \in Vals : ~InTable(<<key, v>>)
              \/ WordIsZero(I1(t)) /\ loc[t].fps = <<>>
        /\ pc[t] \in AnswerPCs /\ ~loc[t].out => ~KeyInVictim(key)
        /\ pc[t] = "find_vkey" => victim.used
        /\ pc[t] = "find_vval" => loc[t].out /\ KeyInVictim(key)
        /\ pc[t] \in AnswerPCs /\ loc[t].out => InTable(got) \/ InVictim(got)

LookInv(t) ==
    /\ pc[t] \in FindPCs \cup {"ret"}
    /\ I1(t) # I2(t)
    /\ LookSlots(t) /\ Positives(t) /\ Scan(t) /\ Answer(t)

SoleInv == \A t \in Threads : IF loc[t].op = "find" THEN LookInv(t) ELSE AgreeInv /\ CourseInv

-----------------------------------------------------------------------------
(* What the slots stand for.                                               *)

View(t, b, s) ==
    IF HalfMoved(t, b, s) THEN {p \in {loc[t].spare} : ~loc[t].empty} ELSE PairIn(b, s)

LEMMA OneView ==
    ASSUME OneThread, NEW t \in Threads, NEW b \in Buckets, NEW s \in Slots
    PROVE  InSlot(b, s) = View(t, b, s) /\ InSlot(b, s)' = View(t, b, s)'
<1>1. Threads = {t}
  BY DEF OneThread
<1>2. InSlot(b, s) = View(t, b, s)
  BY <1>1 DEF InSlot, View, PairIn
<1>3. InSlot(b, s)' = View(t, b, s)'
  BY <1>1 DEF InSlot, View, PairIn
<1>4. QED
  BY <1>2, <1>3

\* Two slots exchange what they stand for, the others keep it.
Exchanged(x, y) ==
    /\ InSlot(x[1], x[2])' = InSlot(y[1], y[2]) /\ InSlot(y[1], y[2])' = InSlot(x[1], x[2])
    /\ \A b \in Buckets, s \in Slots :
          <<b, s>> # x /\ <<b, s>> # y => InSlot(b, s)' = InSlot(b, s)

LEMMA ExchangeKeeps ==
    ASSUME NEW x \in Buckets \X Slots, NEW y \in Buckets \X Slots, Exchanged(x, y), NEW p
    PROVE  InTable(p)' <=> InTable(p)
<1>1. InTable(p) => InTable(p)'
  BY DEF InTable, Exchanged
<1>2. InTable(p)' => InTable(p)
  BY DEF InTable, Exchanged
<1>3. QED
  BY <1>1, <1>2

\* A step that writes no slot, away from an adaptation's last write.
LEMMA StillSlots ==
    ASSUME TypeOK, OneThread, NEW t \in Threads, UNCHANGED <<kv, occupied>>,
           pc[t] # "rf_kv_slot", pc'[t] # "rf_kv_slot"
    PROVE  \E x \in Buckets \X Slots : Exchanged(x, x)
<1>1. \A b \in Buckets, s \in Slots : InSlot(b, s)' = InSlot(b, s)
  <2> SUFFICES ASSUME NEW b \in Buckets, NEW s \in Slots PROVE InSlot(b, s)' = InSlot(b, s)
    OBVIOUS
  <2>1. View(t, b, s)' = View(t, b, s)
    BY DEF View, HalfMoved, PairIn
  <2>2. QED
    BY <2>1, OneView
<1>2. PICK x \in Buckets \X Slots : x = <<loc[t].cur, loc[t].slot>>
  BY LocalTypes
<1>3. QED
  BY <1>1, <1>2 DEF Exchanged

-----------------------------------------------------------------------------
(* The scan of the two buckets.                                            *)

\* A lookup begins with every slot in order.
AllSlotsOK == \A b \in Buckets, s \in Slots : SlotOK(b, s)

\* What a step of a lookup leaves alone.
SameQuestion(t) ==
    /\ loc'[t].op = loc[t].op /\ loc'[t].key = loc[t].key
    /\ table' = table /\ victim' = victim /\ num_items' = num_items
    /\ pc[t] \notin TakingPCs \cup MovingPCs /\ pc'[t] \notin TakingPCs \cup MovingPCs

LEMMA SlotsStay ==
    ASSUME TypeOK, NEW t \in Threads, LookInv(t), SameQuestion(t), pc'[t] \in FindPCs \cup {"ret"}
    PROVE  /\ pc'[t] \in FindPCs \cup {"ret"} /\ I1(t)' = I1(t) /\ I2(t)' = I2(t)
           /\ I1(t)' # I2(t)' /\ LookSlots(t)' /\ AllSlotsOK
<1>1. I1(t)' = I1(t) /\ I2(t)' = I2(t)
  BY DEF I1, I2, SameQuestion
<1>2. AllSlotsOK
  BY DEF LookInv, LookSlots, SameQuestion, AllSlotsOK
<1>3. LookSlots(t)'
  BY <1>2 DEF LookSlots, SameQuestion, AllSlotsOK, SlotOK, Home, table
<1>4. QED
  BY <1>1, <1>2, <1>3 DEF LookInv

\* A slot that holds the key has the key's tag.
LEMMA UnmatchedSlots ==
    ASSUME AllSlotsOK, NEW b \in Buckets, NEW key \in Keys
    PROVE  /\ Matches(b, key) \in SUBSET Slots
           /\ Without(key, b, Slots \ Matches(b, key))
           /\ \A s \in Matches(b, key) : occupied[b][s]
BY HashAssumption DEF AllSlotsOK, SlotOK, Matches, Without

\* A key in neither of its buckets is in no slot.
LEMMA NotInTable ==
    ASSUME TypeOK, OneThread, NEW t \in Threads, AllSlotsOK, pc[t] # "rf_kv_slot",
           Without(loc[t].key, I1(t), Slots), Without(loc[t].key, I2(t), Slots), NEW v \in Vals
    PROVE  ~InTable(<<loc[t].key, v>>)
<1> SUFFICES ASSUME NEW b \in Buckets, NEW s \in Slots, <<loc[t].key, v>> \in InSlot(b, s)
             PROVE  FALSE
  BY DEF InTable
<1>1. <<loc[t].key, v>> \in PairIn(b, s)
  BY OneView DEF View, HalfMoved
<1>2. occupied[b][s] /\ kv[b][s][1] = loc[t].key
  BY <1>1 DEF PairIn
<1>3. b \in {I1(t), I2(t)}
  BY <1>2 DEF AllSlotsOK, SlotOK, Home, I1, I2
<1>4. QED
  BY <1>2, <1>3 DEF Without

LEMMA AppendOne ==
    ASSUME NEW S, NEW f \in Seq(S), NEW e \in S
    PROVE  /\ Len(f) + 1 \notin DOMAIN f
           /\ DOMAIN Append(f, e) = DOMAIN f \cup {Len(f) + 1}
           /\ \A i \in DOMAIN f : Append(f, e)[i] = f[i]
           /\ Append(f, e)[Len(f) + 1] = e
<1>1. Len(f) \in Nat /\ DOMAIN f = 1 .. Len(f)
  OBVIOUS
<1>2. Len(Append(f, e)) = Len(f) + 1 /\ DOMAIN Append(f, e) = 1 .. Len(f) + 1
  OBVIOUS
<1>3. \A i \in DOMAIN f : Append(f, e)[i] = f[i]
  OBVIOUS
<1>4. Append(f, e)[Len(f) + 1] = e
  OBVIOUS
<1>5. QED
  BY <1>1, <1>2, <1>3, <1>4

LEMMA TailOne ==
    ASSUME NEW S, NEW f \in Seq(S), f # <<>>
    PROVE  /\ 1 \in DOMAIN f /\ Head(f) = f[1]
           /\ \A i \in DOMAIN Tail(f) : i + 1 \in DOMAIN f /\ i + 1 # 1 /\ i \in Nat
                                        /\ Tail(f)[i] = f[i + 1]
<1>1. Len(f) \in Nat /\ DOMAIN f = 1 .. Len(f) /\ Len(f) # 0
  OBVIOUS
<1>2. DOMAIN Tail(f) = 1 .. Len(f) - 1
  BY <1>1
<1>3. \A i \in 1 .. Len(f) - 1 : Tail(f)[i] = f[i + 1]
  BY <1>1
<1>4. QED
  BY <1>1, <1>2, <1>3

\* What a step of find writes of its locals.
LEMMA LookFields ==
    ASSUME NEW r \in LocType
    PROVE  /\ \A x, y : LET q == [r EXCEPT !.c2 = x, !.fps = y]
                        IN  q.op = r.op /\ q.key = r.key /\ q.fps = y /\ q.out = r.out
           /\ \A x, y : LET q == [r EXCEPT !.todo = x, !.out = y]
                        IN  q.op = r.op /\ q.key = r.key /\ q.todo = x /\ q.fps = r.fps /\ q.out = y
           /\ \A x, y, z : LET q == [r EXCEPT !.cur = x, !.slot = y, !.todo = z]
                           IN  q.op = r.op /\ q.key = r.key /\ q.fps = r.fps /\ q.out = r.out
                               /\ q.cur = x /\ q.slot = y
           /\ \A x, y : LET q == [r EXCEPT !.todo = x, !.fps = y]
                        IN  q.op = r.op /\ q.key = r.key /\ q.todo = x /\ q.fps = y /\ q.out = r.out
           /\ \A x, y : LET q == [r EXCEPT !.got = x, !.out = y]
                        IN  q.op = r.op /\ q.key = r.key /\ q.got = x /\ q.fps = r.fps /\ q.out = y
           /\ \A y : LET q == [r EXCEPT !.out = y]
                     IN  q.op = r.op /\ q.key = r.key /\ q.fps = r.fps /\ q.out = y
           /\ \A x : LET q == [r EXCEPT !.got = x]
                     IN  q.op = r.op /\ q.key = r.key /\ q.got = x /\ q.fps = r.fps /\ q.out = r.out
BY DEF LocType

LEMMA FindEvenLook ==
    ASSUME TypeOK, NEW t \in Threads, loc[t].op = "find", LookInv(t), FindEven1(t) \/ FindEven2(t)
    PROVE  SameQuestion(t) /\ LookInv(t)'
<1> USE DEF SameQuestion, TakingPCs, MovingPCs, FindPCs, ScanPCs, AnswerPCs, AdaptPCs, At, Goto, TypeOK
<1>1. CASE FindEven1(t)
  <2>1. SameQuestion(t) /\ pc[t] = "find_even1" /\ pc'[t] = "find_even2" /\ loc' = loc
    BY <1>1 DEF FindEven1
  <2>2. Positives(t)' /\ Scan(t)' /\ Answer(t)'
    BY <2>1 DEF LookInv, Positives, Scan, Answer, table
  <2>3. QED
    BY <2>1, <2>2, SlotsStay DEF LookInv
<1>2. CASE FindEven2(t)
  <2>1. /\ pc[t] = "find_even2" /\ pc'[t] = "find_read1" /\ UNCHANGED <<table, victim, num_items>>
        /\ loc' = [loc EXCEPT ![t].c2 = counter[I2(t)], ![t].fps = <<>>]
    BY <1>2 DEF FindEven2
  <2>2. loc'[t].op = loc[t].op /\ loc'[t].key = loc[t].key /\ loc'[t].fps = <<>> /\ loc'[t].out = loc[t].out
    BY <2>1, LocalTypes, LookFields
  <2>3. Positives(t)' /\ Scan(t)' /\ Answer(t)'
    BY <2>1, <2>2 DEF LookInv, Positives, Scan, Answer, IsInjective
  <2>4. QED
    BY <2>1, <2>2, <2>3, SlotsStay DEF LookInv
<1>3. QED
  BY <1>1, <1>2

LEMMA FindBreakLook ==
    ASSUME TypeOK, NEW t \in Threads, loc[t].op = "find", LookInv(t), FindBreak(t)
    PROVE  SameQuestion(t) /\ LookInv(t)'
<1>1. /\ pc[t] = "find_read1" /\ pc'[t] = "find_victim" /\ loc' = loc /\ WordIsZero(I1(t))
      /\ UNCHANGED <<table, victim, num_items>>
  BY DEF FindBreak, At, Goto, TypeOK
<1>2. SameQuestion(t) /\ pc'[t] \in FindPCs
  BY <1>1 DEF SameQuestion, TakingPCs, MovingPCs, FindPCs
<1>3. I1(t)' = I1(t) /\ WordIsZero(I1(t))'
  BY <1>1 DEF I1, WordIsZero, FreeSlots, table
<1>4. Positives(t)' /\ Scan(t)' /\ Answer(t)'
  BY <1>1, <1>3 DEF LookInv, Positives, Scan, Answer, ScanPCs, AnswerPCs, AdaptPCs, table
<1>5. QED
  BY <1>2, <1>4, SlotsStay DEF LookInv

\* What reading a word leaves a lookup with.
LEMMA WordRead ==
    ASSUME TypeOK, NEW t \in Threads, loc[t].op = "find", NEW b \in Buckets, NEW compare, NEW leave,
           ReadWord(t, b, compare, leave)
    PROVE  /\ UNCHANGED <<table, victim, num_items>>
           /\ loc'[t].op = "find" /\ loc'[t].key = loc[t].key /\ loc'[t].fps = loc[t].fps
           /\ loc'[t].out = FALSE /\ loc'[t].todo = Matches(b, loc[t].key)
           /\ pc'[t] = IF Matches(b, loc[t].key) = {} THEN leave ELSE compare
<1>1. loc' = [loc EXCEPT ![t].todo = Matches(b, loc[t].key),
                         ![t].out = loc[t].op = "findinfilter" /\ Matches(b, loc[t].key) # {}]
  BY DEF ReadWord
<1> DEFINE m == Matches(b, loc[t].key)
           o == loc[t].op = "findinfilter" /\ m # {}
<1>2. loc' = [loc EXCEPT ![t] = [loc[t] EXCEPT !.todo = m, !.out = o]]
  BY <1>1
<1>3. o = FALSE
  OBVIOUS
<1> HIDE DEF m, o
<1>4. loc'[t].op = loc[t].op /\ loc'[t].key = loc[t].key /\ loc'[t].todo = m
      /\ loc'[t].fps = loc[t].fps /\ loc'[t].out = o
  BY <1>2, LocalTypes, LookFields DEF TypeOK
<1>5. QED
  BY <1>3, <1>4 DEF ReadWord, Goto, TypeOK, m

LEMMA FindRead1Look ==
    ASSUME TypeOK, NEW t \in Threads, loc[t].op = "find", LookInv(t), FindRead1(t)
    PROVE  SameQuestion(t) /\ LookInv(t)'
<1> DEFINE key == loc[t].key
           b   == I1(t)
           m   == Matches(b, key)
<1>1. b \in Buckets /\ key \in Keys
  BY LocalTypes
<1>2. /\ UNCHANGED <<table, victim, num_items>>
      /\ loc'[t].op = "find" /\ loc'[t].key = key /\ loc'[t].fps = loc[t].fps
      /\ loc'[t].out = FALSE /\ loc'[t].todo = m
      /\ pc[t] = "find_read1" /\ pc'[t] = IF m = {} THEN "find_read2" ELSE "find_key1"
  BY <1>1, WordRead DEF FindRead1, At
<1>3. SameQuestion(t) /\ pc'[t] \in FindPCs
  BY <1>2 DEF SameQuestion, TakingPCs, MovingPCs, FindPCs
<1>4. AllSlotsOK /\ b' = b /\ key' = key
  BY <1>2, <1>3, SlotsStay
<1>5. Without(key, b, Slots \ m) /\ m' = m
  BY <1>1, <1>2, <1>4, UnmatchedSlots DEF Matches, table
<1>6. Positives(t)'
  BY <1>2 DEF LookInv, Positives, table
<1>7. loc'[t].fps = <<>>
  BY <1>2 DEF LookInv, Scan
<1>8. Without(key, b, Slots \ m)'
  BY <1>2, <1>4, <1>5 DEF Without, table
<1>9. Scan(t)'
  <2>1. CASE m = {}
    <3>1. Without(key, b, Slots)'
      BY <1>5, <1>8, <2>1
    <3>2. QED
      BY <1>2, <1>7, <2>1, <3>1 DEF Scan
  <2>2. CASE m # {}
    <3>1. Comparing(t, b)'
      BY <1>2, <1>4, <1>5, <1>7, <1>8 DEF Comparing
    <3>2. QED
      BY <1>2, <1>7, <2>2, <3>1 DEF Scan
  <2>3. QED
    BY <2>1, <2>2
<1>10. Answer(t)'
  BY <1>2 DEF Answer, AnswerPCs, AdaptPCs
<1>11. QED
  BY <1>3, <1>6, <1>9, <1>10, SlotsStay DEF LookInv

LEMMA FindRead2Look ==
    ASSUME TypeOK, NEW t \in Threads, loc[t].op = "find", LookInv(t), FindRead2(t)
    PROVE  SameQuestion(t) /\ LookInv(t)'
<1> DEFINE key == loc[t].key
           b   == I2(t)
           m   == Matches(b, key)
<1>1. b \in Buckets /\ key \in Keys
  BY LocalTypes
<1>2. /\ UNCHANGED <<table, victim, num_items>>
      /\ loc'[t].op = "find" /\ loc'[t].key = key /\ loc'[t].fps = loc[t].fps
      /\ loc'[t].out = FALSE /\ loc'[t].todo = m
      /\ pc[t] = "find_read2" /\ pc'[t] = IF m = {} THEN "find_again" ELSE "find_key2"
  BY <1>1, WordRead DEF FindRead2, At
<1>3. SameQuestion(t) /\ pc'[t] \in FindPCs
  BY <1>2 DEF SameQuestion, TakingPCs, MovingPCs, FindPCs
<1>4. AllSlotsOK /\ b' = b /\ key' = key /\ I1(t)' = I1(t) /\ I1(t) # b
  BY <1>2, <1>3, SlotsStay DEF LookInv
<1>5. Without(key, b, Slots \ m) /\ m' = m
  BY <1>1, <1>2, <1>4, UnmatchedSlots DEF Matches, table
<1>6. Positives(t)'
  BY <1>2 DEF LookInv, Positives, table
<1>7. /\ \A i \in DOMAIN loc[t].fps : loc[t].fps[i][1] = I1(t)
      /\ Without(key, I1(t), Slots)
  BY <1>2 DEF LookInv, Scan
<1>8. Without(key, b, Slots \ m)' /\ Without(key, I1(t), Slots)'
  BY <1>2, <1>4, <1>5, <1>7 DEF Without, table
<1>9. Scan(t)'
  <2>1. CASE m = {}
    <3>1. Without(key, b, Slots)'
      BY <1>5, <1>8, <2>1
    <3>2. QED
      BY <1>2, <1>8, <2>1, <3>1 DEF Scan
  <2>2. CASE m # {}
    <3>1. Comparing(t, b)'
      BY <1>2, <1>4, <1>5, <1>7, <1>8 DEF Comparing
    <3>2. QED
      BY <1>2, <1>8, <2>2, <3>1 DEF Scan
  <2>3. QED
    BY <2>1, <2>2
<1>10. Answer(t)'
  BY <1>2 DEF Answer, AnswerPCs, AdaptPCs
<1>11. QED
  BY <1>3, <1>6, <1>9, <1>10, SlotsStay DEF LookInv

\* What comparing the stored key of one matching slot leaves a lookup with.
KeyHit(t, b, s) ==
    /\ occupied[b][s] /\ kv[b][s][1] = loc[t].key
    /\ pc'[t] = "find_val" /\ loc'[t].cur = b /\ loc'[t].slot = s
    /\ loc'[t].fps = loc[t].fps

KeyMiss(t, b, s, leave) ==
    /\ occupied[b][s] /\ kv[b][s][1] # loc[t].key
    /\ pc'[t] = IF loc[t].todo = {s} THEN leave ELSE pc[t]
    /\ loc'[t].todo = loc[t].todo \ {s} /\ loc'[t].fps = Append(loc[t].fps, <<b, s>>)

LEMMA KeyCompared ==
    ASSUME TypeOK, NEW t \in Threads, NEW b \in Buckets, NEW leave, CompareKey(t, b, leave),
           pc[t] \in KeyPCs, AllSlotsOK, Comparing(t, b)
    PROVE  /\ UNCHANGED <<table, victim, num_items>>
           /\ loc'[t].op = loc[t].op /\ loc'[t].key = loc[t].key /\ loc'[t].out = loc[t].out
           /\ \E s \in loc[t].todo : KeyHit(t, b, s) \/ KeyMiss(t, b, s, leave)
<1> DEFINE f == Append(loc[t].fps, <<b, FirstOf(loc[t].todo)>>)
           m == loc[t].todo \ {FirstOf(loc[t].todo)}
<1>1. loc[t].todo \in SUBSET Slots /\ loc[t].todo # {} /\ loc[t].key \in Keys
  BY LocalTypes DEF TypeOK
<1>2. PICK s \in Slots : s = FirstOf(loc[t].todo) /\ s \in loc[t].todo
  BY <1>1, FirstOfIn
<1>3. occupied[b][s]
  BY <1>1, <1>2, UnmatchedSlots DEF Comparing
<1>4. UNCHANGED <<table, victim, num_items>>
  BY DEF CompareKey
<1>5. CASE kv[b][s][1] = loc[t].key
  <2>1. /\ loc' = [loc EXCEPT ![t] = [loc[t] EXCEPT !.cur = b, !.slot = s, !.todo = {}]]
        /\ pc'[t] = "find_val"
    BY <1>2, <1>5 DEF CompareKey, Goto, TypeOK
  <2>2. /\ loc'[t].op = loc[t].op /\ loc'[t].key = loc[t].key /\ loc'[t].out = loc[t].out
        /\ loc'[t].fps = loc[t].fps /\ loc'[t].cur = b /\ loc'[t].slot = s
    BY <2>1, LocalTypes, LookFields DEF TypeOK
  <2>3. QED
    BY <1>2, <1>3, <1>4, <1>5, <2>1, <2>2 DEF KeyHit
<1>6. CASE kv[b][s][1] # loc[t].key
  <2>1. /\ loc' = [loc EXCEPT ![t] = [loc[t] EXCEPT !.todo = m, !.fps = f]]
        /\ pc'[t] = IF loc[t].todo = {s} THEN leave ELSE pc[t]
    BY <1>2, <1>6 DEF CompareKey, Goto, TypeOK
  <2> HIDE DEF m, f
  <2>2. /\ loc'[t].op = loc[t].op /\ loc'[t].key = loc[t].key /\ loc'[t].out = loc[t].out
        /\ loc'[t].todo = m /\ loc'[t].fps = f
    BY <2>1, LocalTypes, LookFields DEF TypeOK
  <2>3. QED
    BY <1>2, <1>3, <1>4, <1>6, <2>1, <2>2 DEF KeyMiss, m, f
<1>7. QED
  BY <1>5, <1>6

\* A false positive is a slot that was not collected before.
LEMMA MissCollected ==
    ASSUME TypeOK, NEW t \in Threads, NEW b \in Buckets, NEW leave, NEW s \in loc[t].todo,
           KeyMiss(t, b, s, leave), loc'[t].key = loc[t].key, table' = table,
           Comparing(t, b), Positives(t)
    PROVE  /\ Comparing(t, b)' /\ Positives(t)'
           /\ \A c : (\A i \in DOMAIN loc[t].fps : loc[t].fps[i][1] = c) /\ c = b
                => \A i \in DOMAIN loc'[t].fps : loc'[t].fps[i][1] = c
<1> DEFINE f == loc[t].fps
           g == Append(f, <<b, s>>)
           n == Len(f) + 1
<1>1. f \in Seq(Buckets \X Slots) /\ s \in Slots /\ loc[t].todo \in SUBSET Slots
  BY LocalTypes
<1>2. /\ n \notin DOMAIN f /\ DOMAIN g = DOMAIN f \cup {n}
      /\ \A i \in DOMAIN f : g[i] = f[i]
      /\ g[n] = <<b, s>>
  BY <1>1, AppendOne
<1>3. loc'[t].fps = g /\ loc'[t].todo = loc[t].todo \ {s}
  BY DEF KeyMiss
<1>4. \A i \in DOMAIN f : f[i] \in Buckets \X Slots
  BY <1>1
<1>5. \A i \in DOMAIN f : f[i] # <<b, s>>
  BY DEF Comparing
<1>6. IsInjective(f) /\ \A i \in DOMAIN f : occupied[f[i][1]][f[i][2]]
  BY DEF Positives
<1> HIDE DEF f, g, n
<1>7. IsInjective(g)
  BY <1>2, <1>5, <1>6 DEF IsInjective
<1>8. \A i \in DOMAIN g : occupied'[g[i][1]][g[i][2]]
  BY <1>2, <1>6 DEF KeyMiss, table
<1>9. Positives(t)'
  BY <1>3, <1>7, <1>8 DEF Positives
<1>10. Comparing(t, b)'
  <2>1. (loc[t].todo \subseteq Matches(b, loc[t].key))'
    BY <1>3 DEF Comparing, Matches, table
  <2>2. \A i \in DOMAIN g : g[i][1] = b => g[i][2] \notin loc'[t].todo
    BY <1>2, <1>3 DEF Comparing, f
  <2>3. Without(loc[t].key, b, Slots \ (loc[t].todo \ {s}))
    BY <1>1 DEF Comparing, Without, KeyMiss
  <2>4. Without(loc[t].key, b, Slots \ loc[t].todo)'
    BY <1>3, <2>3 DEF Without, table
  <2>5. QED
    BY <1>3, <2>1, <2>2, <2>4 DEF Comparing
<1>11. \A c : (\A i \in DOMAIN f : f[i][1] = c) /\ c = b => \A i \in DOMAIN g : g[i][1] = c
  BY <1>2
<1>12. QED
  BY <1>3, <1>9, <1>10, <1>11 DEF f

LEMMA FindKey1Look ==
    ASSUME TypeOK, NEW t \in Threads, loc[t].op = "find", LookInv(t), FindKey1(t)
    PROVE  SameQuestion(t) /\ LookInv(t)'
<1> DEFINE key == loc[t].key
<1>0. PICK b \in Buckets : b = I1(t)
  BY LocalTypes
<1>1. pc[t] = "find_key1" /\ pc[t] \in KeyPCs /\ CompareKey(t, b, "find_read2")
  BY <1>0 DEF FindKey1, At, KeyPCs
<1>2. /\ Positives(t) /\ ~loc[t].out /\ Comparing(t, b)
      /\ \A i \in DOMAIN loc[t].fps : loc[t].fps[i][1] = b
  BY <1>0, <1>1 DEF LookInv, Scan, ScanPCs
<1>3. AllSlotsOK
  BY <1>1 DEF LookInv, LookSlots, AllSlotsOK, TakingPCs, MovingPCs
<1>4. /\ UNCHANGED <<table, victim, num_items>>
      /\ loc'[t].op = loc[t].op /\ loc'[t].key = key /\ loc'[t].out = loc[t].out
  BY <1>1, <1>2, <1>3, KeyCompared
<1>5. PICK s \in loc[t].todo : KeyHit(t, b, s) \/ KeyMiss(t, b, s, "find_read2")
  BY <1>1, <1>2, <1>3, KeyCompared
<1>6. pc'[t] \in {"find_val", "find_read2", "find_key1"}
  BY <1>1, <1>5 DEF KeyHit, KeyMiss
<1>7. SameQuestion(t) /\ pc'[t] \in FindPCs
  BY <1>1, <1>4, <1>6 DEF SameQuestion, TakingPCs, MovingPCs, FindPCs
<1>8. I1(t)' = b
  BY <1>0, <1>7, SlotsStay
<1>9. Positives(t)' /\ Scan(t)'
  <2>1. CASE KeyHit(t, b, s)
    <3>1. Positives(t)'
      BY <1>2, <1>4, <2>1 DEF Positives, KeyHit, table
    <3>2. Scan(t)'
      BY <1>2, <1>4, <2>1 DEF Scan, KeyHit, table
    <3>3. QED
      BY <3>1, <3>2
  <2>2. CASE KeyMiss(t, b, s, "find_read2")
    <3>1. /\ Comparing(t, b)' /\ Positives(t)'
          /\ \A i \in DOMAIN loc'[t].fps : loc'[t].fps[i][1] = b
      BY <1>1, <1>2, <1>4, <2>2, MissCollected
    <3>2. CASE loc[t].todo = {s}
      <4>1. pc'[t] = "find_read2" /\ loc'[t].todo = {}
        BY <2>2, <3>2 DEF KeyMiss
      <4>2. Without(key, b, Slots)'
        BY <1>4, <1>8, <3>1, <4>1 DEF Comparing, Without
      <4>3. QED
        BY <1>2, <1>4, <1>8, <3>1, <4>1, <4>2 DEF Scan
    <3>3. CASE loc[t].todo # {s}
      <4>1. pc'[t] = "find_key1"
        BY <1>1, <2>2, <3>3 DEF KeyMiss
      <4>2. Comparing(t, I1(t))'
        BY <1>8, <3>1 DEF Comparing, Matches, Without
      <4>3. QED
        BY <1>2, <1>4, <1>8, <3>1, <4>1, <4>2 DEF Scan
    <3>4. QED
      BY <3>2, <3>3
  <2>3. QED
    BY <1>5, <2>1, <2>2
<1>10. Answer(t)'
  BY <1>6 DEF Answer, AnswerPCs, AdaptPCs
<1>11. QED
  BY <1>7, <1>9, <1>10, SlotsStay DEF LookInv

LEMMA FindKey2Look ==
    ASSUME TypeOK, NEW t \in Threads, loc[t].op = "find", LookInv(t), FindKey2(t)
    PROVE  SameQuestion(t) /\ LookInv(t)'
<1> DEFINE key == loc[t].key
<1>0. PICK b \in Buckets : b = I2(t)
  BY LocalTypes
<1>1. pc[t] = "find_key2" /\ pc[t] \in KeyPCs /\ CompareKey(t, b, "find_again")
  BY <1>0 DEF FindKey2, At, KeyPCs
<1>2. /\ Positives(t) /\ ~loc[t].out /\ Comparing(t, b)
      /\ Without(key, I1(t), Slots)
  BY <1>0, <1>1 DEF LookInv, Scan, ScanPCs
<1>3. AllSlotsOK
  BY <1>1 DEF LookInv, LookSlots, AllSlotsOK, TakingPCs, MovingPCs
<1>4. /\ UNCHANGED <<table, victim, num_items>>
      /\ loc'[t].op = loc[t].op /\ loc'[t].key = key /\ loc'[t].out = loc[t].out
  BY <1>1, <1>2, <1>3, KeyCompared
<1>5. PICK s \in loc[t].todo : KeyHit(t, b, s) \/ KeyMiss(t, b, s, "find_again")
  BY <1>1, <1>2, <1>3, KeyCompared
<1>6. pc'[t] \in {"find_val", "find_again", "find_key2"}
  BY <1>1, <1>5 DEF KeyHit, KeyMiss
<1>7. SameQuestion(t) /\ pc'[t] \in FindPCs
  BY <1>1, <1>4, <1>6 DEF SameQuestion, TakingPCs, MovingPCs, FindPCs
<1>8. I2(t)' = b /\ I1(t)' = I1(t)
  BY <1>0, <1>7, SlotsStay
<1>9. Without(key, I1(t), Slots)'
  BY <1>2, <1>4, <1>8 DEF Without, table
<1>10. Positives(t)' /\ Scan(t)'
  <2>1. CASE KeyHit(t, b, s)
    <3>1. Positives(t)'
      BY <1>2, <1>4, <2>1 DEF Positives, KeyHit, table
    <3>2. Scan(t)'
      BY <1>2, <1>4, <2>1 DEF Scan, KeyHit, table
    <3>3. QED
      BY <3>1, <3>2
  <2>2. CASE KeyMiss(t, b, s, "find_again")
    <3>1. Comparing(t, b)' /\ Positives(t)'
      BY <1>1, <1>2, <1>4, <2>2, MissCollected
    <3>2. CASE loc[t].todo = {s}
      <4>1. pc'[t] = "find_again" /\ loc'[t].todo = {}
        BY <2>2, <3>2 DEF KeyMiss
      <4>2. Without(key, b, Slots)'
        BY <1>4, <1>8, <3>1, <4>1 DEF Comparing, Without
      <4>3. QED
        BY <1>2, <1>4, <1>8, <1>9, <3>1, <4>1, <4>2 DEF Scan
    <3>3. CASE loc[t].todo # {s}
      <4>1. pc'[t] = "find_key2"
        BY <1>1, <2>2, <3>3 DEF KeyMiss
      <4>2. Comparing(t, I2(t))'
        BY <1>8, <3>1 DEF Comparing, Matches, Without
      <4>3. QED
        BY <1>2, <1>4, <1>8, <1>9, <3>1, <4>1, <4>2 DEF Scan
    <3>4. QED
      BY <3>2, <3>3
  <2>3. QED
    BY <1>5, <2>1, <2>2
<1>11. Answer(t)'
  BY <1>6 DEF Answer, AnswerPCs, AdaptPCs
<1>12. QED
  BY <1>7, <1>10, <1>11, SlotsStay DEF LookInv

-----------------------------------------------------------------------------
(* The answer.                                                             *)

\* A step that writes no slot leaves what is stored.
LEMMA StillTable ==
    ASSUME TypeOK, OneThread, NEW t \in Threads, table' = table,
           pc[t] # "rf_kv_slot", pc'[t] # "rf_kv_slot", NEW p
    PROVE  InTable(p)' <=> InTable(p)
BY StillSlots, ExchangeKeeps DEF table

LEMMA FindValLook ==
    ASSUME TypeOK, OneThread, NEW t \in Threads, loc[t].op = "find", LookInv(t), FindVal(t)
    PROVE  SameQuestion(t) /\ LookInv(t)'
<1> DEFINE key == loc[t].key
<1>1. PICK b \in Buckets, s \in Slots : b = loc[t].cur /\ s = loc[t].slot
  BY LocalTypes
<1>2. PICK v \in Vals : v = kv[b][s][2]
  BY DEF TypeOK, Pairs
<1>3. /\ loc' = [loc EXCEPT ![t] = [loc[t] EXCEPT !.got = v, !.out = TRUE]]
      /\ UNCHANGED <<table, victim, num_items>>
      /\ pc[t] = "find_val" /\ pc'[t] = IF loc[t].fps = <<>> THEN "ret" ELSE "adapt_lock"
  BY <1>1, <1>2 DEF FindVal, At, Goto, Adaptation, TypeOK
<1>4. /\ loc'[t].op = loc[t].op /\ loc'[t].key = key /\ loc'[t].fps = loc[t].fps
      /\ loc'[t].got = v /\ loc'[t].out = TRUE
  BY <1>3, LocalTypes, LookFields DEF TypeOK
<1>5. SameQuestion(t) /\ pc'[t] \in FindPCs \cup {"ret"}
  BY <1>3, <1>4 DEF SameQuestion, TakingPCs, MovingPCs, FindPCs
<1>6. kv[b][s] = <<key, v>> /\ occupied[b][s]
  BY <1>1, <1>2, <1>3 DEF LookInv, Scan, TypeOK, Pairs
<1>7. InTable(<<key, v>>)
  <2>1. <<key, v>> \in PairIn(b, s)
    BY <1>6 DEF PairIn
  <2>2. <<key, v>> \in InSlot(b, s)
    BY <1>3, <2>1, OneView DEF View, HalfMoved
  <2>3. QED
    BY <2>2 DEF InTable
<1>8. InTable(<<key, v>>)'
  <2>1. PICK p : p = <<key, v>>
    OBVIOUS
  <2>2. InTable(p)' <=> InTable(p)
    BY <1>3, StillTable
  <2>3. InTable(p)'
    BY <1>7, <2>1, <2>2
  <2>4. QED
    BY <1>4, <2>1, <2>3
<1>9. Positives(t)' /\ Scan(t)'
  BY <1>3, <1>4 DEF LookInv, Positives, Scan, ScanPCs, table
<1>10. Answer(t)'
  BY <1>3, <1>4, <1>8 DEF Answer, AnswerPCs, AdaptPCs
<1>11. QED
  BY <1>5, <1>9, <1>10, SlotsStay DEF LookInv

LEMMA FindAgainLook ==
    ASSUME TypeOK, OneThread, NEW t \in Threads, loc[t].op = "find", LookInv(t), FindAgain(t)
    PROVE  SameQuestion(t) /\ LookInv(t)'
<1>1. /\ pc[t] = "find_again" /\ pc'[t] \in {"find_even1", "find_victim"} /\ loc' = loc
      /\ UNCHANGED <<table, victim, num_items>>
  BY DEF FindAgain, At, Goto, TypeOK
<1>2. SameQuestion(t) /\ pc'[t] \in FindPCs
  BY <1>1 DEF SameQuestion, TakingPCs, MovingPCs, FindPCs
<1>3. AllSlotsOK
  BY <1>2, SlotsStay
<1>4. Without(loc[t].key, I1(t), Slots) /\ Without(loc[t].key, I2(t), Slots)
  BY <1>1 DEF LookInv, Scan
<1>5. ASSUME NEW v \in Vals PROVE ~InTable(<<loc[t].key, v>>)'
  <2>1. ~InTable(<<loc[t].key, v>>)
    BY <1>1, <1>3, <1>4, NotInTable
  <2>2. PICK p : p = <<loc[t].key, v>>
    OBVIOUS
  <2>3. InTable(p)' <=> InTable(p)
    BY <1>1, StillTable
  <2>4. ~InTable(p)'
    BY <2>1, <2>2, <2>3
  <2>5. QED
    BY <1>1, <2>2, <2>4
<1>6. Positives(t)' /\ Scan(t)'
  BY <1>1 DEF LookInv, Positives, Scan, ScanPCs, table
<1>7. Answer(t)'
  BY <1>1, <1>5 DEF Answer, AnswerPCs, AdaptPCs
<1>8. QED
  BY <1>2, <1>6, <1>7, SlotsStay DEF LookInv

\* What an answer says of the table stays true.
LEMMA TableAnswer ==
    ASSUME TypeOK, OneThread, NEW t \in Threads, SameQuestion(t)
    PROVE  /\ (\A v \in Vals : ~InTable(<<loc[t].key, v>>))
                 => \A v \in Vals : ~InTable(<<loc[t].key, v>>)'
           /\ WordIsZero(I1(t)) => WordIsZero(I1(t))'
           /\ loc'[t].got = loc[t].got /\ InTable(<<loc[t].key, loc[t].got>>)
                 => InTable(<<loc[t].key, loc[t].got>>)'
           /\ KeyInVictim(loc[t].key)' <=> KeyInVictim(loc[t].key)
           /\ loc'[t].got = loc[t].got => (InVictim(<<loc[t].key, loc[t].got>>)' <=>
                                              InVictim(<<loc[t].key, loc[t].got>>))
<1>1. /\ table' = table /\ victim' = victim /\ loc'[t].key = loc[t].key
      /\ pc[t] # "rf_kv_slot" /\ pc'[t] # "rf_kv_slot"
  BY DEF SameQuestion, TakingPCs, MovingPCs
<1>2. ASSUME NEW v PROVE InTable(<<loc[t].key, v>>)' <=> InTable(<<loc[t].key, v>>)
  <2>1. PICK p : p = <<loc[t].key, v>>
    OBVIOUS
  <2>2. InTable(p)' <=> InTable(p)
    BY <1>1, StillTable
  <2>3. QED
    BY <1>1, <2>1, <2>2
<1>3. WordIsZero(I1(t)) => WordIsZero(I1(t))'
  BY <1>1 DEF I1, WordIsZero, FreeSlots, table
<1>4. loc'[t].got = loc[t].got => (InTable(<<loc[t].key, loc[t].got>>)' <=>
                                     InTable(<<loc[t].key, loc[t].got>>))
  <2>1. PICK v : v = loc[t].got
    OBVIOUS
  <2>2. InTable(<<loc[t].key, v>>)' <=> InTable(<<loc[t].key, v>>)
    BY <1>2
  <2>3. QED
    BY <1>1, <2>1, <2>2
<1>5. QED
  BY <1>1, <1>2, <1>3, <1>4 DEF KeyInVictim, InVictim

LEMMA FindVictimLook ==
    ASSUME TypeOK, OneThread, NEW t \in Threads, loc[t].op = "find", LookInv(t), FindVictim(t)
    PROVE  SameQuestion(t) /\ LookInv(t)'
<1>1. /\ pc[t] = "find_victim" /\ loc' = loc /\ UNCHANGED <<table, victim, num_items>>
      /\ pc'[t] \in {"find_vkey", "ret", "adapt_lock"}
      /\ pc'[t] = "find_vkey" <=> victim.used
  BY DEF FindVictim, At, Goto, Adaptation, TypeOK
<1>2. SameQuestion(t) /\ pc'[t] \in FindPCs \cup {"ret"}
  BY <1>1 DEF SameQuestion, TakingPCs, MovingPCs, FindPCs
<1>3. Positives(t)' /\ Scan(t)'
  BY <1>1 DEF LookInv, Positives, Scan, ScanPCs, table
<1>4. ~loc[t].out /\ (pc'[t] # "find_vkey" => ~KeyInVictim(loc[t].key)')
  BY <1>1 DEF LookInv, Scan, ScanPCs, KeyInVictim
<1>5. Answer(t)'
  BY <1>1, <1>2, <1>4, TableAnswer DEF LookInv, Answer, AnswerPCs, AdaptPCs
<1>6. QED
  BY <1>2, <1>3, <1>5, SlotsStay DEF LookInv

LEMMA FindVKeyLook ==
    ASSUME TypeOK, OneThread, NEW t \in Threads, loc[t].op = "find", LookInv(t), FindVKey(t)
    PROVE  SameQuestion(t) /\ LookInv(t)'
<1>1. pc[t] = "find_vkey" /\ UNCHANGED <<table, victim, num_items>>
  BY DEF FindVKey, At
<1>2. ~loc[t].out /\ victim.used
  BY <1>1 DEF LookInv, Scan, ScanPCs, Answer
<1>3. CASE victim.key = loc[t].key
  <2>1. loc' = [loc EXCEPT ![t].out = TRUE] /\ pc'[t] = "find_vval"
    BY <1>3 DEF FindVKey, Goto, TypeOK
  <2>2. /\ loc'[t].op = loc[t].op /\ loc'[t].key = loc[t].key /\ loc'[t].fps = loc[t].fps
        /\ loc'[t].out = TRUE
    BY <2>1, LocalTypes, LookFields DEF TypeOK
  <2>3. SameQuestion(t) /\ pc'[t] \in FindPCs
    BY <1>1, <2>1, <2>2 DEF SameQuestion, TakingPCs, MovingPCs, FindPCs
  <2>4. Positives(t)' /\ Scan(t)' /\ Answer(t)'
    BY <1>1, <1>2, <1>3, <2>1, <2>2 DEF LookInv, Positives, Scan, ScanPCs, Answer, AnswerPCs,
       AdaptPCs, KeyInVictim, table
  <2>5. QED
    BY <2>3, <2>4, SlotsStay DEF LookInv
<1>4. CASE victim.key # loc[t].key
  <2>1. loc' = loc /\ pc'[t] \in {"ret", "adapt_lock"}
    BY <1>4 DEF FindVKey, Goto, Adaptation, TypeOK
  <2>2. SameQuestion(t) /\ pc'[t] \in FindPCs \cup {"ret"}
    BY <1>1, <2>1 DEF SameQuestion, TakingPCs, MovingPCs, FindPCs
  <2>3. Positives(t)' /\ Scan(t)'
    BY <1>1, <2>1 DEF LookInv, Positives, Scan, ScanPCs, table
  <2>4. ~KeyInVictim(loc[t].key)'
    BY <1>1, <1>4, <2>1 DEF KeyInVictim
  <2>5. Answer(t)'
    BY <1>1, <1>2, <2>1, <2>2, <2>4, TableAnswer DEF LookInv, Answer, AnswerPCs, AdaptPCs
  <2>6. QED
    BY <2>2, <2>3, <2>5, SlotsStay DEF LookInv
<1>5. QED
  BY <1>3, <1>4

LEMMA FindVValLook ==
    ASSUME TypeOK, NEW t \in Threads, loc[t].op = "find", LookInv(t), FindVVal(t)
    PROVE  SameQuestion(t) /\ LookInv(t)'
<1>1. /\ pc[t] = "find_vval" /\ pc'[t] = "ret" /\ UNCHANGED <<table, victim, num_items>>
      /\ loc' = [loc EXCEPT ![t].got = victim.val]
  BY DEF FindVVal, At, Goto, TypeOK
<1>2. /\ loc'[t].op = loc[t].op /\ loc'[t].key = loc[t].key /\ loc'[t].fps = loc[t].fps
      /\ loc'[t].got = victim.val /\ loc'[t].out = loc[t].out
  BY <1>1, LocalTypes, LookFields DEF TypeOK
<1>3. SameQuestion(t) /\ pc'[t] \in FindPCs \cup {"ret"}
  BY <1>1, <1>2 DEF SameQuestion, TakingPCs, MovingPCs, FindPCs
<1>4. loc[t].out /\ KeyInVictim(loc[t].key)
  BY <1>1 DEF LookInv, Answer
<1>5. InVictim(<<loc[t].key, loc[t].got>>)'
  BY <1>1, <1>2, <1>4 DEF InVictim, KeyInVictim
<1>6. Positives(t)' /\ Scan(t)' /\ Answer(t)'
  BY <1>1, <1>2, <1>4, <1>5 DEF LookInv, Positives, Scan, ScanPCs, Answer, AnswerPCs,
     AdaptPCs, table
<1>7. QED
  BY <1>3, <1>6, SlotsStay DEF LookInv

\* The scan and the answer.
LEMMA FindLook ==
    ASSUME TypeOK, OneThread, NEW t \in Threads, loc[t].op = "find", LookInv(t), FindStep(t)
    PROVE  SameQuestion(t) /\ LookInv(t)'
BY FindEvenLook, FindBreakLook, FindRead1Look, FindRead2Look, FindKey1Look, FindKey2Look,
   FindValLook, FindAgainLook, FindVictimLook, FindVKeyLook, FindVValLook DEF FindStep

-----------------------------------------------------------------------------
(* The adaptation: the pair of one slot and what is in the next slot       *)
(* exchange their places.                                                  *)

LEMMA MovingFields ==
    ASSUME NEW r \in LocType
    PROVE  /\ \A x, y, z : LET q == [r EXCEPT !.empty = x, !.carried = y, !.spare = z]
                           IN  q.op = r.op /\ q.key = r.key /\ q.got = r.got /\ q.out = r.out
                               /\ q.fps = r.fps /\ q.empty = x /\ q.carried = y /\ q.spare = z
           /\ \A x : LET q == [r EXCEPT !.fps = x]
                     IN  q.op = r.op /\ q.key = r.key /\ q.got = r.got /\ q.out = r.out /\ q.fps = x
                         /\ q.empty = r.empty /\ q.carried = r.carried /\ q.spare = r.spare
BY DEF LocType

\* The two slots of a bucket that an adaptation is at.
LEMMA TwoSlots ==
    ASSUME TypeOK, NEW t \in Threads, pc[t] \in AdaptPCs
    PROVE  /\ FpBucket(t) \in Buckets /\ FpSlot(t) \in Slots /\ NewSlot(t) \in Slots
           /\ FpSlot(t) # NewSlot(t)
           /\ loc[t].fps # <<>> /\ Head(loc[t].fps) = <<FpBucket(t), FpSlot(t)>>
<1>1. /\ FpBucket(t) \in Buckets /\ FpSlot(t) \in Slots /\ NewSlot(t) \in Slots
      /\ loc[t].fps # <<>>
  BY PositionTypes
<1>2. FpSlot(t) # NewSlot(t)
  BY <1>1, SizeAssumption DEF NewSlot, Slots
<1>3. Head(loc[t].fps) \in Buckets \X Slots
  BY <1>1, LocalTypes
<1>4. QED
  BY <1>1, <1>2, <1>3 DEF FpBucket, FpSlot

\* What every step of an adaptation does.
Adapts(t) ==
    /\ loc'[t].op = loc[t].op /\ loc'[t].key = loc[t].key
    /\ loc'[t].got = loc[t].got /\ loc'[t].out = loc[t].out
    /\ victim' = victim /\ num_items' = num_items
    /\ pc[t] \in AdaptPCs \cup {"adapt_unlock"} /\ pc'[t] \in AnswerPCs \ {"adapt_lock"}

LEMMA AdaptLockLook ==
    ASSUME TypeOK, NEW t \in Threads, LookInv(t), AdaptLock(t) \/ AdaptUnlock(t)
    PROVE  Adapts(t) /\ SameQuestion(t) /\ loc'[t].fps = loc[t].fps /\ LookSlots(t)' /\ Positives(t)'
<1>1. /\ pc[t] \in {"adapt_lock", "adapt_unlock"} /\ pc'[t] \in {"rf_read", "ret"}
      /\ UNCHANGED <<table, victim, num_items, loc>>
  BY DEF AdaptLock, AdaptUnlock, At, Goto, TypeOK
<1>2. Adapts(t) /\ SameQuestion(t) /\ pc'[t] \in FindPCs \cup {"ret"}
  BY <1>1 DEF Adapts, SameQuestion, AdaptPCs, AnswerPCs, TakingPCs, MovingPCs, FindPCs
<1>3. QED
  BY <1>1, <1>2, SlotsStay DEF LookInv, Positives, table

LEMMA RfReadLook ==
    ASSUME TypeOK, NEW t \in Threads, LookInv(t), RfRead(t)
    PROVE  Adapts(t) /\ loc'[t].fps = loc[t].fps /\ table' = table /\ LookSlots(t)' /\ Positives(t)'
<1>1. PICK b \in Buckets, s \in Slots, n \in Slots :
         b = FpBucket(t) /\ s = FpSlot(t) /\ n = NewSlot(t)
  BY TwoSlots DEF RfRead, RfReadTag, RfReadSlot, RfReadNewSlot, At, AdaptPCs
<1>2. PICK p \in Pairs, q \in Pairs, e \in BOOLEAN :
         /\ loc' = [loc EXCEPT ![t] = [loc[t] EXCEPT !.empty = e, !.carried = p, !.spare = q]]
         /\ e <=> tags[b][n] = 0
         /\ pc'[t] \in MovingPCs => p = kv[b][s] /\ (~e => q = kv[b][n])
         /\ pc'[t] = "rf_spare" => ~e /\ p = kv[b][s]
  <2>1. kv[b][s] \in Pairs /\ kv[b][n] \in Pairs /\ (tags[b][n] = 0) \in BOOLEAN
    BY DEF TypeOK
  <2>2. PICK r \in LocType : r = loc[t]
    BY LocalTypes
  <2>3. CASE RfReadTag(t)
    <3>1. pc'[t] = "rf_slot"
      BY <2>3 DEF RfReadTag, Goto, TypeOK
    <3>2. PICK e \in BOOLEAN : e = (tags[b][n] = 0)
      OBVIOUS
    <3>3. loc' = [loc EXCEPT ![t] = [r EXCEPT !.empty = e]]
      BY <1>1, <2>2, <2>3, <3>2 DEF RfReadTag
    <3>4. loc' = [loc EXCEPT ![t] = [r EXCEPT !.empty = e, !.carried = r.carried,
                                              !.spare = r.spare]]
      BY <3>3, ReadFields
    <3>5. QED
      BY <2>2, <3>1, <3>2, <3>4, ReadFields DEF MovingPCs
  <2>4. CASE RfReadSlot(t)
    <3>1. PICK p \in Pairs : p = kv[b][s]
      BY <2>1
    <3>2. /\ pc[t] = "rf_slot" /\ pc'[t] = IF r.empty THEN "rf_tag_new" ELSE "rf_spare"
          /\ loc' = [loc EXCEPT ![t] = [r EXCEPT !.carried = p]]
      BY <1>1, <2>2, <2>4, <3>1 DEF RfReadSlot, At, Goto, TypeOK
    <3>3. r.empty <=> tags[b][n] = 0
      BY <1>1, <2>2, <3>2 DEF LookInv, LookSlots, Taking, TakingPCs
    <3>4. loc' = [loc EXCEPT ![t] = [r EXCEPT !.empty = r.empty, !.carried = p,
                                              !.spare = r.spare]]
      BY <3>2, ReadFields
    <3>5. pc'[t] \in MovingPCs => r.empty
      BY <3>2 DEF MovingPCs
    <3>6. pc'[t] = "rf_spare" => ~r.empty
      BY <3>2
    <3>7. QED
      BY <2>2, <3>1, <3>3, <3>4, <3>5, <3>6, ReadFields
  <2>5. CASE RfReadNewSlot(t)
    <3>1. PICK q \in Pairs : q = kv[b][n]
      BY <2>1
    <3>2. /\ pc[t] = "rf_spare" /\ pc'[t] = "rf_tag_new"
          /\ loc' = [loc EXCEPT ![t] = [r EXCEPT !.spare = q]]
      BY <1>1, <2>2, <2>5, <3>1 DEF RfReadNewSlot, At, Goto, TypeOK
    <3>3. ~r.empty /\ tags[b][n] # 0 /\ r.carried = kv[b][s]
      BY <1>1, <2>2, <3>2 DEF LookInv, LookSlots, Taking, TakingPCs
    <3>4. loc' = [loc EXCEPT ![t] = [r EXCEPT !.empty = r.empty, !.carried = r.carried,
                                              !.spare = q]]
      BY <3>2, ReadFields
    <3>5. r.empty <=> tags[b][n] = 0
      BY <3>3
    <3>6. pc'[t] # "rf_spare"
      BY <3>2
    <3>7. QED
      BY <2>2, <3>1, <3>3, <3>4, <3>5, <3>6, ReadFields
  <2>6. QED
    BY <2>3, <2>4, <2>5 DEF RfRead
<1>3. /\ UNCHANGED <<table, victim, num_items>>
      /\ pc[t] \in {"rf_read", "rf_slot", "rf_spare"}
      /\ pc'[t] \in {"rf_slot", "rf_spare", "rf_tag_new"}
  BY DEF RfRead, RfReadTag, RfReadSlot, RfReadNewSlot, At, Goto, TypeOK
<1>4. /\ loc'[t].op = loc[t].op /\ loc'[t].key = loc[t].key
      /\ loc'[t].got = loc[t].got /\ loc'[t].out = loc[t].out /\ loc'[t].fps = loc[t].fps
      /\ loc'[t].empty = e /\ loc'[t].carried = p /\ loc'[t].spare = q
  BY <1>2, LocalTypes, MovingFields DEF TypeOK
<1>5. Adapts(t)
  BY <1>3, <1>4 DEF Adapts, AdaptPCs, AnswerPCs
<1>6. Positives(t)'
  BY <1>3, <1>4 DEF LookInv, Positives, table
<1>7. AllSlotsOK
  BY <1>3 DEF LookInv, LookSlots, AllSlotsOK, TakingPCs, MovingPCs
<1>8. occupied[b][s]
  <2>1. loc[t].fps \in Seq(Buckets \X Slots) /\ loc[t].fps # <<>>
    BY <1>3, LocalTypes, TwoSlots DEF AdaptPCs
  <2>2. 1 \in DOMAIN loc[t].fps /\ Head(loc[t].fps) = loc[t].fps[1]
    BY <2>1, TailOne
  <2>3. QED
    BY <1>1, <2>2 DEF LookInv, Positives, FpBucket, FpSlot
<1>9. SlotOK(b, s) /\ SlotOK(b, n)
  BY <1>7 DEF AllSlotsOK
<1>10. FpBucket(t)' = b /\ FpSlot(t)' = s /\ NewSlot(t)' = n
  BY <1>1, <1>4 DEF FpBucket, FpSlot, NewSlot
<1>11. pc'[t] \in MovingPCs => Moving(t)'
  BY <1>2, <1>3, <1>4, <1>8, <1>9, <1>10 DEF Moving, MovingPCs, SlotOK, Home, table
<1>14. pc'[t] \in TakingPCs => Taking(t)'
  BY <1>2, <1>3, <1>4, <1>10 DEF Taking, TakingPCs, table
<1>12. LookSlots(t)'
  BY <1>3, <1>7, <1>11, <1>14 DEF LookSlots, AllSlotsOK, SlotOK, Home, table
<1>13. QED
  BY <1>3, <1>4, <1>5, <1>6, <1>12

\* The slots at which nothing moves.
LEMMA OtherSlotsOK ==
    ASSUME TypeOK, NEW t \in Threads, LookInv(t), pc[t] \in MovingPCs,
           NEW b \in Buckets, NEW s \in Slots, b # FpBucket(t) \/ s \notin {FpSlot(t), NewSlot(t)},
           tags'[b][s] = tags[b][s], kv'[b][s] = kv[b][s], occupied'[b][s] = occupied[b][s]
    PROVE  SlotOK(b, s)'
BY DEF LookInv, LookSlots, SlotOK, Home

LEMMA RfTagLook ==
    ASSUME TypeOK, NEW t \in Threads, LookInv(t), RfTagNew(t) \/ RfTagSlot(t)
    PROVE  /\ Adapts(t) /\ loc' = loc /\ kv' = kv /\ occupied' = occupied
           /\ LookSlots(t)' /\ Positives(t)'
<1>0. pc[t] \in MovingPCs /\ pc[t] \in AdaptPCs
  BY DEF RfTagNew, RfTagSlot, At, AdaptPCs, MovingPCs
<1>1. PICK b \in Buckets, s \in Slots, n \in Slots :
         b = FpBucket(t) /\ s = FpSlot(t) /\ n = NewSlot(t) /\ s # n
  BY <1>0, TwoSlots
<1> DEFINE x == IF pc[t] = "rf_tag_new" THEN n ELSE s
           g == IF pc[t] = "rf_tag_new" THEN Tag[loc[t].carried[1]][n]
                ELSE IF loc[t].empty THEN 0 ELSE Tag[loc[t].spare[1]][s]
<1>2. tags' = [tags EXCEPT ![b][x] = g] /\ x \in {s, n}
  BY <1>1 DEF RfTagNew, RfTagSlot, WriteTag, At
<1>3. /\ UNCHANGED <<kv, occupied, victim, num_items, loc>>
      /\ \/ pc[t] = "rf_tag_new" /\ pc'[t] = "rf_tag_slot"
         \/ pc[t] = "rf_tag_slot" /\ pc'[t] = "rf_kv_new"
  BY DEF RfTagNew, RfTagSlot, At, Goto, TypeOK
<1>4. Adapts(t)
  BY <1>3 DEF Adapts, AdaptPCs, AnswerPCs
<1>5. Positives(t)'
  BY <1>3 DEF LookInv, Positives
<1>6. FpBucket(t)' = b /\ FpSlot(t)' = s /\ NewSlot(t)' = n
  BY <1>1, <1>3 DEF FpBucket, FpSlot, NewSlot
<1>7. /\ tags'[b][x] = g
      /\ \A c \in Buckets, r \in Slots : c # b \/ r # x => tags'[c][r] = tags[c][r]
  <2> HIDE DEF x, g
  <2>1. QED
    BY <1>2 DEF TypeOK
<1>8. Moving(t)
  BY <1>0 DEF LookInv, LookSlots
<1>9. Moving(t)'
  <2>1. CASE pc[t] = "rf_tag_new"
    BY <1>1, <1>2, <1>3, <1>6, <1>7, <1>8, <2>1 DEF Moving, Home
  <2>2. CASE pc[t] = "rf_tag_slot"
    BY <1>1, <1>2, <1>3, <1>6, <1>7, <1>8, <2>2 DEF Moving, Home
  <2>3. QED
    BY <1>3, <2>1, <2>2
<1>10. ASSUME NEW c \in Buckets, NEW r \in Slots, c # b \/ r \notin {s, n}
       PROVE  SlotOK(c, r)'
  BY <1>0, <1>1, <1>2, <1>3, <1>7, <1>10, OtherSlotsOK
<1>11. LookSlots(t)'
  BY <1>3, <1>6, <1>9, <1>10 DEF LookSlots, TakingPCs, MovingPCs
<1>12. QED
  BY <1>3, <1>4, <1>5, <1>11

\* The write that exchanges the two slots.
LEMMA RfKVNewLook ==
    ASSUME TypeOK, OneThread, NEW t \in Threads, LookInv(t), RfKVNew(t)
    PROVE  /\ Adapts(t) /\ LookSlots(t)' /\ Positives(t)' /\ loc' = loc
           /\ \E x \in Buckets \X Slots, y \in Buckets \X Slots : Exchanged(x, y)
<1>0. pc[t] \in MovingPCs /\ pc[t] \in AdaptPCs
  BY DEF RfKVNew, At, AdaptPCs, MovingPCs
<1>1. PICK b \in Buckets, s \in Slots, n \in Slots :
         b = FpBucket(t) /\ s = FpSlot(t) /\ n = NewSlot(t) /\ s # n
         /\ Head(loc[t].fps) = <<b, s>>
  BY <1>0, TwoSlots
<1>2. /\ kv' = [kv EXCEPT ![b][n] = loc[t].carried] /\ occupied' = [occupied EXCEPT ![b][n] = TRUE]
      /\ UNCHANGED <<tags, victim, num_items, loc>>
      /\ pc[t] = "rf_kv_new" /\ pc'[t] = "rf_kv_slot"
  BY <1>1 DEF RfKVNew, setKV, At, Goto, TypeOK
<1>3. Adapts(t)
  BY <1>2 DEF Adapts, AdaptPCs, AnswerPCs
<1>4. FpBucket(t)' = b /\ FpSlot(t)' = s /\ NewSlot(t)' = n
  BY <1>1, <1>2 DEF FpBucket, FpSlot, NewSlot
<1>5. /\ kv'[b][n] = loc[t].carried /\ occupied'[b][n] = TRUE
      /\ \A c \in Buckets, r \in Slots :
            c # b \/ r # n => kv'[c][r] = kv[c][r] /\ occupied'[c][r] = occupied[c][r]
  BY <1>2 DEF TypeOK
<1>6. Moving(t)
  BY <1>0 DEF LookInv, LookSlots
<1>7. /\ occupied[b][s] /\ kv[b][s] = loc[t].carried
      /\ occupied[b][n] <=> ~loc[t].empty
      /\ ~loc[t].empty => kv[b][n] = loc[t].spare
  BY <1>1, <1>2, <1>6 DEF Moving
<1>8. Moving(t)'
  BY <1>1, <1>2, <1>4, <1>5, <1>6 DEF Moving, Home
<1>9. ASSUME NEW c \in Buckets, NEW r \in Slots, c # b \/ r \notin {s, n}
      PROVE  SlotOK(c, r)'
  BY <1>0, <1>1, <1>2, <1>5, <1>9, OtherSlotsOK
<1>10. LookSlots(t)'
  BY <1>2, <1>4, <1>8, <1>9 DEF LookSlots, TakingPCs, MovingPCs
<1>11. Positives(t)'
  <2>1. loc[t].fps \in Seq(Buckets \X Slots)
    BY LocalTypes
  <2>2. \A i \in DOMAIN loc[t].fps : loc[t].fps[i] \in Buckets \X Slots
    BY <2>1
  <2>3. \A c \in Buckets, r \in Slots : occupied[c][r] => occupied'[c][r]
    BY <1>5
  <2>4. QED
    BY <1>2, <2>2, <2>3 DEF LookInv, Positives
<1>12. Exchanged(<<b, s>>, <<b, n>>)
  <2>1. \A c \in Buckets, r \in Slots :
           /\ ~HalfMoved(t, c, r)
           /\ HalfMoved(t, c, r)' <=> c = b /\ r = s
    BY <1>1, <1>2 DEF HalfMoved
  <2>2. InSlot(b, s) = {loc[t].carried} /\ InSlot(b, n)' = {loc[t].carried}
    <3>1. InSlot(b, s) = PairIn(b, s) /\ InSlot(b, n)' = PairIn(b, n)'
      BY <1>1, <2>1, OneView DEF View
    <3>2. QED
      BY <1>5, <1>7, <3>1 DEF PairIn
  <2>3. InSlot(b, n) = {p \in {loc[t].spare} : ~loc[t].empty}
    <3>1. InSlot(b, n) = PairIn(b, n)
      BY <2>1, OneView DEF View
    <3>2. QED
      BY <1>7, <3>1 DEF PairIn
  <2>4. InSlot(b, s)' = {p \in {loc[t].spare} : ~loc[t].empty}
    BY <1>2, <2>1, OneView DEF View
  <2>5. ASSUME NEW c \in Buckets, NEW r \in Slots, <<c, r>> # <<b, s>>, <<c, r>> # <<b, n>>
        PROVE  InSlot(c, r)' = InSlot(c, r)
    <3>1. c # b \/ (r # s /\ r # n)
      BY <2>5
    <3>2. InSlot(c, r)' = PairIn(c, r)' /\ InSlot(c, r) = PairIn(c, r)
      BY <2>1, <3>1, OneView DEF View
    <3>3. QED
      BY <1>5, <3>1, <3>2 DEF PairIn
  <2>6. QED
    BY <2>2, <2>3, <2>4, <2>5 DEF Exchanged
<1>13. QED
  BY <1>2, <1>3, <1>10, <1>11, <1>12

\* The write that leaves the bucket in order again.
LEMMA RfKVSlotLook ==
    ASSUME TypeOK, OneThread, NEW t \in Threads, LookInv(t), RfKVSlot(t)
    PROVE  /\ Adapts(t) /\ LookSlots(t)' /\ Positives(t)'
           /\ \E x \in Buckets \X Slots : Exchanged(x, x)
<1>0. pc[t] \in MovingPCs /\ pc[t] \in AdaptPCs /\ pc[t] = "rf_kv_slot"
  BY DEF RfKVSlot, At, AdaptPCs, MovingPCs
<1>1. PICK b \in Buckets, s \in Slots, n \in Slots :
         b = FpBucket(t) /\ s = FpSlot(t) /\ n = NewSlot(t) /\ s # n
         /\ loc[t].fps # <<>> /\ Head(loc[t].fps) = <<b, s>>
  BY <1>0, TwoSlots
<1>2. PICK p \in Pairs : p = loc[t].spare
  BY LocalTypes
<1>3. PICK f : f = Tail(loc[t].fps)
  OBVIOUS
<1>4. /\ loc' = [loc EXCEPT ![t] = [loc[t] EXCEPT !.fps = f]]
      /\ UNCHANGED <<tags, victim, num_items>>
      /\ pc'[t] \in {"rf_read", "adapt_unlock"}
      /\ \/ loc[t].empty /\ occupied' = [occupied EXCEPT ![b][s] = FALSE] /\ kv' = kv
         \/ /\ ~loc[t].empty /\ occupied' = [occupied EXCEPT ![b][s] = TRUE]
            /\ kv' = [kv EXCEPT ![b][s] = p]
  BY <1>1, <1>2, <1>3 DEF RfKVSlot, setKV, eraseKV, At, Goto, TypeOK
<1>5. /\ loc'[t].op = loc[t].op /\ loc'[t].key = loc[t].key
      /\ loc'[t].got = loc[t].got /\ loc'[t].out = loc[t].out /\ loc'[t].fps = f
  BY <1>4, LocalTypes, MovingFields DEF TypeOK
<1>6. Adapts(t)
  BY <1>0, <1>4, <1>5 DEF Adapts, AdaptPCs, AnswerPCs
<1>7. /\ occupied'[b][s] <=> ~loc[t].empty
      /\ ~loc[t].empty => kv'[b][s] = p
      /\ \A c \in Buckets, r \in Slots :
            c # b \/ r # s => kv'[c][r] = kv[c][r] /\ occupied'[c][r] = occupied[c][r]
  BY <1>4 DEF TypeOK
<1>8. Moving(t)
  BY <1>0 DEF LookInv, LookSlots
<1>9. /\ Home(loc[t].carried[1], b) /\ occupied[b][n] /\ kv[b][n] = loc[t].carried
      /\ tags[b][n] = Tag[loc[t].carried[1]][n]
      /\ tags[b][s] = IF loc[t].empty THEN 0 ELSE Tag[p[1]][s]
      /\ ~loc[t].empty => Home(p[1], b)
  BY <1>0, <1>1, <1>2, <1>8 DEF Moving
<1>10. SlotOK(b, s)'
  <2>1. Tag[p[1]][s] # 0
    BY HashAssumption DEF Pairs
  <2>2. QED
    BY <1>4, <1>7, <1>9, <2>1 DEF SlotOK, Home
<1>11. SlotOK(b, n)'
  <2>1. Tag[loc[t].carried[1]][n] # 0
    BY HashAssumption, LocalTypes DEF Pairs
  <2>2. QED
    BY <1>1, <1>4, <1>7, <1>9, <2>1 DEF SlotOK, Home
<1>12. ASSUME NEW c \in Buckets, NEW r \in Slots, c # b \/ r \notin {s, n}
       PROVE  SlotOK(c, r)'
  BY <1>0, <1>1, <1>4, <1>7, <1>12, OtherSlotsOK
<1>13. LookSlots(t)'
  BY <1>4, <1>10, <1>11, <1>12 DEF LookSlots, TakingPCs, MovingPCs
<1>14. Positives(t)'
  <2> DEFINE g == loc[t].fps
  <2>1. g \in Seq(Buckets \X Slots) /\ g # <<>>
    BY <1>1, LocalTypes
  <2>2. /\ 1 \in DOMAIN g /\ g[1] = <<b, s>>
        /\ \A i \in DOMAIN f : i + 1 \in DOMAIN g /\ i + 1 # 1 /\ i \in Nat /\ f[i] = g[i + 1]
    BY <1>1, <1>3, <2>1, TailOne
  <2>3. \A i \in DOMAIN g : g[i] \in Buckets \X Slots
    BY <2>1
  <2>4. IsInjective(g) /\ \A i \in DOMAIN g : occupied[g[i][1]][g[i][2]]
    BY DEF LookInv, Positives
  <2> HIDE DEF g
  <2>5. IsInjective(f)
    BY <2>2, <2>4 DEF IsInjective
  <2>6. ASSUME NEW i \in DOMAIN f PROVE occupied'[f[i][1]][f[i][2]]
    <3>1. f[i] # <<b, s>> /\ f[i] = g[i + 1] /\ i + 1 \in DOMAIN g
      BY <2>2, <2>4 DEF IsInjective
    <3>0. PICK z \in Buckets \X Slots : z = f[i]
      BY <2>3, <3>1
    <3>2. PICK c \in Buckets, r \in Slots : c = z[1] /\ r = z[2] /\ z = <<c, r>>
      BY <3>0
    <3>3. occupied[c][r]
      BY <2>4, <3>0, <3>1, <3>2
    <3>4. c # b \/ r # s
      BY <3>0, <3>1, <3>2
    <3>5. QED
      BY <1>7, <3>0, <3>2, <3>3, <3>4
  <2>7. QED
    BY <1>5, <2>5, <2>6 DEF Positives
<1>15. Exchanged(<<b, s>>, <<b, s>>)
  <2>1. \A c \in Buckets, r \in Slots :
           /\ HalfMoved(t, c, r) <=> c = b /\ r = s
           /\ ~HalfMoved(t, c, r)'
    BY <1>0, <1>1, <1>4 DEF HalfMoved
  <2>2. InSlot(b, s) = {q \in {p} : ~loc[t].empty}
    BY <1>2, <2>1, OneView DEF View
  <2>3. InSlot(b, s)' = PairIn(b, s)'
    BY <2>1, OneView DEF View
  <2>4. PairIn(b, s)' = {q \in {p} : ~loc[t].empty}
    BY <1>7 DEF PairIn
  <2>5. ASSUME NEW c \in Buckets, NEW r \in Slots, <<c, r>> # <<b, s>>
        PROVE  InSlot(c, r)' = InSlot(c, r)
    <3>1. c # b \/ r # s
      BY <2>5
    <3>2. InSlot(c, r)' = PairIn(c, r)' /\ InSlot(c, r) = PairIn(c, r)
      BY <2>1, <3>1, OneView DEF View
    <3>3. QED
      BY <1>7, <3>1, <3>2 DEF PairIn
  <2>6. QED
    BY <2>2, <2>3, <2>4, <2>5 DEF Exchanged
<1>16. QED
  BY <1>6, <1>13, <1>14, <1>15

LEMMA AdaptMoves ==
    ASSUME TypeOK, OneThread, NEW t \in Threads, loc[t].op = "find", LookInv(t), AdaptStep(t)
    PROVE  /\ Adapts(t) /\ LookSlots(t)' /\ Positives(t)'
           /\ \E x \in Buckets \X Slots, y \in Buckets \X Slots : Exchanged(x, y)
           /\ pc[t] = "adapt_unlock" => SameQuestion(t) /\ loc'[t].fps = loc[t].fps
<1>1. CASE AdaptLock(t) \/ AdaptUnlock(t)
  <2>1. SameQuestion(t) /\ Adapts(t)
    BY <1>1, AdaptLockLook
  <2>2. \E x \in Buckets \X Slots : Exchanged(x, x)
    BY <2>1, StillSlots DEF SameQuestion, TakingPCs, MovingPCs, table
  <2>3. QED
    BY <1>1, <2>2, AdaptLockLook
<1>2. CASE RfRead(t)
  <2>1. /\ pc[t] \in {"rf_read", "rf_slot", "rf_spare"}
        /\ pc'[t] \in {"rf_slot", "rf_spare", "rf_tag_new"} /\ UNCHANGED <<kv, occupied>>
    BY <1>2 DEF RfRead, RfReadTag, RfReadSlot, RfReadNewSlot, At, Goto, TypeOK, table
  <2>2. \E x \in Buckets \X Slots : Exchanged(x, x)
    BY <2>1, StillSlots
  <2>3. QED
    BY <1>2, <2>1, <2>2, RfReadLook
<1>3. CASE RfTagNew(t) \/ RfTagSlot(t)
  <2>1. pc[t] \in {"rf_tag_new", "rf_tag_slot"} /\ pc'[t] \in {"rf_tag_slot", "rf_kv_new"}
    BY <1>3 DEF RfTagNew, RfTagSlot, At, Goto, TypeOK
  <2>2. UNCHANGED <<kv, occupied>>
    BY <1>3 DEF RfTagNew, RfTagSlot
  <2>3. \E x \in Buckets \X Slots : Exchanged(x, x)
    BY <2>1, <2>2, StillSlots
  <2>4. QED
    BY <1>3, <2>1, <2>3, RfTagLook
<1>4. CASE RfKVNew(t)
  <2>1. pc[t] = "rf_kv_new"
    BY <1>4 DEF RfKVNew, At
  <2>2. QED
    BY <1>4, <2>1, RfKVNewLook
<1>5. CASE RfKVSlot(t)
  <2>1. pc[t] = "rf_kv_slot"
    BY <1>5 DEF RfKVSlot, At
  <2>2. QED
    BY <1>5, <2>1, RfKVSlotLook
<1>6. QED
  BY <1>1, <1>2, <1>3, <1>4, <1>5 DEF AdaptStep

\* The answer does not depend on the slots the pairs are in.
LEMMA AdaptLook ==
    ASSUME TypeOK, OneThread, NEW t \in Threads, loc[t].op = "find", LookInv(t), AdaptStep(t)
    PROVE  LookInv(t)'
<1>1. /\ Adapts(t) /\ LookSlots(t)' /\ Positives(t)'
      /\ pc[t] = "adapt_unlock" => SameQuestion(t) /\ loc'[t].fps = loc[t].fps
  BY AdaptMoves
<1>2. PICK x \in Buckets \X Slots, y \in Buckets \X Slots : Exchanged(x, y)
  BY AdaptMoves
<1>3. /\ pc'[t] \in FindPCs \cup {"ret"} /\ pc'[t] \notin ScanPCs /\ pc'[t] # "find_vval"
      /\ pc[t] \in AnswerPCs
  BY <1>1 DEF Adapts, AnswerPCs, AdaptPCs, FindPCs, ScanPCs
<1>4. Scan(t)'
  BY <1>3 DEF Scan, ScanPCs
<1>5. I1(t)' = I1(t) /\ I1(t)' # I2(t)'
  BY <1>1 DEF Adapts, LookInv, I1, I2
<1>6. \A p : InTable(p)' <=> InTable(p)
  BY <1>2, ExchangeKeeps
<1>7. /\ loc'[t].key = loc[t].key /\ loc'[t].got = loc[t].got /\ loc'[t].out = loc[t].out
      /\ victim' = victim
  BY <1>1 DEF Adapts
<1>8. Answer(t)
  BY DEF LookInv
<1>9. ~loc[t].out =>
          \/ \A v \in Vals : ~InTable(<<loc[t].key, v>>)
          \/ WordIsZero(I1(t)) /\ loc[t].fps = <<>>
  BY <1>3, <1>8 DEF Answer
<1>10. ~loc'[t].out =>
          \/ \A v \in Vals : ~InTable(<<loc[t].key, v>>)'
          \/ WordIsZero(I1(t))' /\ loc'[t].fps = <<>>
  <2>1. CASE pc[t] = "adapt_unlock"
    BY <1>1, <1>7, <1>9, <2>1, TableAnswer
  <2>2. CASE pc[t] \in AdaptPCs
    <3>1. loc[t].fps # <<>>
      BY <2>2 DEF TypeOK
    <3>2. ASSUME NEW v \in Vals, ~InTable(<<loc[t].key, v>>) PROVE ~InTable(<<loc[t].key, v>>)'
      <4>1. PICK p : p = <<loc[t].key, v>>
        OBVIOUS
      <4>2. ~InTable(p)'
        BY <1>6, <3>2, <4>1
      <4>3. QED
        BY <1>7, <4>1, <4>2
    <3>3. QED
      BY <1>7, <1>9, <3>1, <3>2
  <2>3. QED
    BY <1>1, <2>1, <2>2 DEF Adapts
<1>11. loc[t].out => \/ InTable(<<loc[t].key, loc[t].got>>)
                     \/ InVictim(<<loc[t].key, loc[t].got>>)
  BY <1>3, <1>8 DEF Answer
<1>12. loc'[t].out => \/ InTable(<<loc[t].key, loc[t].got>>)'
                      \/ InVictim(<<loc[t].key, loc[t].got>>)'
  <2>1. PICK p : p = <<loc[t].key, loc[t].got>>
    OBVIOUS
  <2>2. loc'[t].out => InTable(p)' \/ InVictim(p)'
    BY <1>6, <1>7, <1>11, <2>1 DEF InVictim
  <2>3. QED
    BY <1>7, <2>1, <2>2
<1>13. ~loc'[t].out => ~KeyInVictim(loc[t].key)'
  BY <1>3, <1>7, <1>8 DEF Answer, KeyInVictim
<1>14. Answer(t)'
  BY <1>3, <1>10, <1>12, <1>13 DEF Answer, ScanPCs
<1>15. QED
  BY <1>1, <1>3, <1>4, <1>5, <1>14 DEF LookInv

-----------------------------------------------------------------------------
(* A lookup begins, goes on and ends.                                      *)

LEMMA LookBegins ==
    ASSUME TypeOK, OneThread, TwoBuckets, NEW t \in Threads, AgreeInv, Begin(t),
           loc'[t].op = "find"
    PROVE  pc'[t] = "find_even1" /\ LookInv(t)'
<1>1. PICK c \in Calls[t] :
         /\ loc' = [loc EXCEPT ![t] = Fresh(c.op, c.key, c.val)]
         /\ pc' = [pc EXCEPT ![t] = CASE c.op = "insert" -> "first_lock"
                                      [] c.op \in {"erase", "update"} -> "pair_lock1"
                                      [] c.op \in {"find", "findinfilter"} -> "find_even1"]
         /\ pc[t] = "idle" /\ table' = table
  BY DEF Begin, At, Goto
<1>2. /\ loc'[t].op = c.op /\ loc'[t].key = c.key /\ loc'[t].fps = <<>> /\ loc'[t].out = FALSE
  BY <1>1 DEF Fresh, TypeOK
<1>3. c.op = "find"
  BY <1>2
<1>4. pc'[t] = "find_even1"
  BY <1>1, <1>3 DEF TypeOK
<1>5. I1(t)' # I2(t)'
  BY <1>2, <1>3 DEF TwoBuckets, I1, I2
<1>6. AllSlotsOK
  <2>1. \A u \in Threads : pc[u] = "idle"
    BY <1>1 DEF OneThread
  <2>2. \A u \in Threads, b \in Buckets, s \in Slots : ~Dirty(u, b, s)
    BY <2>1 DEF Dirty, TagPCs
  <2>3. ASSUME NEW b \in Buckets, NEW s \in Slots PROVE SlotOK(b, s)
    <3>1. SlotOK(b, s) \/ \E u \in Threads : Dirty(u, b, s)
      BY DEF AgreeInv
    <3>2. QED
      BY <2>2, <3>1
  <2>4. QED
    BY <2>3 DEF AllSlotsOK
<1>7. LookSlots(t)'
  <2>1. tags' = tags /\ kv' = kv /\ occupied' = occupied
    BY <1>1 DEF table
  <2>2. ASSUME NEW b \in Buckets, NEW s \in Slots PROVE SlotOK(b, s)'
    BY <1>6, <2>1 DEF AllSlotsOK, SlotOK, Home
  <2>3. QED
    BY <1>4, <2>2 DEF LookSlots, TakingPCs, MovingPCs
<1>8. Positives(t)' /\ Scan(t)' /\ Answer(t)'
  BY <1>2, <1>4 DEF Positives, IsInjective, Scan, Answer, AnswerPCs, AdaptPCs
<1>9. QED
  BY <1>4, <1>5, <1>7, <1>8 DEF LookInv, FindPCs

LEMMA LookEnds ==
    ASSUME TypeOK, OneThread, NEW t \in Threads, loc[t].op = "find", LookInv(t), Return(t)
    PROVE  AgreeInv' /\ CourseInv' /\ loc'[t].op # "find"
<1>1. /\ pc[t] = "ret" /\ pc'[t] = "idle" /\ table' = table /\ loc'[t] = idle
  BY DEF Return, At, Goto, TypeOK
<1>2. idle.op = "insert" /\ idle.fps = <<>> /\ idle.carried[1] = idle.key
  BY DEF idle, Fresh
<1>3. Local(t)'
  BY <1>1, <1>2 DEF Local, AdaptingPCs, KeyPCs, AdaptPCs, PlacePCs, HitPCs, TagPCs
<1>4. Course(t)'
  BY <1>1, <1>2, CallPlaces
<1>5. AtSlot(t)' /\ AtVictim(t)' /\ InHand(t)'
  BY <1>1 DEF AtSlot, AtVictim, InHand, CarriesDisplaced, FilledPCs, HitPCs, ClearPCs
<1>6. \A b \in Buckets, s \in Slots : SlotOK(b, s)'
  BY <1>1 DEF LookInv, LookSlots, TakingPCs, MovingPCs, SlotOK, Home, table
<1>7. HomeInv'
  BY <1>6 DEF HomeInv, SlotOK
<1>8. \A u \in Threads : Local(u)' /\ Course(u)' /\ AtSlot(u)' /\ AtVictim(u)' /\ InHand(u)'
  BY <1>3, <1>4, <1>5 DEF OneThread
<1>9. QED
  BY <1>1, <1>2, <1>6, <1>7, <1>8 DEF AgreeInv, CourseInv

LEMMA LookSteps ==
    ASSUME NEW t \in Threads, loc[t].op = "find", LookInv(t), Begin(t) \/ Step(t)
    PROVE  FindStep(t) \/ AdaptStep(t) \/ Return(t)
<1>1. ~Begin(t)
  BY DEF Begin, At, LookInv, FindPCs
<1>2. ~InsertStep(t)
  <2>1. InsertStep(t) => pc[t] \in InsertPCs
    BY DEF InsertStep, FirstLock, TakeFreeSlot, FirstFull, PutKV, PutCount, PutUnlock,
       FullUnlock, InsertMutex, InsertRefused, InsertProceed, SecondLock, KickOut, KickRead,
       KickKV, KickLock, KickUnlock, VictimKV, VictimKey, VictimVal, VictimUsed, VictimUnlock, VictimCount,
       MutexUnlock, At, InsertPCs
  <2>2. QED
    BY <2>1 DEF LookInv, InsertPCs, FindPCs
<1>3. ~PairStep(t)
  <2>1. PairStep(t) => pc[t] \in PairPCs
    BY DEF PairStep, PairLock1, PairLock2, PairHit, PairMiss, EraseTag, EraseKV, EraseUnlock1,
       EraseUnlock2, EraseCount, UpdateKV, PairUnlock2, PairUnlock1, MissMutex, MissVictim,
       MissUnlock, At, PairPCs
  <2>2. QED
    BY <2>1 DEF LookInv, PairPCs, FindPCs
<1>4. QED
  BY <1>1, <1>2, <1>3 DEF Step

LEMMA SoleInit == Init => SoleInv
<1> SUFFICES ASSUME Init, NEW t \in Threads PROVE loc[t].op # "find" /\ AgreeInv /\ CourseInv
  BY DEF SoleInv
<1>1. loc[t].op = "insert"
  BY DEF Init, idle, Fresh
<1>2. QED
  BY <1>1, AgreeInit, CourseInit

LEMMA SoleNext ==
    ASSUME OneThread, TwoBuckets, TypeOK, TypeOK', LockInv, MutexInv, SoleInv,
           NEW t \in Threads, Begin(t) \/ Step(t)
    PROVE  SoleInv'
<1>1. SUFFICES IF loc'[t].op = "find" THEN LookInv(t)' ELSE AgreeInv' /\ CourseInv'
  BY DEF SoleInv, OneThread
<1>2. CASE loc[t].op = "find"
  <2>1. LookInv(t)
    BY <1>2 DEF SoleInv
  <2>2. CASE FindStep(t)
    <3>1. SameQuestion(t) /\ LookInv(t)'
      BY <1>2, <2>1, <2>2, FindLook
    <3>2. QED
      BY <1>2, <3>1 DEF SameQuestion
  <2>3. CASE AdaptStep(t)
    <3>1. Adapts(t) /\ LookInv(t)'
      BY <1>2, <2>1, <2>3, AdaptMoves, AdaptLook
    <3>2. QED
      BY <1>2, <3>1 DEF Adapts
  <2>4. CASE Return(t)
    BY <1>2, <2>1, <2>4, LookEnds
  <2>5. QED
    BY <1>2, <2>1, <2>2, <2>3, <2>4, LookSteps
<1>3. CASE loc[t].op # "find"
  <2>1. AgreeInv /\ CourseInv
    BY <1>3 DEF SoleInv
  <2>2. CASE loc'[t].op = "find"
    <3>1. Begin(t)
      BY <2>1, <2>2, StaysFree DEF AgreeInv
    <3>2. QED
      BY <2>1, <2>2, <3>1, LookBegins
  <2>3. CASE loc'[t].op # "find"
    <3>1. TableStep(t)
      BY <2>1, <2>3, EveryStep DEF AgreeInv
    <3>2. \A u \in Threads \ {t} : pc'[u] = pc[u] /\ loc'[u] = loc[u]
      BY OthersKept
    <3>3. AgreeInv'
      BY <2>1, <3>1, <3>2, TableStepInv
    <3>4. CourseInv'
      BY <2>1, <2>3, CourseStep
    <3>5. QED
      BY <2>3, <3>3, <3>4
  <2>4. QED
    BY <2>2, <2>3
<1>4. QED
  BY <1>2, <1>3

-----------------------------------------------------------------------------
(* What a lookup keeps: the contents, and with them the count.             *)

LEMMA SwappedSets ==
    ASSUME NEW T, IsFiniteSet(T), NEW A \in SUBSET T, NEW B \in SUBSET T, NEW x \in T, NEW y \in T,
           x \in B <=> y \in A, y \in B <=> x \in A, \A z \in T \ {x, y} : z \in A <=> z \in B
    PROVE  Cardinality(B) = Cardinality(A)
<1>1. CASE x = y
  <2>1. A = B
    BY <1>1
  <2>2. QED
    BY <2>1
<1>2. CASE x # y
  <2> DEFINE C == {z \in T : IF z = x THEN x \in B ELSE z \in A}
  <2>1. C \in SUBSET T /\ (x \in C <=> x \in B) /\ (y \in C <=> x \in B)
    BY <1>2
  <2>2. \A z \in T \ {x} : z \in A <=> z \in C
    OBVIOUS
  <2>3. \A z \in T \ {y} : z \in C <=> z \in B
    BY <1>2
  <2> HIDE DEF C
  <2>4. /\ Cardinality(A) \in Nat /\ Cardinality(C) \in Nat
        /\ Cardinality(C) = Cardinality(A) + Bit(x \in C) - Bit(x \in A)
    BY <2>1, <2>2, CardinalityStep
  <2>5. /\ Cardinality(B) \in Nat
        /\ Cardinality(B) = Cardinality(C) + Bit(y \in B) - Bit(y \in C)
    BY <2>1, <2>3, CardinalityStep
  <2>6. QED
    BY <2>1, <2>4, <2>5 DEF Bit
<1>3. QED
  BY <1>1, <1>2

LEMMA ExchangeCounts ==
    ASSUME NEW x \in Buckets \X Slots, NEW y \in Buckets \X Slots, Exchanged(x, y)
    PROVE  /\ \A p : Cardinality(InSlots(p)') = Cardinality(InSlots(p))
           /\ Cardinality(FullSlots') = Cardinality(FullSlots)
<1>1. ASSUME NEW z \in (Buckets \X Slots) \ {x, y} PROVE InSlot(z[1], z[2])' = InSlot(z[1], z[2])
  <2>1. PICK b \in Buckets, s \in Slots : z = <<b, s>>
    OBVIOUS
  <2>2. InSlot(b, s)' = InSlot(b, s)
    BY <2>1 DEF Exchanged
  <2>3. QED
    BY <2>1, <2>2
<1>2. ASSUME NEW p PROVE Cardinality(InSlots(p)') = Cardinality(InSlots(p))
  <2>1. InSlots(p) \in SUBSET (Buckets \X Slots) /\ InSlots(p)' \in SUBSET (Buckets \X Slots)
    BY DEF InSlots
  <2>2. (x \in InSlots(p)' <=> y \in InSlots(p)) /\ (y \in InSlots(p)' <=> x \in InSlots(p))
    BY DEF InSlots, Exchanged
  <2>3. \A z \in (Buckets \X Slots) \ {x, y} : z \in InSlots(p) <=> z \in InSlots(p)'
    BY <1>1 DEF InSlots
  <2>4. QED
    BY <2>1, <2>2, <2>3, SwappedSets, PlacesFinite
<1>3. Cardinality(FullSlots') = Cardinality(FullSlots)
  <2>1. FullSlots \in SUBSET (Buckets \X Slots) /\ FullSlots' \in SUBSET (Buckets \X Slots)
    BY DEF FullSlots
  <2>2. (x \in FullSlots' <=> y \in FullSlots) /\ (y \in FullSlots' <=> x \in FullSlots)
    BY DEF FullSlots, Exchanged
  <2>3. \A z \in (Buckets \X Slots) \ {x, y} : z \in FullSlots <=> z \in FullSlots'
    BY <1>1 DEF FullSlots
  <2>4. QED
    BY <2>1, <2>2, <2>3, SwappedSets, PlacesFinite
<1>4. QED
  BY <1>2, <1>3

\* Where a lookup is, or has been, or is about to be.
Looking(t) == pc[t] \in FindPCs \cup {"ret", "idle"}

LEMMA LookMoves ==
    ASSUME TypeOK, OneThread, TwoBuckets, SoleInv, NEW t \in Threads,
           loc[t].op = "find" \/ loc'[t].op = "find", Begin(t) \/ Step(t)
    PROVE  /\ Looking(t) /\ Looking(t)' /\ victim' = victim /\ num_items' = num_items
           /\ \E x \in Buckets \X Slots, y \in Buckets \X Slots : Exchanged(x, y)
<1>1. CASE loc[t].op = "find"
  <2>1. LookInv(t)
    BY <1>1 DEF SoleInv
  <2>2. CASE FindStep(t)
    <3>1. SameQuestion(t) /\ LookInv(t)'
      BY <1>1, <2>1, <2>2, FindLook
    <3>2. \E x \in Buckets \X Slots : Exchanged(x, x)
      BY <3>1, StillSlots DEF SameQuestion, TakingPCs, MovingPCs, table
    <3>3. QED
      BY <2>1, <3>1, <3>2 DEF SameQuestion, LookInv, Looking
  <2>3. CASE AdaptStep(t)
    <3>1. Adapts(t) /\ LookInv(t)' /\ \E x \in Buckets \X Slots, y \in Buckets \X Slots : Exchanged(x, y)
      BY <1>1, <2>1, <2>3, AdaptMoves, AdaptLook
    <3>2. QED
      BY <2>1, <3>1 DEF Adapts, LookInv, Looking
  <2>4. CASE Return(t)
    <3>1. /\ pc[t] = "ret" /\ pc'[t] = "idle" /\ UNCHANGED <<table, victim, num_items>>
      BY <2>4 DEF Return, At, Goto, TypeOK
    <3>2. \E x \in Buckets \X Slots : Exchanged(x, x)
      BY <3>1, StillSlots DEF table
    <3>3. QED
      BY <3>1, <3>2 DEF Looking
  <2>5. QED
    BY <1>1, <2>1, <2>2, <2>3, <2>4, LookSteps
<1>2. CASE loc[t].op # "find"
  <2>1. AgreeInv
    BY <1>2 DEF SoleInv
  <2>2. Begin(t)
    BY <1>2, <2>1, StaysFree DEF AgreeInv
  <2>3. pc'[t] = "find_even1" /\ LookInv(t)'
    BY <1>2, <2>1, <2>2, LookBegins
  <2>4. pc[t] = "idle" /\ UNCHANGED <<table, victim, num_items>>
    BY <2>2 DEF Begin, At, Goto
  <2>5. \E x \in Buckets \X Slots : Exchanged(x, x)
    BY <2>3, <2>4, StillSlots DEF table
  <2>6. QED
    BY <2>3, <2>4, <2>5 DEF Looking, LookInv
<1>3. QED
  BY <1>1, <1>2

LEMMA NothingPending ==
    ASSUME OneThread, NEW t \in Threads, Looking(t)
    PROVE  /\ {u \in Threads : Uncounted(u)} = {}
           /\ {u \in Threads : CarriesDisplaced(u)} = {}
           /\ {u \in Threads : Overcounted(u)} = {}
           /\ \A p : InHands(p) = {}
<1>1. \A u \in Threads : u = t
  BY DEF OneThread
<1>2. ~Uncounted(t) /\ ~CarriesDisplaced(t) /\ ~Overcounted(t)
  BY DEF Looking, FindPCs, Uncounted, CarriesDisplaced, Overcounted
<1>3. QED
  BY <1>1, <1>2 DEF InHands

\* A lookup stores and removes nothing.
LEMMA LookKeeps ==
    ASSUME TypeOK, OneThread, TwoBuckets, SoleInv, NEW t \in Threads,
           loc[t].op = "find" \/ loc'[t].op = "find", Begin(t) \/ Step(t)
    PROVE  Contents' = Contents /\ (CountExact => CountExact')
<1>1. /\ Looking(t) /\ Looking(t)' /\ victim' = victim /\ num_items' = num_items
      /\ \E x \in Buckets \X Slots, y \in Buckets \X Slots : Exchanged(x, y)
  BY LookMoves
<1>2. /\ \A p : Cardinality(InSlots(p)') = Cardinality(InSlots(p))
      /\ Cardinality(FullSlots') = Cardinality(FullSlots)
  BY <1>1, ExchangeCounts
<1>3. /\ {u \in Threads : Uncounted(u)} = {} /\ {u \in Threads : Uncounted(u)}' = {}
      /\ {u \in Threads : CarriesDisplaced(u)} = {} /\ {u \in Threads : CarriesDisplaced(u)}' = {}
      /\ {u \in Threads : Overcounted(u)} = {} /\ {u \in Threads : Overcounted(u)}' = {}
      /\ \A p : InHands(p) = {} /\ InHands(p)' = {}
  <2>1. /\ {u \in Threads : Uncounted(u)} = {}
        /\ {u \in Threads : CarriesDisplaced(u)} = {}
        /\ {u \in Threads : Overcounted(u)} = {}
        /\ \A p : InHands(p) = {}
    BY <1>1, NothingPending
  <2>2. ~Uncounted(t)' /\ ~CarriesDisplaced(t)' /\ ~Overcounted(t)'
    BY <1>1 DEF Looking, FindPCs, Uncounted, CarriesDisplaced, Overcounted
  <2>3. \A u \in Threads : u = t
    BY DEF OneThread
  <2>4. QED
    BY <2>1, <2>2, <2>3 DEF InHands
<1>4. \A p : InVictim(p)' <=> InVictim(p)
  BY <1>1 DEF InVictim
<1>5. Contents' = Contents
  BY <1>2, <1>3, <1>4 DEF Contents
<1>6. StoredPairs' = StoredPairs
  BY <1>1, <1>2, <1>3 DEF StoredPairs, FullSlots
<1>7. QED
  BY <1>1, <1>3, <1>5, <1>6 DEF CountExact

-----------------------------------------------------------------------------
(* What follows from the invariant.                                        *)

LEMMA SoleSlots == OneThread /\ TypeOK /\ LockInv /\ SoleInv => SlotInv
<1> SUFFICES ASSUME OneThread, TypeOK, LockInv, SoleInv PROVE SlotInv
  OBVIOUS
<1>1. PICK t \in Threads : TRUE
  BY DEF OneThread
<1>2. CASE loc[t].op # "find"
  BY <1>2, AgreeSlots DEF SoleInv
<1>3. CASE loc[t].op = "find"
  <2>1. LookSlots(t)
    BY <1>3 DEF SoleInv, LookInv
  <2>2. ASSUME NEW b \in Buckets, ~(\E u \in Threads : Adapting(u, b)), NEW s \in Slots
        PROVE  SlotOK(b, s)
    BY <2>1, <2>2 DEF LookSlots, TakingPCs, MovingPCs, Adapting
  <2>3. QED
    BY <2>2 DEF SlotInv, SlotOK, Home
<1>4. QED
  BY <1>2, <1>3

LEMMA HeldPair ==
    ASSUME NEW p \in Pairs, InTable(p) \/ InVictim(p)
    PROVE  Contents[p] > 0
<1>1. InSlots(p) \in SUBSET (Buckets \X Slots) /\ InHands(p) \in SUBSET Threads
  BY DEF InSlots, InHands
<1>2. IsFiniteSet(InSlots(p)) /\ IsFiniteSet(InHands(p))
  BY <1>1, PlacesFinite, FS_Subset
<1>3. Cardinality(InSlots(p)) \in Nat /\ Cardinality(InHands(p)) \in Nat
  BY <1>2, FS_CardinalityType
<1>4. Contents[p] = Cardinality(InSlots(p)) + Cardinality(InHands(p))
                       + (IF InVictim(p) THEN 1 ELSE 0)
  BY DEF Contents
<1>5. CASE InTable(p)
  <2>1. PICK b \in Buckets, s \in Slots : p \in InSlot(b, s)
    BY <1>5 DEF InTable
  <2>2. <<b, s>> \in InSlots(p)
    BY <2>1 DEF InSlots
  <2>3. Cardinality(InSlots(p)) # 0
    BY <1>2, <2>2, FS_EmptySet
  <2>4. QED
    BY <1>3, <1>4, <2>3
<1>6. CASE InVictim(p)
  BY <1>3, <1>4, <1>6
<1>7. QED
  BY <1>5, <1>6

LEMMA NotHeldKey ==
    ASSUME OneThread, NEW t \in Threads, Looking(t), NEW k \in Keys,
           \A v \in Vals : ~InTable(<<k, v>>), ~KeyInVictim(k)
    PROVE  ~Stored(k)
<1> SUFFICES ASSUME NEW v \in Vals PROVE ~(Contents[<<k, v>>] > 0)
  BY DEF Stored
<1>1. PICK p \in Pairs : p = <<k, v>>
  BY DEF Pairs
<1>2. ~InTable(p) /\ ~InVictim(p) /\ InHands(p) = {}
  BY <1>1, NothingPending DEF InVictim, KeyInVictim
<1>3. InSlots(p) = {}
  BY <1>2 DEF InSlots, InTable
<1>4. Contents[p] = Cardinality(InSlots(p)) + Cardinality(InHands(p))
                       + (IF InVictim(p) THEN 1 ELSE 0)
  BY DEF Contents
<1>5. Contents[p] = 0
  BY <1>2, <1>3, <1>4, FS_EmptySet
<1>6. QED
  BY <1>1, <1>5

LEMMA SoleAnswers == OneThread /\ TypeOK /\ SoleInv => FindAnswer
<1> SUFFICES ASSUME OneThread, TypeOK, SoleInv, NEW t \in Threads,
                    pc[t] = "ret", loc[t].op = "find"
             PROVE  IF loc[t].out THEN Contents[<<loc[t].key, loc[t].got>>] > 0
                                  ELSE ~Stored(loc[t].key) \/ WordIsZero(I1(t))
  BY DEF FindAnswer
<1>1. Answer(t)
  BY DEF SoleInv, LookInv
<1>2. "ret" \in AnswerPCs
  BY DEF AnswerPCs
<1>3. loc[t].key \in Keys /\ loc[t].got \in Vals
  BY LocalTypes DEF LocType
<1>4. CASE loc[t].out
  <2>1. PICK p \in Pairs : p = <<loc[t].key, loc[t].got>>
    BY <1>3 DEF Pairs
  <2>2. InTable(p) \/ InVictim(p)
    BY <1>1, <1>2, <1>4, <2>1 DEF Answer
  <2>3. QED
    BY <1>4, <2>1, <2>2, HeldPair
<1>5. CASE ~loc[t].out
  <2>1. /\ \/ \A v \in Vals : ~InTable(<<loc[t].key, v>>)
           \/ WordIsZero(I1(t))
        /\ ~KeyInVictim(loc[t].key)
    BY <1>1, <1>2, <1>5 DEF Answer
  <2>2. Looking(t)
    BY DEF Looking
  <2>3. QED
    BY <1>3, <1>5, <2>1, <2>2, NotHeldKey
<1>6. QED
  BY <1>4, <1>5

-----------------------------------------------------------------------------
(* One thread that inserts, erases, updates and looks up.                  *)

LEMMA SoleStutter == SoleInv /\ UNCHANGED vars => SoleInv'
<1> SUFFICES ASSUME SoleInv, UNCHANGED vars, NEW t \in Threads
             PROVE  IF loc'[t].op = "find" THEN LookInv(t)' ELSE AgreeInv' /\ CourseInv'
  BY DEF SoleInv
<1>1. CASE loc[t].op = "find"
  <2>1. LookInv(t)
    BY <1>1 DEF SoleInv
  <2>2. LookSlots(t)' /\ Positives(t)'
    BY <2>1 DEF vars, table, LookInv, LookSlots, Taking, Moving, SlotOK, Positives, Home,
       IsInjective, FpBucket, FpSlot, NewSlot
  <2>3. Scan(t)'
    BY <2>1 DEF vars, table, LookInv, Scan, Comparing, Without, Matches, I1, I2
  <2>4. \A p : (InTable(p)' <=> InTable(p)) /\ (InVictim(p)' <=> InVictim(p))
    BY DEF vars, table, InTable, InSlot, HalfMoved, InVictim
  <2>5. (WordIsZero(I1(t))' <=> WordIsZero(I1(t))) /\ I1(t)' = I1(t) /\ I2(t)' = I2(t)
    BY DEF vars, table, WordIsZero, FreeSlots, I1, I2
  <2>6. Answer(t)'
    BY <2>1, <2>4, <2>5 DEF vars, LookInv, Answer, KeyInVictim
  <2>7. QED
    BY <1>1, <2>1, <2>2, <2>3, <2>5, <2>6 DEF vars, LookInv
<1>2. CASE loc[t].op # "find"
  <2>1. AgreeInv /\ CourseInv
    BY <1>2 DEF SoleInv
  <2>2. AgreeInv'
    BY <2>1 DEF vars, AgreeInv, Local, SlotOK, Dirty
  <2>3. CourseInv'
    BY <2>1 DEF vars, CourseInv, Course, AtSlot, AtVictim, InHand, CarriesDisplaced, HomeInv, Home
  <2>4. QED
    BY <1>2, <2>2, <2>3 DEF vars
<1>3. QED
  BY <1>1, <1>2

LEMMA SoleCorrect == OneThread /\ TwoBuckets => (Spec => []SoleInv)
<1> SUFFICES ASSUME OneThread, TwoBuckets PROVE Spec => []SoleInv
  OBVIOUS
<1>1. Init => SoleInv
  BY SoleInit
<1>2. TypeOK /\ TypeOK' /\ LockInv /\ MutexInv /\ SoleInv /\ [Next]_vars => SoleInv'
  BY SoleNext, SoleStutter DEF Next
<1>3. QED
  BY <1>1, <1>2, TypeCorrect, LockCorrect, MutexCorrect, PTL DEF Spec

\* What find answers a sole caller is right, whatever it and the thread's other
\* calls have moved before: a value it returns is stored under the key, and a key
\* it does not find is not stored, unless the word of the key's first bucket reads
\* zero. Adaptations rotate pairs through the slots of a bucket all the while.
THEOREM SoleFindAnswers == OneThread /\ TwoBuckets => (Spec => []FindAnswer)
<1> SUFFICES ASSUME OneThread, TwoBuckets PROVE Spec => []FindAnswer
  OBVIOUS
<1>1. TypeOK /\ SoleInv => FindAnswer
  BY SoleAnswers
<1>2. QED
  BY <1>1, SoleCorrect, TypeCorrect, PTL

\* The adaptation of find leaves tag table and storage in order, also in a bucket
\* that it changes without holding it: with a sole caller nobody is there to see.
THEOREM SoleSlotsAgree == OneThread /\ TwoBuckets => (Spec => []SlotInv)
<1> SUFFICES ASSUME OneThread, TwoBuckets PROVE Spec => []SlotInv
  OBVIOUS
<1>1. TypeOK /\ LockInv /\ SoleInv => SlotInv
  BY SoleSlots
<1>2. QED
  BY <1>1, SoleCorrect, TypeCorrect, LockCorrect, PTL

\* num_items_ counts the stored pairs of a sole caller that also looks up: an
\* adaptation loses no pair and doubles none, at none of its four writes.
THEOREM SoleCountCorrect == OneThread /\ TwoBuckets => (Spec => []CountExact)
<1> SUFFICES ASSUME OneThread, TwoBuckets PROVE Spec => []CountExact
  OBVIOUS
<1>1. Init => CountExact
  BY CountInit
<1>2. TypeOK /\ TypeOK' /\ LockInv /\ MutexInv /\ SoleInv /\ CountExact /\ [Next]_vars
         => CountExact'
  <2> SUFFICES ASSUME TypeOK, TypeOK', LockInv, MutexInv, SoleInv, CountExact, [Next]_vars
               PROVE  CountExact'
    OBVIOUS
  <2>1. ASSUME NEW t \in Threads, Begin(t) \/ Step(t) PROVE CountExact'
    <3>1. CASE loc[t].op = "find" \/ loc'[t].op = "find"
      BY <2>1, <3>1, LookKeeps
    <3>2. CASE loc[t].op # "find" /\ loc'[t].op # "find"
      <4>1. AgreeInv /\ CourseInv
        BY <3>2 DEF SoleInv
      <4>2. SoleInv'
        BY <2>1, SoleNext
      <4>3. AgreeInv'
        BY <3>2, <4>2 DEF SoleInv
      <4>4. QED
        BY <2>1, <3>2, <4>1, <4>3, CountNext
    <3>3. QED
      BY <3>1, <3>2
  <2>2. CASE UNCHANGED vars
    BY <2>2 DEF vars, CountExact, StoredPairs, Uncounted, CarriesDisplaced, Overcounted,
       InSlot, HalfMoved
  <2>3. QED
    BY <2>1, <2>2 DEF Next
<1>3. QED
  BY <1>1, <1>2, SoleCorrect, TypeCorrect, LockCorrect, MutexCorrect, PTL DEF Spec

\* No step of a lookup changes what is stored.
LookupsKeep ==
    [][\A t \in Threads : loc[t].op = "find" \/ loc'[t].op = "find" => Contents' = Contents]_vars

\* find and its adaptation store and remove nothing: every pair stays stored as
\* often as it was, while it is between the write of its new slot and the write of
\* its old one too.
THEOREM LookupsKeepContents == OneThread /\ TwoBuckets => (Spec => LookupsKeep)
<1> SUFFICES ASSUME OneThread, TwoBuckets PROVE Spec => LookupsKeep
  OBVIOUS
<1> DEFINE Kept == \A t \in Threads : loc[t].op = "find" \/ loc'[t].op = "find" => Contents' = Contents
<1>1. TypeOK /\ SoleInv /\ [Next]_vars => [Kept]_vars
  <2> SUFFICES ASSUME TypeOK, SoleInv, NEW u \in Threads, Begin(u) \/ Step(u), NEW t \in Threads,
                      loc[t].op = "find" \/ loc'[t].op = "find"
               PROVE  Contents' = Contents
    BY DEF Next
  <2>1. u = t
    BY DEF OneThread
  <2>2. QED
    BY <2>1, LookKeeps
<1>2. QED
  BY <1>1, SoleCorrect, TypeCorrect, PTL DEF Spec, LookupsKeep
=============================================================================
