--------------------------- MODULE CuckooMapLocks ---------------------------
(***************************************************************************)
(* The locks of libcuckoo's cuckoohash_map (cuckoohash_map.hh): a list of  *)
(* lock containers of which the last is the current one, a hashpower that  *)
(* a resize changes while it holds every lock, and operations that read    *)
(* the hashpower, then the current container, then lock one, two or three  *)
(* buckets and compare the hashpower again.                                *)
(*                                                                         *)
(* A bucket's contents are abstracted away: a thread "works" on its        *)
(* buckets while it holds their locks. CuckooMap models what that work is. *)
(***************************************************************************)
EXTENDS Integers, Sequences, FiniteSets, FiniteSetsExt

CONSTANTS
  Threads,       \* the threads that use the map
  Resizers,      \* those that also take every lock (resize, clear, locked_table)
  Shrinks,       \* may a resize (rehash, reserve) make the map smaller?
  InitHp,        \* hashpower of the new map
  MaxHp,         \* bound: the largest hashpower of a run
  kMaxNumLocks,  \* the largest lock container
  MaxCalls       \* bound: calls per thread

ASSUME LocksAssumption ==
  /\ Resizers \subseteq Threads
  /\ Shrinks \in BOOLEAN
  /\ MaxHp \in Nat /\ InitHp \in 0..MaxHp
  /\ kMaxNumLocks \in Nat \ {0}
  /\ MaxCalls \in Nat

VARIABLES
  hashpower,  \* of the bucket container
  all_locks,  \* all_locks_: the size of every lock container, oldest first
  held,       \* the locks that are locked: triples <<container, index, thread>>
  taken,      \* the locks of its container a thread has taken and not given back
  pc,         \* where each thread is
  hp,         \* the hashpower a thread has read
  cont,       \* the lock container it has read (for a resizer: first_locked)
  buckets,    \* the buckets it wants to lock
  pos,        \* a resizer's place in its walk over the lock containers
  target,     \* the hashpower a resizer is moving to
  left        \* calls a thread may still make

vars == <<hashpower, all_locks, held, taken, pc, hp, cont, buckets, pos, target, left>>

hashsize(p) == 2 ^ p
lock_ind(b) == b % kMaxNumLocks
Smaller(a, b) == IF a < b THEN a ELSE b
ASSUME PowersAssumption == \A p \in 0..MaxHp : hashsize(p) \in Nat \ {0}

Current == Len(all_locks)            \* get_current_locks()

(* spinlock *)
Free(c, l) == \A t \in Threads : <<c, l, t>> \notin held
Mine(t) == {h \in held : h[3] = t}
Without(c, l) == {h \in held : h[1] # c \/ h[2] # l}

LockInds(t) == {lock_ind(b) : b \in buckets[t]}
Todo(t) == LockInds(t) \ taken[t]
Working(t) == pc[t] = "rest" /\ Todo(t) = {}

Init ==
  /\ hashpower = InitHp
  /\ all_locks = <<Smaller(kMaxNumLocks, hashsize(InitHp))>>
  /\ held = {}
  /\ taken = [t \in Threads |-> {}]
  /\ pc = [t \in Threads |-> "idle"]
  /\ hp = [t \in Threads |-> 0]
  /\ cont = [t \in Threads |-> 1]
  /\ buckets = [t \in Threads |-> {}]
  /\ pos = [t \in Threads |-> <<1, 0>>]
  /\ target = [t \in Threads |-> 0]
  /\ left = [t \in Threads |-> MaxCalls]

Goto(t, l) == pc' = [pc EXCEPT ![t] = l]

Begin(t) ==
  /\ pc[t] = "idle" /\ left[t] > 0
  /\ left' = [left EXCEPT ![t] = @ - 1]
  /\ Goto(t, "snapshot")
  /\ UNCHANGED <<hashpower, all_locks, held, taken, hp, cont, buckets, pos, target>>

(* Read the hashpower and, from it, the buckets: one for lock_one, two for *)
(* lock_two, three for lock_three.                                         *)
Snapshot(t) ==
  /\ pc[t] = "snapshot"
  /\ hp' = [hp EXCEPT ![t] = hashpower]
  /\ \E i1, i2, i3 \in 0..hashsize(hashpower) - 1 :
       buckets' = [buckets EXCEPT ![t] = {i1, i2, i3}]
  /\ Goto(t, "locks")
  /\ UNCHANGED <<hashpower, all_locks, held, taken, cont, pos, target, left>>

\* Mutant: the oldest lock container instead of the current one.
GetLocks_Oldest(t) ==
  /\ pc[t] = "locks"
  /\ cont' = [cont EXCEPT ![t] = 1]
  /\ Goto(t, "first")
  /\ UNCHANGED <<hashpower, all_locks, held, taken, hp, buckets, pos, target, left>>

GetLocks(t) ==
  /\ pc[t] = "locks"
  /\ cont' = [cont EXCEPT ![t] = Current]
  /\ Goto(t, "first")
  /\ UNCHANGED <<hashpower, all_locks, held, taken, hp, buckets, pos, target, left>>

\* Mutant: lock_two without the swap of its two indices.
LockFirst_Largest(t) ==
  /\ pc[t] = "first"
  /\ LET l == Max(LockInds(t)) IN
       /\ Free(cont[t], l)
       /\ held' = held \union {<<cont[t], l, t>>}
       /\ taken' = [taken EXCEPT ![t] = @ \union {l}]
  /\ Goto(t, "check")
  /\ UNCHANGED <<hashpower, all_locks, hp, cont, buckets, pos, target, left>>

LockFirst(t) ==
  /\ pc[t] = "first"
  /\ LET l == Min(LockInds(t)) IN
       /\ Free(cont[t], l)
       /\ held' = held \union {<<cont[t], l, t>>}
       /\ taken' = [taken EXCEPT ![t] = @ \union {l}]
  /\ Goto(t, "check")
  /\ UNCHANGED <<hashpower, all_locks, hp, cont, buckets, pos, target, left>>

\* Mutant: the hashpower is not compared again.
check_hashpower_Skipped(t) ==
  /\ pc[t] = "check"
  /\ Goto(t, "rest")
  /\ UNCHANGED <<hashpower, all_locks, held, taken, hp, cont, buckets, pos, target, left>>

\* Mutant: the lock is not given back before hashpower_changed is thrown.
check_hashpower_KeepsLock(t) ==
  /\ pc[t] = "check"
  /\ IF hashpower = hp[t]
       THEN Goto(t, "rest") /\ UNCHANGED taken
       ELSE Goto(t, "snapshot") /\ taken' = [taken EXCEPT ![t] = {}]
  /\ UNCHANGED <<hashpower, all_locks, held, hp, cont, buckets, pos, target, left>>

(* The hashpower is compared while the first lock is held: if it changed,  *)
(* the lock is given back and hashpower_changed restarts the operation.    *)
check_hashpower(t) ==
  /\ pc[t] = "check"
  /\ IF hashpower = hp[t]
       THEN Goto(t, "rest") /\ UNCHANGED <<held, taken>>
       ELSE /\ Goto(t, "snapshot")
            /\ held' = Without(cont[t], Min(LockInds(t)))
            /\ taken' = [taken EXCEPT ![t] = {}]
  /\ UNCHANGED <<hashpower, all_locks, hp, cont, buckets, pos, target, left>>

LockNext(t) ==
  /\ pc[t] = "rest" /\ Todo(t) # {}
  /\ LET l == Min(Todo(t)) IN
       /\ Free(cont[t], l)
       /\ held' = held \union {<<cont[t], l, t>>}
       /\ taken' = [taken EXCEPT ![t] = @ \union {l}]
  /\ UNCHANGED <<hashpower, all_locks, pc, hp, cont, buckets, pos, target, left>>

(* TwoBuckets::unlock and the LockManagers: one lock after the other, each *)
(* unlocked whoever has locked it since.                                   *)
StartUnlock(t) ==
  /\ Working(t)
  /\ Goto(t, "unlock")
  /\ UNCHANGED <<hashpower, all_locks, held, taken, hp, cont, buckets, pos, target, left>>

UnlockOne(t) ==
  /\ pc[t] = "unlock"
  /\ \E l \in taken[t] :
       /\ held' = Without(cont[t], l)
       /\ taken' = [taken EXCEPT ![t] = @ \ {l}]
  /\ UNCHANGED <<hashpower, all_locks, pc, hp, cont, buckets, pos, target, left>>

Return(t) ==
  /\ pc[t] = "unlock" /\ taken[t] = {}
  /\ Goto(t, "idle")
  /\ buckets' = [buckets EXCEPT ![t] = {}]
  /\ UNCHANGED <<hashpower, all_locks, held, taken, hp, cont, pos, target, left>>

-----------------------------------------------------------------------------
\* Mutant: one lock too many in every container.
Following_OneMore(p) ==
  IF p[2] < all_locks[p[1]] THEN <<p[1], p[2] + 1>> ELSE <<p[1] + 1, 0>>

(* snapshot_and_lock_all: every lock of the current container and of the   *)
(* containers that are appended meanwhile, in order.                       *)
Following(p) ==
  IF p[2] + 1 < all_locks[p[1]] THEN <<p[1], p[2] + 1>> ELSE <<p[1] + 1, 0>>

BeginAll(t) ==
  /\ t \in Resizers
  /\ pc[t] = "idle" /\ left[t] > 0
  /\ left' = [left EXCEPT ![t] = @ - 1]
  /\ cont' = [cont EXCEPT ![t] = Current]
  /\ pos' = [pos EXCEPT ![t] = <<Current, 0>>]
  /\ Goto(t, "lockall")
  /\ UNCHANGED <<hashpower, all_locks, held, taken, hp, buckets, target>>

LockAllNext(t) ==
  /\ pc[t] = "lockall" /\ pos[t][1] <= Current
  /\ Free(pos[t][1], pos[t][2])
  /\ held' = held \union {<<pos[t][1], pos[t][2], t>>}
  /\ pos' = [pos EXCEPT ![t] = Following(pos[t])]
  /\ UNCHANGED <<hashpower, all_locks, taken, pc, hp, cont, buckets, target, left>>

LockAllDone(t) ==
  /\ pc[t] = "lockall" /\ pos[t][1] > Current
  /\ Goto(t, "all")
  /\ UNCHANGED <<hashpower, all_locks, held, taken, hp, cont, buckets, pos, target, left>>

(* A resize: the new lock container, taken, is appended before the         *)
(* hashpower changes. The owner of all locks may also resize nothing (an   *)
(* invalid resize, clear) or, as a locked_table, resize several times.     *)
maybe_resize_locks(t) ==
  /\ pc[t] = "all"
  /\ \E n \in 0..MaxHp :
       /\ n > hashpower \/ (Shrinks /\ n < hashpower)
       /\ target' = [target EXCEPT ![t] = n]
       /\ LET size == Smaller(kMaxNumLocks, hashsize(n)) IN
            IF all_locks[Current] < size
              THEN /\ all_locks' = Append(all_locks, size)
                   /\ held' = held \union {<<Current + 1, l, t>> : l \in 0..size - 1}
              ELSE UNCHANGED <<all_locks, held>>
  /\ Goto(t, "swap")
  /\ UNCHANGED <<hashpower, taken, hp, cont, buckets, pos, left>>

SwapBuckets(t) ==
  /\ pc[t] = "swap"
  /\ hashpower' = target[t]
  /\ Goto(t, "all")
  /\ UNCHANGED <<all_locks, held, taken, hp, cont, buckets, pos, target, left>>

(* AllUnlocker: walks from first_locked to whatever is the end of the list *)
(* when it gets there, and unlocks whatever it finds.                      *)
BeginUnlockAll(t) ==
  /\ pc[t] = "all"
  /\ pos' = [pos EXCEPT ![t] = <<cont[t], 0>>]
  /\ Goto(t, "unlockall")
  /\ UNCHANGED <<hashpower, all_locks, held, taken, hp, cont, buckets, target, left>>

UnlockAllNext(t) ==
  /\ pc[t] = "unlockall" /\ pos[t][1] <= Current
  /\ held' = Without(pos[t][1], pos[t][2])
  /\ pos' = [pos EXCEPT ![t] = Following(pos[t])]
  /\ UNCHANGED <<hashpower, all_locks, taken, pc, hp, cont, buckets, target, left>>

UnlockAllDone(t) ==
  /\ pc[t] = "unlockall" /\ pos[t][1] > Current
  /\ Goto(t, "idle")
  /\ UNCHANGED <<hashpower, all_locks, held, taken, hp, cont, buckets, pos, target, left>>

-----------------------------------------------------------------------------
Operate(t) ==
  \/ Begin(t) \/ Snapshot(t) \/ GetLocks(t) \/ LockFirst(t) \/ check_hashpower(t)
  \/ LockNext(t) \/ StartUnlock(t) \/ UnlockOne(t) \/ Return(t)
OperateAll(t) ==
  \/ BeginAll(t) \/ LockAllNext(t) \/ LockAllDone(t) \/ maybe_resize_locks(t)
  \/ SwapBuckets(t) \/ BeginUnlockAll(t) \/ UnlockAllNext(t) \/ UnlockAllDone(t)
Step(t) == Operate(t) \/ OperateAll(t)
Next == \E t \in Threads : Step(t)

Spec == Init /\ [][Next]_vars

(* A thread that can move does; an owner of all locks does not resize      *)
(* forever.                                                                *)
FairSpec ==
  /\ Spec
  /\ \A t \in Threads : WF_vars(Step(t)) /\ SF_vars(BeginUnlockAll(t))

-----------------------------------------------------------------------------
PC == {"idle", "snapshot", "locks", "first", "check", "rest", "unlock",
       "lockall", "all", "swap", "unlockall"}

(* Every variable keeps to its type; a lock that is held exists.           *)
TypeOK ==
  /\ hashpower \in 0..MaxHp
  /\ all_locks \in Seq(Nat) /\ Current >= 1
  /\ held \subseteq Nat \X Nat \X Threads
  /\ \A h \in held : h[1] \in 1..Current /\ h[2] < all_locks[h[1]]
  /\ taken \in [Threads -> SUBSET Nat]
  /\ pc \in [Threads -> PC]
  /\ hp \in [Threads -> 0..MaxHp]
  /\ cont \in [Threads -> Nat]
  /\ buckets \in [Threads -> SUBSET Nat]
  /\ pos \in [Threads -> Nat \X Nat]
  /\ target \in [Threads -> 0..MaxHp]
  /\ left \in [Threads -> 0..MaxCalls]

(* Once a thread's buckets are locked they stay the right ones: until it   *)
(* unlocks, the hashpower is the one it read, no other thread works on one *)
(* of its buckets and no owner of all locks is at work                     *)
(* (snapshot_and_lock_two, snapshot_and_lock_all).                         *)
Exclusion ==
  \A t \in Threads : Working(t) =>
    /\ hp[t] = hashpower
    /\ \A u \in Threads \ {t} :
         /\ Working(u) => buckets[t] \intersect buckets[u] = {}
         /\ pc[u] \notin {"all", "swap"}

(* A lock index that a thread computes from the hashpower it has read lies *)
(* inside the lock container it reads afterwards (get_current_locks): the  *)
(* container grows before the hashpower does.                              *)
IndexInContainer ==
  \A t \in Threads : pc[t] \in {"first", "check", "rest", "unlock"} =>
    \A l \in LockInds(t) : l < all_locks[cont[t]]

(* The lock a thread waits for next.                                       *)
Awaited(t) ==
  CASE pc[t] = "first" -> {<<cont[t], Min(LockInds(t))>>}
    [] pc[t] = "rest" /\ Todo(t) # {} -> {<<cont[t], Min(Todo(t))>>}
    [] pc[t] = "lockall" /\ pos[t][1] <= Current -> {pos[t]}
    [] OTHER -> {}

Before(h, w) == h[1] < w[1] \/ (h[1] = w[1] /\ h[2] < w[2])

(* Locks are taken in one order, by container and then by index, whoever   *)
(* takes them: lock_two, lock_three and snapshot_and_lock_all cannot wait  *)
(* for each other in a circle.                                             *)
LockOrder ==
  \A t \in Threads : \A w \in Awaited(t) : \A h \in Mine(t) : Before(h, w)

(* Every call returns: nobody waits for a lock forever and a changed       *)
(* hashpower restarts an operation only finitely often.                    *)
CallsReturn == \A t \in Threads : pc[t] # "idle" ~> pc[t] = "idle"
=============================================================================
