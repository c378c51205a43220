------------------------------ MODULE MapObjects ------------------------------
(***************************************************************************)
(* The life of cuckoohash_map objects: construction, copies, moves, swap   *)
(* and destruction, down to the libcuckoo_bucket_container that owns an    *)
(* array of buckets and the allocators that allocate and free it. Every    *)
(* allocation and every copy of an element may throw; moving one does not. *)
(*                                                                         *)
(* An array holds elements [b, k, live]: an element that was moved from    *)
(* still occupies its slot but is not live.                                *)
(***************************************************************************)
EXTENDS Integers, Sequences, FiniteSets, SequencesExt

CONSTANTS
  Objects, Keys,
  Allocators, Default,   \* allocator states; the state of Allocator()
  Traits,                \* the allocator's propagate_on_container_* traits, [copy, move, swap]
  Hashpowers,            \* hashpowers of new maps
  kMaxNumLocks,
  Null, NoObject, Unspecified

VARIABLES
  obj,      \* every object, NoObject when there is none
  array,    \* the arrays of buckets on the heap
  traits,   \* one of Traits
  freed     \* the allocator that allocated the last array freed, and the one that freed it

vars == <<obj, array, traits, freed>>

hashsize(p) == 2 ^ p

(* An element of an array, an array, an object.                            *)
Element == [b : Nat, k : Keys, live : BOOLEAN]
Array == [by : Allocators, es : SUBSET Element]
Object == [alloc : Allocators, balloc : Allocators, hp : Hashpowers,
           buckets : Nat \union {Null}, all_locks : Seq(Seq(Nat))]

ASSUME ObjectsAssumption ==
  /\ IsFiniteSet(Keys)
  /\ Default \in Allocators
  /\ Traits \subseteq [copy : BOOLEAN, move : BOOLEAN, swap : BOOLEAN]
  /\ \A hp \in Hashpowers : hashsize(hp) \in Nat \ {0}
  /\ kMaxNumLocks \in Nat \ {0}
  /\ Null \notin Nat
  /\ NoObject \notin Object
  /\ \A K \in SUBSET Keys : K \notin {NoObject, Unspecified}
  /\ NoObject # Unspecified

Locks(hp) == [l \in 1..(IF hashsize(hp) < kMaxNumLocks THEN hashsize(hp) ELSE kMaxNumLocks) |-> 0]
Lock(b) == (b % kMaxNumLocks) + 1
Alive(o) == obj[o] # NoObject
Arr(o) == IF obj[o].buckets = Null THEN {} ELSE array[obj[o].buckets].es

Init ==
  /\ obj = [o \in Objects |-> NoObject]
  /\ array = <<>>
  /\ traits \in Traits
  /\ freed = [by |-> Default, with |-> Default]

(* The heap: an array is [by, es]; ids are never reused for a live array.  *)
Unused(A) == CHOOSE i \in 1..Cardinality(DOMAIN A) + 1 : i \notin DOMAIN A
Allocated(A, a, es) ==
  [i \in DOMAIN A \union {Unused(A)} |-> IF i = Unused(A) THEN [by |-> a, es |-> es] ELSE A[i]]
Without(A, i) == [j \in DOMAIN A \ {i} |-> A[j]]

(* destroy_buckets, with the bucket allocator.                             *)
Destroyed(o) == IF obj[o].buckets = Null THEN array ELSE Without(array, obj[o].buckets)
Freed(o) == IF obj[o].buckets = Null THEN freed
            ELSE [by |-> array[obj[o].buckets].by, with |-> obj[o].balloc]

(* transfer: a new array with the elements copied, or moved away.          *)
MovedAway(es) == {[e EXCEPT !.live = FALSE] : e \in es}
Emptied(A, i) == [A EXCEPT ![i].es = MovedAway(@)]

(* The program uses, copies and moves objects that hold a value: not moved *)
(* from, by a constructor that threw either, and no assignment to it has   *)
(* thrown since.                                                           *)
Usable(o) ==
  /\ Alive(o) /\ obj[o].buckets # Null /\ obj[o].all_locks # <<>>
  /\ \A e \in Arr(o) : e.live
  /\ Len(Last(obj[o].all_locks)) >= Len(Locks(obj[o].hp))
  /\ \A l \in DOMAIN Last(obj[o].all_locks) :
       Last(obj[o].all_locks)[l] = Cardinality({e \in Arr(o) : Lock(e.b) = l})

Free(o) == ~Alive(o)

New(a, hp, i, locks) == [alloc |-> a, balloc |-> a, hp |-> hp, buckets |-> i, all_locks |-> locks]
Becomes(o, r) == obj' = [obj EXCEPT ![o] = r]

-----------------------------------------------------------------------------
Construct(o, hp, a) ==
  /\ Free(o)
  /\ array' = Allocated(array, a, {})
  /\ Becomes(o, New(a, hp, Unused(array), <<Locks(hp)>>))
  /\ UNCHANGED <<traits, freed>>

(* The copy constructor, with the allocator it is given or the one that    *)
(* select_on_container_copy_construction returns.                          *)
CopyConstruct(o, s, a) ==
  /\ Free(o) /\ Usable(s)
  /\ array' = Allocated(array, a, Arr(s))
  /\ LET locks == obj[s].all_locks IN
       Becomes(o, New(a, obj[s].hp, Unused(array),
                      IF a = obj[s].alloc THEN locks ELSE <<Last(locks)>>))
  /\ UNCHANGED <<traits, freed>>

(* The move constructor with an allocator: with an equal one it takes the  *)
(* array and the locks, otherwise every element moves.                     *)
MoveConstruct(o, s, a) ==
  /\ Free(o) /\ Usable(s)
  /\ IF a = obj[s].alloc
       THEN /\ obj' = [obj EXCEPT ![o] = New(a, obj[s].hp, obj[s].buckets, obj[s].all_locks),
                                  ![s].buckets = Null, ![s].all_locks = <<>>]
            /\ UNCHANGED array
       ELSE /\ array' = Allocated(Emptied(array, obj[s].buckets), a, Arr(s))
            /\ Becomes(o, New(a, obj[s].hp, Unused(array), <<Last(obj[s].all_locks)>>))
  /\ UNCHANGED <<traits, freed>>

(* A constructor that throws once its container has an array, because an   *)
(* element cannot be copied or the locks not allocated: the container that *)
(* is complete frees its array, and there is no object.                    *)
ConstructThrows(o, a) ==
  /\ Free(o)
  /\ freed' = [by |-> a, with |-> a]
  /\ UNCHANGED <<obj, array, traits>>

(* The move constructor with an unequal allocator throws in                *)
(* add_locks_from_other, when the elements have moved already: the new     *)
(* array is freed with them, the source keeps what they moved from.        *)
MoveConstructThrows(o, s, a) ==
  /\ Free(o) /\ Usable(s) /\ a # obj[s].alloc
  /\ array' = Emptied(array, obj[s].buckets)
  /\ freed' = [by |-> a, with |-> a]
  /\ UNCHANGED <<obj, traits>>

\* Mutant: the container's allocator is not copied to its bucket allocator.
CopyAssigned_OneAllocator(o, s) ==
  [obj[o] EXCEPT !.alloc = IF traits.copy THEN obj[s].alloc ELSE @, !.hp = obj[s].hp]

(* Copy assignment destroys the old array before it copies. If the copy    *)
(* throws, the object has no array; if copying the locks throws, it has    *)
(* the new array with its old locks.                                       *)
CopyAssigned(o, s) ==
  LET a == IF traits.copy THEN obj[s].alloc ELSE obj[o].alloc IN
  [obj[o] EXCEPT !.alloc = a, !.balloc = a, !.hp = obj[s].hp]
CopyAssign(o, s) ==
  LET r == CopyAssigned(o, s)
      A == Destroyed(o)
  IN
  /\ o # s /\ Alive(o) /\ Usable(s)
  /\ freed' = Freed(o)
  /\ \/ array' = A /\ Becomes(o, [r EXCEPT !.buckets = Null])
     \/ /\ array' = Allocated(A, r.alloc, Arr(s))
        /\ \/ Becomes(o, [r EXCEPT !.buckets = Unused(A)])
           \/ Becomes(o, [r EXCEPT !.buckets = Unused(A), !.all_locks = obj[s].all_locks])
  /\ UNCHANGED traits

(* Move assignment. Without propagation and with unequal allocators the    *)
(* elements move one by one, and so do the lock containers: the source     *)
(* keeps a list of empty ones. The transfer, and the move of the list, may *)
(* throw.                                                                  *)
MoveAssign(o, s) ==
  LET a == IF traits.move THEN obj[s].alloc ELSE obj[o].alloc
      r == [obj[o] EXCEPT !.alloc = a, !.balloc = IF traits.move THEN a ELSE @, !.hp = obj[s].hp]
      A == Destroyed(o)
  IN
  /\ o # s /\ Alive(o) /\ Usable(s)
  /\ freed' = Freed(o)
  /\ IF a = obj[s].alloc
       THEN /\ array' = A
            /\ obj' = [obj EXCEPT ![o] = [r EXCEPT !.buckets = obj[s].buckets,
                                                   !.all_locks = obj[s].all_locks],
                                  ![s].buckets = Null, ![s].all_locks = <<>>]
       ELSE \/ array' = A /\ Becomes(o, [r EXCEPT !.buckets = Null])
            \/ /\ array' = Allocated(Emptied(A, obj[s].buckets), a, Arr(s))
               /\ Becomes(o, [r EXCEPT !.buckets = Unused(A)])
            \/ /\ array' = Allocated(Emptied(A, obj[s].buckets), a, Arr(s))
               /\ obj' = [obj EXCEPT ![o] = [r EXCEPT !.buckets = Unused(A),
                                                      !.all_locks = obj[s].all_locks],
                                     ![s].all_locks = [i \in DOMAIN @ |-> <<>>]]
  /\ UNCHANGED traits

\* Mutant: the hashpowers do not change places.
SwapBuckets_KeepsSizes(x, y) == <<[x EXCEPT !.buckets = y.buckets], [y EXCEPT !.buckets = x.buckets]>>

\* Mutant: only this container gets the other's array.
SwapBuckets_OneSided(x, y) == <<[x EXCEPT !.hp = y.hp, !.buckets = y.buckets], y>>

(* swap of the bucket containers: the allocators change places if they     *)
(* propagate, but only this container's bucket allocator follows. Without  *)
(* propagation the allocators must be equal.                               *)
SwapBuckets(x, y) ==
  LET x2 == [x EXCEPT !.alloc = IF traits.swap THEN y.alloc ELSE @, !.hp = y.hp, !.buckets = y.buckets] IN
  <<[x2 EXCEPT !.balloc = x2.alloc],
    [y EXCEPT !.alloc = IF traits.swap THEN x.alloc ELSE @, !.hp = x.hp, !.buckets = x.buckets]>>
Swap(o, s) ==
  /\ o # s /\ Alive(o) /\ Alive(s)
  /\ traits.swap \/ obj[o].alloc = obj[s].alloc
  /\ LET xy == SwapBuckets(obj[o], obj[s]) IN
       obj' = [obj EXCEPT ![o] = [xy[1] EXCEPT !.all_locks = obj[s].all_locks],
                          ![s] = [xy[2] EXCEPT !.all_locks = obj[o].all_locks]]
  /\ UNCHANGED <<array, traits, freed>>

Destroy(o) ==
  /\ Alive(o)
  /\ array' = Destroyed(o) /\ freed' = Freed(o)
  /\ Becomes(o, NoObject)
  /\ UNCHANGED traits

-----------------------------------------------------------------------------
WithElements(o, es) ==
  /\ array' = [array EXCEPT ![obj[o].buckets].es = es]
  /\ LET locks == obj[o].all_locks IN
       Becomes(o, [obj[o] EXCEPT !.all_locks[Len(locks)] =
         [l \in DOMAIN @ |-> Cardinality({e \in es : Lock(e.b) = l})]])
  /\ UNCHANGED <<traits, freed>>
Insert(o, k) ==
  /\ Usable(o) /\ \A e \in Arr(o) : e.k # k
  /\ \E b \in 0..hashsize(obj[o].hp) - 1 : WithElements(o, Arr(o) \union {[b |-> b, k |-> k, live |-> TRUE]})
Erase(o, k) == Usable(o) /\ WithElements(o, {e \in Arr(o) : e.k # k})

(* Assigning an initializer list clears, then inserts.                     *)
AssignList(o, K) ==
  /\ Usable(o)
  /\ \E home \in [K -> 0..hashsize(obj[o].hp) - 1] :
       WithElements(o, {[b |-> home[k], k |-> k, live |-> TRUE] : k \in K})

Next ==
  \/ \E o \in Objects, a \in Allocators, hp \in Hashpowers : Construct(o, hp, a)
  \/ \E o, s \in Objects, a \in Allocators :
       CopyConstruct(o, s, a) \/ MoveConstruct(o, s, a) \/ MoveConstructThrows(o, s, a)
  \/ \E o \in Objects, a \in Allocators : ConstructThrows(o, a)
  \/ \E o, s \in Objects : CopyAssign(o, s) \/ MoveAssign(o, s) \/ Swap(o, s)
  \/ \E o \in Objects : Destroy(o)
  \/ \E o \in Objects, k \in Keys : Insert(o, k) \/ Erase(o, k)
  \/ \E o \in Objects, K \in SUBSET Keys : AssignList(o, K)
Spec == Init /\ [][Next]_vars

-----------------------------------------------------------------------------
(* A heap is finite, and so is every array on it.                          *)
Heap(A) ==
  /\ A \in [DOMAIN A -> Array]
  /\ DOMAIN A \subseteq Nat /\ IsFiniteSet(DOMAIN A)
  /\ \A i \in DOMAIN A : IsFiniteSet(A[i].es)

(* Every variable keeps to its type.                                       *)
TypeOK ==
  /\ obj \in [Objects -> Object \union {NoObject}]
  /\ Heap(array)
  /\ traits \in Traits
  /\ freed \in [by : Allocators, with : Allocators]

(* Every array on the heap has one owner: no copy, move, swap or failed    *)
(* assignment leaks an array or gives it to two objects, both of which     *)
(* would destroy it (destroy_buckets).                                     *)
ArraysOwned ==
  \A i \in DOMAIN array : Cardinality({o \in Objects : Alive(o) /\ obj[o].buckets = i}) = 1

(* An array is freed by the allocator it came from: the bucket allocator   *)
(* "will always be copied whenever allocator_ is copied".                  *)
RightAllocator == freed.by = freed.with

(* Every object holds a value of its own.                                  *)
Value(o) ==
  IF ~Alive(o) THEN NoObject ELSE IF Usable(o) THEN {e.k : e \in Arr(o)} ELSE Unspecified
Values == INSTANCE MapValues WITH value <- [o \in Objects |-> Value(o)]
HoldsItsValue == Values!Spec
=============================================================================
