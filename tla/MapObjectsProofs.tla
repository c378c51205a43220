--------------------------- MODULE MapObjectsProofs ---------------------------
(***************************************************************************)
(* Proofs about MapObjects and TableHandles, for every set of objects,     *)
(* keys, allocators, hashpowers, maps and handles: the locks of a map have *)
(* one owner; objects keep their types; every array has one owner, through*)
(* copies, moves, swaps and assignments that an exception cuts short; with *)
(* allocators that do not propagate on swap every array is freed by the    *)
(* allocator it came from; and every object holds a value of its own.      *)
(***************************************************************************)
EXTENDS MapObjects, TableHandles, FiniteSetTheorems, SequenceTheorems, TLAPS

-----------------------------------------------------------------------------
(* The heap.                                                               *)

\* A finite heap has a free id among the first Cardinality + 1.
LEMMA UnusedIsNew ==
  ASSUME NEW A, IsFiniteSet(DOMAIN A)
  PROVE  Unused(A) \in Nat /\ Unused(A) \notin DOMAIN A
<1> DEFINE n == Cardinality(DOMAIN A)
<1>1. n \in Nat
  BY FS_CardinalityType
<1>2. \E i \in 1..n + 1 : i \notin DOMAIN A
  <2>1. SUFFICES ASSUME 1..n + 1 \subseteq DOMAIN A
                 PROVE  FALSE
    OBVIOUS
  <2>2. Cardinality(1..n + 1) <= n
    BY <2>1, FS_Subset
  <2>3. Cardinality(1..n + 1) = n + 1
    BY <1>1, FS_Interval
  <2>4. QED
    BY <1>1, <2>2, <2>3
<1>3. Unused(A) \in 1..n + 1 /\ Unused(A) \notin DOMAIN A
  BY <1>2 DEF Unused
<1>4. QED
  BY <1>1, <1>3

\* An allocation adds one array and leaves the others as they are.
LEMMA AllocatedHeap ==
  ASSUME NEW A, Heap(A), NEW a \in Allocators, NEW es \in SUBSET Element, IsFiniteSet(es)
  PROVE  /\ Heap(Allocated(A, a, es))
         /\ Unused(A) \in Nat /\ Unused(A) \notin DOMAIN A
         /\ DOMAIN Allocated(A, a, es) = DOMAIN A \union {Unused(A)}
         /\ Allocated(A, a, es)[Unused(A)] = [by |-> a, es |-> es]
         /\ \A i \in DOMAIN A : Allocated(A, a, es)[i] = A[i]
<1>1. Unused(A) \in Nat /\ Unused(A) \notin DOMAIN A
  BY UnusedIsNew DEF Heap
<1>2. IsFiniteSet(DOMAIN A \union {Unused(A)})
  BY FS_AddElement DEF Heap
<1>3. [by |-> a, es |-> es] \in Array
  BY DEF Array
<1>4. DOMAIN Allocated(A, a, es) = DOMAIN A \union {Unused(A)}
  BY DEF Allocated
<1>5. /\ Allocated(A, a, es)[Unused(A)] = [by |-> a, es |-> es]
      /\ \A i \in DOMAIN A : Allocated(A, a, es)[i] = A[i]
  BY <1>1 DEF Allocated
<1>6. Allocated(A, a, es) \in [DOMAIN A \union {Unused(A)} -> Array]
  BY <1>3 DEF Allocated, Heap
<1>7. QED
  BY <1>1, <1>2, <1>4, <1>5, <1>6 DEF Heap

\* Freeing an array leaves the others as they are.
LEMMA WithoutHeap ==
  ASSUME NEW A, Heap(A), NEW i
  PROVE  /\ Heap(Without(A, i))
         /\ DOMAIN Without(A, i) = DOMAIN A \ {i}
         /\ \A j \in DOMAIN A \ {i} : Without(A, i)[j] = A[j]
<1>1. IsFiniteSet(DOMAIN A \ {i})
  BY FS_Subset DEF Heap
<1>2. QED
  BY <1>1 DEF Heap, Without

\* Elements that moved away are as many and keep their places.
LEMMA MovedAwayElements ==
  ASSUME NEW es \in SUBSET Element, IsFiniteSet(es)
  PROVE  /\ MovedAway(es) \in SUBSET Element /\ IsFiniteSet(MovedAway(es))
         /\ \A e \in MovedAway(es) : ~e.live
         /\ MovedAway(es) = {} <=> es = {}
<1> DEFINE f == [e \in es |-> [e EXCEPT !.live = FALSE]]
<1>1. f \in Surjection(es, MovedAway(es))
  BY DEF MovedAway, Surjection
<1>2. IsFiniteSet(MovedAway(es))
  BY <1>1, FS_Surjection
<1>3. QED
  BY <1>2 DEF MovedAway, Element

LEMMA EmptiedHeap ==
  ASSUME NEW A, Heap(A), NEW i \in DOMAIN A
  PROVE  /\ Heap(Emptied(A, i))
         /\ DOMAIN Emptied(A, i) = DOMAIN A
         /\ Emptied(A, i)[i] = [by |-> A[i].by, es |-> MovedAway(A[i].es)]
         /\ \A j \in DOMAIN A \ {i} : Emptied(A, i)[j] = A[j]
<1>1. A[i] \in Array /\ A[i].es \in SUBSET Element /\ IsFiniteSet(A[i].es)
  BY DEF Heap, Array
<1>2. MovedAway(A[i].es) \in SUBSET Element /\ IsFiniteSet(MovedAway(A[i].es))
  BY <1>1, MovedAwayElements
<1>3. [A[i] EXCEPT !.es = MovedAway(A[i].es)] = [by |-> A[i].by, es |-> MovedAway(A[i].es)]
  BY <1>1 DEF Array
<1>4. [by |-> A[i].by, es |-> MovedAway(A[i].es)] \in Array
  BY <1>1, <1>2 DEF Array
<1>5. Emptied(A, i) = [A EXCEPT ![i] = [by |-> A[i].by, es |-> MovedAway(A[i].es)]]
  BY <1>3 DEF Emptied
<1>6. QED
  BY <1>2, <1>4, <1>5 DEF Heap

-----------------------------------------------------------------------------
(* The locks.                                                              *)

LEMMA LocksType ==
  ASSUME NEW hp \in Hashpowers
  PROVE  /\ Locks(hp) \in Seq(Nat) /\ Len(Locks(hp)) >= 1
         /\ DOMAIN Locks(hp) = 1..Len(Locks(hp))
         /\ \A l \in DOMAIN Locks(hp) : Locks(hp)[l] = 0
<1> DEFINE n == IF hashsize(hp) < kMaxNumLocks THEN hashsize(hp) ELSE kMaxNumLocks
<1>1. n \in Nat \ {0}
  BY ObjectsAssumption
<1>2. Locks(hp) \in [1..n -> Nat] /\ \A l \in 1..n : Locks(hp)[l] = 0
  BY DEF Locks
<1> HIDE DEF n
<1>3. Locks(hp) \in Seq(Nat)
  BY <1>1, <1>2, SeqDef
<1>4. Len(Locks(hp)) = n
  BY <1>1, <1>2, <1>3, LenProperties
<1>5. QED
  BY <1>1, <1>2, <1>3, <1>4

\* The newest container, alone or last of several.
LEMMA LastType ==
  ASSUME NEW c \in Seq(Seq(Nat)), c # <<>>
  PROVE  /\ Len(c) \in 1..Len(c) /\ Last(c) = c[Len(c)] /\ Last(c) \in Seq(Nat)
         /\ <<Last(c)>> \in Seq(Seq(Nat)) /\ <<Last(c)>> # <<>>
         /\ Last(<<Last(c)>>) = Last(c)
<1>1. Len(c) \in Nat \ {0}
  BY EmptySeq
<1>2. Last(c) = c[Len(c)] /\ Last(c) \in Seq(Nat)
  BY <1>1, ElementOfSeq DEF Last
<1>3. QED
  BY <1>1, <1>2 DEF Last

LEMMA SingleContainer ==
  ASSUME NEW l \in Seq(Nat)
  PROVE  <<l>> \in Seq(Seq(Nat)) /\ <<l>> # <<>> /\ Last(<<l>>) = l
BY DEF Last

\* What remains of the locks when the list was copied and its containers moved.
Hollow(c) == [i \in DOMAIN c |-> <<>>]
LEMMA HollowLocks ==
  ASSUME NEW c \in Seq(Seq(Nat)), c # <<>>
  PROVE  Hollow(c) \in Seq(Seq(Nat)) /\ Len(Last(Hollow(c))) = 0
<1>1. Len(c) \in Nat \ {0} /\ DOMAIN c = 1..Len(c)
  BY EmptySeq, LenProperties
<1>2. <<>> \in Seq(Nat)
  BY EmptySeq
<1>3. Hollow(c) \in [1..Len(c) -> Seq(Nat)]
  BY <1>1, <1>2 DEF Hollow
<1>4. Hollow(c) \in Seq(Seq(Nat))
  BY <1>1, <1>3, SeqDef
<1>5. Len(Hollow(c)) = Len(c)
  BY <1>1, <1>3, <1>4, LenProperties
<1>6. Last(Hollow(c)) = <<>>
  BY <1>1, <1>5 DEF Last, Hollow
<1>7. QED
  BY <1>4, <1>6, EmptySeq

\* The counters of the newest container once it counts the elements es.
Counted(c, es) ==
  [c EXCEPT ![Len(c)] = [l \in DOMAIN @ |-> Cardinality({e \in es : Lock(e.b) = l})]]
LEMMA CountedLocks ==
  ASSUME NEW c \in Seq(Seq(Nat)), c # <<>>, NEW es, IsFiniteSet(es)
  PROVE  /\ Counted(c, es) \in Seq(Seq(Nat)) /\ Counted(c, es) # <<>>
         /\ Len(Last(Counted(c, es))) = Len(Last(c))
         /\ \A l \in DOMAIN Last(Counted(c, es)) :
              Last(Counted(c, es))[l] = Cardinality({e \in es : Lock(e.b) = l})
<1> DEFINE n == Len(c)
           x == [l \in DOMAIN c[n] |-> Cardinality({e \in es : Lock(e.b) = l})]
<1>1. n \in Nat \ {0} /\ c[n] \in Seq(Nat) /\ Last(c) = c[n]
  BY LastType, EmptySeq
<1>2. Len(c[n]) \in Nat /\ DOMAIN c[n] = 1..Len(c[n])
  BY <1>1, LenProperties
<1>3. \A l \in DOMAIN c[n] : Cardinality({e \in es : Lock(e.b) = l}) \in Nat
  <2>1. TAKE l \in DOMAIN c[n]
  <2>2. {e \in es : Lock(e.b) = l} \in SUBSET es
    OBVIOUS
  <2>3. QED
    BY <2>2, FS_Subset, FS_CardinalityType
<1>4. x \in [1..Len(c[n]) -> Nat]
  BY <1>2, <1>3
<1>5. Counted(c, es) = [c EXCEPT ![n] = x]
  BY DEF Counted
<1> HIDE DEF x
<1>6. x \in Seq(Nat) /\ Len(x) = Len(c[n])
  <2>1. PICK m \in Nat : m = Len(c[n])
    BY <1>2
  <2>2. x \in [1..m -> Nat]
    BY <1>4, <2>1
  <2>3. x \in Seq(Nat)
    BY <2>2, SeqDef
  <2>4. Len(x) = m
    BY <2>2, <2>3, LenProperties
  <2>5. QED
    BY <2>1, <2>3, <2>4
<1>7. /\ [c EXCEPT ![n] = x] \in Seq(Seq(Nat))
      /\ Len([c EXCEPT ![n] = x]) = n
      /\ [c EXCEPT ![n] = x][n] = x
  <2>1. n \in 1..Len(c)
    BY <1>1
  <2>2. QED
    BY <1>6, <2>1, ExceptSeq
<1>8. Last(Counted(c, es)) = x
  BY <1>5, <1>7 DEF Last
<1>9. Counted(c, es) # <<>>
  BY <1>1, <1>5, <1>7, EmptySeq
<1>10. QED
  BY <1>1, <1>5, <1>6, <1>7, <1>8, <1>9 DEF x

-----------------------------------------------------------------------------
(* The objects.                                                            *)

Fields(r, al, ba, hp, bu, lo) ==
  /\ r \in Object
  /\ r.alloc = al /\ r.balloc = ba /\ r.hp = hp /\ r.buckets = bu /\ r.all_locks = lo

\* What the assignments to several fields of an object make of it.
LEMMA Written ==
  ASSUME NEW r \in Object, NEW al \in Allocators, NEW ba \in Allocators, NEW hp \in Hashpowers,
         NEW bu \in Nat \union {Null}, NEW lo \in Seq(Seq(Nat))
  PROVE  /\ r # NoObject
         /\ Fields([alloc |-> al, balloc |-> ba, hp |-> hp, buckets |-> bu, all_locks |-> lo],
                   al, ba, hp, bu, lo)
         /\ Fields([r EXCEPT !.alloc = al, !.balloc = ba, !.hp = hp],
                   al, ba, hp, r.buckets, r.all_locks)
         /\ Fields([r EXCEPT !.buckets = bu], r.alloc, r.balloc, r.hp, bu, r.all_locks)
         /\ Fields([r EXCEPT !.all_locks = lo], r.alloc, r.balloc, r.hp, r.buckets, lo)
         /\ Fields([r EXCEPT !.balloc = ba], r.alloc, ba, r.hp, r.buckets, r.all_locks)
         /\ Fields([r EXCEPT !.buckets = bu, !.all_locks = lo],
                   r.alloc, r.balloc, r.hp, bu, lo)
         /\ Fields([r EXCEPT !.alloc = al, !.hp = hp, !.buckets = bu],
                   al, r.balloc, hp, bu, r.all_locks)
<1> USE DEF Object, Fields
<1>1. r # NoObject
  BY ObjectsAssumption
<1>2. Fields([alloc |-> al, balloc |-> ba, hp |-> hp, buckets |-> bu, all_locks |-> lo],
             al, ba, hp, bu, lo)
  OBVIOUS
<1>3. Fields([r EXCEPT !.alloc = al, !.balloc = ba, !.hp = hp],
             al, ba, hp, r.buckets, r.all_locks)
  OBVIOUS
<1>4. Fields([r EXCEPT !.buckets = bu], r.alloc, r.balloc, r.hp, bu, r.all_locks)
  OBVIOUS
<1>5. Fields([r EXCEPT !.all_locks = lo], r.alloc, r.balloc, r.hp, r.buckets, lo)
  OBVIOUS
<1>6. Fields([r EXCEPT !.balloc = ba], r.alloc, ba, r.hp, r.buckets, r.all_locks)
  OBVIOUS
<1>7. Fields([r EXCEPT !.buckets = bu, !.all_locks = lo], r.alloc, r.balloc, r.hp, bu, lo)
  OBVIOUS
<1>8. Fields([r EXCEPT !.alloc = al, !.hp = hp, !.buckets = bu],
             al, r.balloc, hp, bu, r.all_locks)
  OBVIOUS
<1> HIDE DEF Object, Fields
<1>9. QED
  BY <1>1, <1>2, <1>3, <1>4, <1>5, <1>6, <1>7, <1>8
-----------------------------------------------------------------------------
(* Every array has one owner. The array an object has, Null when there is  *)
(* none, is an injection of the objects that have one onto the heap.       *)
Held(o) == IF Alive(o) THEN obj[o].buckets ELSE Null
Owners ==
  /\ \A o \in Objects : Held(o) \in DOMAIN array \union {Null}
  /\ \A i \in DOMAIN array : \E o \in Objects : Held(o) = i
  /\ \A o, s \in Objects : Held(o) = Held(s) /\ Held(o) # Null => o = s

\* An object gives up what it had and owns a new array.
LEMMA NewArray ==
  ASSUME Owners, NEW o \in Objects, NEW n, n # Null, n \notin DOMAIN array \ {Held(o)},
         Held(o)' = n, \A x \in Objects \ {o} : Held(x)' = Held(x),
         DOMAIN array' = (DOMAIN array \ {Held(o)}) \union {n}
  PROVE  Owners'
<1>1. \A x \in Objects \ {o} : Held(x)' \in (DOMAIN array \ {Held(o)}) \union {Null}
  BY DEF Owners
<1>2. \A i \in DOMAIN array \ {Held(o)} : \E x \in Objects : Held(x)' = i
  BY DEF Owners
<1>3. \A x \in Objects \ {o} : Held(x)' # n
  BY <1>1
<1> HIDE DEF Held
<1>4. QED
  BY <1>1, <1>2, <1>3 DEF Owners

\* An object gives up what it had.
LEMMA NoArray ==
  ASSUME Owners, NEW o \in Objects,
         Held(o)' = Null, \A x \in Objects \ {o} : Held(x)' = Held(x),
         DOMAIN array' = DOMAIN array \ {Held(o)}
  PROVE  Owners'
BY DEF Owners

\* An object gives up what it had and takes another one's array.
LEMMA TakenArray ==
  ASSUME Owners, NEW o \in Objects, NEW s \in Objects, o # s,
         Held(o)' = Held(s), Held(s)' = Null, \A x \in Objects \ {o, s} : Held(x)' = Held(x),
         Held(s) # Null, DOMAIN array' = DOMAIN array \ {Held(o)}
  PROVE  Owners'
<1>1. \A x \in Objects \ {o, s} : Held(x) = Held(o) => Held(x) = Null
  BY DEF Owners
<1>2. Held(s) \in DOMAIN array \ {Held(o)}
  BY DEF Owners
<1>3. \A i \in DOMAIN array \ {Held(o)} : \E x \in Objects : Held(x)' = i
  BY DEF Owners
<1>4. \A x \in Objects : Held(x)' \in (DOMAIN array \ {Held(o)}) \union {Null}
  BY <1>1, <1>2 DEF Owners
<1>5. ASSUME NEW x \in Objects, NEW y \in Objects, Held(x)' = Held(y)', Held(x)' # Null
      PROVE  x = y
  BY <1>5 DEF Owners
<1>6. QED
  BY <1>3, <1>4, <1>5 DEF Owners

LEMMA SwappedArrays ==
  ASSUME Owners, NEW o \in Objects, NEW s \in Objects, o # s,
         Held(o)' = Held(s), Held(s)' = Held(o), \A x \in Objects \ {o, s} : Held(x)' = Held(x),
         DOMAIN array' = DOMAIN array
  PROVE  Owners'
<1>1. \A i \in DOMAIN array : \E x \in Objects : Held(x)' = i
  BY DEF Owners
<1>2. ASSUME NEW x \in Objects, NEW y \in Objects, Held(x)' = Held(y)', Held(x)' # Null
      PROVE  x = y
  BY <1>2 DEF Owners
<1>3. \A x \in Objects : Held(x)' \in DOMAIN array \union {Null}
  BY DEF Owners
<1>4. QED
  BY <1>1, <1>2, <1>3 DEF Owners

LEMMA SameArrays ==
  ASSUME Owners, \A x \in Objects : Held(x)' = Held(x), DOMAIN array' = DOMAIN array
  PROVE  Owners'
BY DEF Owners

-----------------------------------------------------------------------------
(* What every action makes of the objects and of the heap.                 *)
Changes(S) ==
  /\ obj' \in [Objects -> Object \union {NoObject}]
  /\ \A x \in Objects \ S : obj'[x] = obj[x]

LEMMA AliveObject ==
  ASSUME TypeOK, NEW o \in Objects, Alive(o)
  PROVE  /\ obj[o] \in Object /\ Held(o) = obj[o].buckets
         /\ obj[o].alloc \in Allocators /\ obj[o].balloc \in Allocators
         /\ obj[o].hp \in Hashpowers /\ obj[o].buckets \in Nat \union {Null}
         /\ obj[o].all_locks \in Seq(Seq(Nat))
<1>1. obj[o] \in Object
  BY DEF TypeOK, Alive
<1>2. QED
  BY <1>1 DEF Held, Object

LEMMA UsableObject ==
  ASSUME TypeOK, Owners, NEW s \in Objects, Usable(s)
  PROVE  /\ Alive(s) /\ Held(s) \in DOMAIN array /\ Held(s) # Null
         /\ Arr(s) = array[Held(s)].es /\ Arr(s) \in SUBSET Element /\ IsFiniteSet(Arr(s))
         /\ obj[s].all_locks # <<>>
<1>1. Held(s) = obj[s].buckets
  BY AliveObject DEF Usable
<1>2. Held(s) \in DOMAIN array
  BY <1>1 DEF Owners, Usable
<1>3. array[Held(s)] \in Array /\ IsFiniteSet(array[Held(s)].es)
  BY <1>2 DEF TypeOK, Heap
<1>4. QED
  BY <1>1, <1>2, <1>3 DEF Usable, Arr, Array

LEMMA DestroyedHeap ==
  ASSUME TypeOK, Owners, NEW o \in Objects, Alive(o)
  PROVE  /\ Heap(Destroyed(o)) /\ DOMAIN Destroyed(o) = DOMAIN array \ {Held(o)}
         /\ \A i \in DOMAIN Destroyed(o) : Destroyed(o)[i] = array[i]
<1>1. Held(o) = obj[o].buckets
  BY AliveObject
<1>2. CASE Held(o) = Null
  <2>1. Destroyed(o) = array /\ Null \notin DOMAIN array
    BY <1>1, <1>2, ObjectsAssumption DEF Destroyed, TypeOK, Heap
  <2>2. QED
    BY <1>2, <2>1 DEF TypeOK
<1>3. CASE Held(o) # Null
  <2>1. Destroyed(o) = Without(array, Held(o)) /\ Heap(array)
    BY <1>1, <1>3 DEF Destroyed, TypeOK
  <2>2. /\ Heap(Without(array, Held(o)))
        /\ DOMAIN Without(array, Held(o)) = DOMAIN array \ {Held(o)}
        /\ \A i \in DOMAIN array \ {Held(o)} : Without(array, Held(o))[i] = array[i]
    BY <2>1, WithoutHeap
  <2>3. QED
    BY <2>1, <2>2
<1>4. QED
  BY <1>2, <1>3

LEMMA SameIds ==
  ASSUME NEW A, NEW B, DOMAIN A = DOMAIN B
  PROVE  Unused(A) = Unused(B)
<1> DEFINE U(D) == CHOOSE i \in 1..Cardinality(D) + 1 : i \notin D
<1>1. Unused(A) = U(DOMAIN A) /\ Unused(B) = U(DOMAIN B)
  BY DEF Unused
<1> HIDE DEF U
<1>2. QED
  BY <1>1

LEMMA ConstructShape ==
  ASSUME TypeOK, Owners, NEW o \in Objects, NEW hp \in Hashpowers, NEW a \in Allocators,
         Construct(o, hp, a)
  PROVE  /\ Held(o) = Null /\ Changes({o})
         /\ Fields(obj'[o], a, a, hp, Unused(array), <<Locks(hp)>>)
         /\ array' = Allocated(array, a, {})
<1>1. Unused(array) \in Nat
  BY UnusedIsNew DEF TypeOK, Heap
<1>2. <<Locks(hp)>> \in Seq(Seq(Nat))
  BY LocksType, SingleContainer
<1>3. Fields(New(a, hp, Unused(array), <<Locks(hp)>>), a, a, hp, Unused(array), <<Locks(hp)>>)
  BY <1>1, <1>2 DEF New, Object, Fields
<1>4. obj' = [obj EXCEPT ![o] = New(a, hp, Unused(array), <<Locks(hp)>>)]
  BY DEF Construct, Becomes
<1> HIDE DEF New
<1>5. QED
  BY <1>3, <1>4 DEF Construct, Changes, Fields, Held, Free, TypeOK

LEMMA CopyConstructShape ==
  ASSUME TypeOK, Owners, NEW o \in Objects, NEW s \in Objects, NEW a \in Allocators,
         CopyConstruct(o, s, a)
  PROVE  /\ Held(o) = Null /\ Usable(s) /\ o # s /\ Changes({o})
         /\ \E c \in {obj[s].all_locks, <<Last(obj[s].all_locks)>>} :
              Fields(obj'[o], a, a, obj[s].hp, Unused(array), c)
         /\ array' = Allocated(array, a, Arr(s))
<1>1. Unused(array) \in Nat
  BY UnusedIsNew DEF TypeOK, Heap
<1>2. Usable(s) /\ Free(o) /\ o # s
  BY DEF CopyConstruct, Usable, Free
<1>3. PICK c : /\ c = IF a = obj[s].alloc THEN obj[s].all_locks ELSE <<Last(obj[s].all_locks)>>
  OBVIOUS
<1>4. c \in Seq(Seq(Nat)) /\ obj[s].hp \in Hashpowers
  BY <1>2, <1>3, AliveObject, UsableObject, LastType
<1>5. Fields(New(a, obj[s].hp, Unused(array), c), a, a, obj[s].hp, Unused(array), c)
  BY <1>1, <1>4 DEF New, Object, Fields
<1>6. obj' = [obj EXCEPT ![o] = New(a, obj[s].hp, Unused(array), c)]
  BY <1>3 DEF CopyConstruct, Becomes
<1>7. Fields(obj'[o], a, a, obj[s].hp, Unused(array), c) /\ Changes({o})
  BY <1>5, <1>6 DEF Changes, Fields, TypeOK
<1>8. QED
  BY <1>2, <1>3, <1>7 DEF CopyConstruct, Held, Free

LEMMA MoveConstructShape ==
  ASSUME TypeOK, Owners, NEW o \in Objects, NEW s \in Objects, NEW a \in Allocators,
         MoveConstruct(o, s, a)
  PROVE  /\ Held(o) = Null /\ Usable(s) /\ o # s
         /\ \/ /\ Changes({o, s}) /\ array' = array /\ a = obj[s].alloc
               /\ Fields(obj'[o], a, a, obj[s].hp, obj[s].buckets, obj[s].all_locks)
               /\ Fields(obj'[s], obj[s].alloc, obj[s].balloc, obj[s].hp, Null, <<>>)
            \/ /\ Changes({o})
               /\ Fields(obj'[o], a, a, obj[s].hp, Unused(array), <<Last(obj[s].all_locks)>>)
               /\ array' = Allocated(Emptied(array, Held(s)), a, Arr(s))
               /\ Unused(array) = Unused(Emptied(array, Held(s)))
<1>1. Usable(s) /\ Free(o) /\ o # s
  BY DEF MoveConstruct, Usable, Free
<1>2. CASE a = obj[s].alloc
  <2>1. Fields(New(a, obj[s].hp, obj[s].buckets, obj[s].all_locks),
               a, a, obj[s].hp, obj[s].buckets, obj[s].all_locks)
    BY <1>1, AliveObject, UsableObject DEF New, Object, Fields
  <2>2. Fields([obj[s] EXCEPT !.buckets = Null, !.all_locks = <<>>],
               obj[s].alloc, obj[s].balloc, obj[s].hp, Null, <<>>)
    <3>1. <<>> \in Seq(Seq(Nat))
      OBVIOUS
    <3>2. obj[s] \in Object /\ obj[s].alloc \in Allocators /\ obj[s].balloc \in Allocators /\ obj[s].hp \in Hashpowers
      BY <1>1, AliveObject, UsableObject
    <3>3. QED
      BY <3>1, <3>2, Written
  <2>3. obj' = [obj EXCEPT ![o] = New(a, obj[s].hp, obj[s].buckets, obj[s].all_locks),
                           ![s] = [obj[s] EXCEPT !.buckets = Null, !.all_locks = <<>>]]
    BY <1>1, <1>2 DEF MoveConstruct, TypeOK
  <2>4. /\ Changes({o, s})
        /\ obj'[o] = New(a, obj[s].hp, obj[s].buckets, obj[s].all_locks)
        /\ obj'[s] = [obj[s] EXCEPT !.buckets = Null, !.all_locks = <<>>]
    BY <1>1, <2>1, <2>2, <2>3 DEF Changes, Fields, TypeOK
  <2>5. QED
    BY <1>1, <1>2, <2>1, <2>2, <2>4 DEF MoveConstruct, Held, Free
<1>3. CASE a # obj[s].alloc
  <2>1. Unused(array) \in Nat
    BY UnusedIsNew DEF TypeOK, Heap
  <2>2. <<Last(obj[s].all_locks)>> \in Seq(Seq(Nat)) /\ obj[s].hp \in Hashpowers
    BY <1>1, AliveObject, UsableObject, LastType
  <2>3. Fields(New(a, obj[s].hp, Unused(array), <<Last(obj[s].all_locks)>>),
               a, a, obj[s].hp, Unused(array), <<Last(obj[s].all_locks)>>)
    BY <2>1, <2>2 DEF New, Object, Fields
  <2>4. obj' = [obj EXCEPT ![o] = New(a, obj[s].hp, Unused(array), <<Last(obj[s].all_locks)>>)]
    BY <1>3 DEF MoveConstruct, Becomes
  <2>5. Changes({o}) /\ Fields(obj'[o], a, a, obj[s].hp, Unused(array), <<Last(obj[s].all_locks)>>)
    BY <2>3, <2>4 DEF Changes, Fields, TypeOK
  <2>6. Held(s) = obj[s].buckets
    BY <1>1, UsableObject, AliveObject
  <2>7. Unused(array) = Unused(Emptied(array, Held(s)))
    BY SameIds DEF Emptied
  <2>8. QED
    BY <1>1, <1>3, <2>5, <2>6, <2>7 DEF MoveConstruct, Held, Free
<1>4. QED
  BY <1>2, <1>3
LEMMA CopyAssignShape ==
  ASSUME TypeOK, Owners, NEW o \in Objects, NEW s \in Objects, CopyAssign(o, s)
  PROVE  /\ Alive(o) /\ Usable(s) /\ o # s /\ Changes({o})
         /\ \E a \in Allocators : \E c \in {obj[o].all_locks, obj[s].all_locks} :
              \/ /\ array' = Destroyed(o)
                 /\ Fields(obj'[o], a, a, obj[s].hp, Null, obj[o].all_locks)
              \/ /\ array' = Allocated(Destroyed(o), a, Arr(s))
                 /\ Fields(obj'[o], a, a, obj[s].hp, Unused(Destroyed(o)), c)
<1>1. Alive(o) /\ Usable(s) /\ o # s
  BY DEF CopyAssign
<1>2. PICK n \in Nat : n = Unused(Destroyed(o))
  BY <1>1, DestroyedHeap, UnusedIsNew DEF Heap
<1>3. PICK a \in Allocators : a = IF traits.copy THEN obj[s].alloc ELSE obj[o].alloc
  BY <1>1, AliveObject, UsableObject
<1>4. PICK x \in Object, c \in Seq(Seq(Nat)), d \in Seq(Seq(Nat)), p \in Hashpowers :
        /\ x = obj[o] /\ c = obj[o].all_locks /\ d = obj[s].all_locks /\ p = obj[s].hp
        /\ x.all_locks = c
  BY <1>1, AliveObject, UsableObject
<1>5. PICK r : r = [x EXCEPT !.alloc = a, !.balloc = a, !.hp = p]
  OBVIOUS
<1>6. Fields(r, a, a, p, x.buckets, c)
  BY <1>4, <1>5 DEF Fields, Object
<1>7. /\ Fields([r EXCEPT !.buckets = Null], a, a, p, Null, c)
      /\ Fields([r EXCEPT !.buckets = n], a, a, p, n, c)
      /\ Fields([r EXCEPT !.buckets = n, !.all_locks = d], a, a, p, n, d)
  BY <1>6 DEF Fields, Object
<1>8. CopyAssigned(o, s) = r
  BY <1>3, <1>4, <1>5 DEF CopyAssigned
<1>9. \/ /\ array' = Destroyed(o)
         /\ obj' = [obj EXCEPT ![o] = [r EXCEPT !.buckets = Null]]
      \/ /\ array' = Allocated(Destroyed(o), a, Arr(s))
         /\ \/ obj' = [obj EXCEPT ![o] = [r EXCEPT !.buckets = n]]
            \/ obj' = [obj EXCEPT ![o] = [r EXCEPT !.buckets = n, !.all_locks = d]]
  BY <1>2, <1>4, <1>6, <1>8 DEF CopyAssign, Becomes, Fields
<1>10. CASE /\ array' = Destroyed(o)
            /\ obj' = [obj EXCEPT ![o] = [r EXCEPT !.buckets = Null]]
  <2>1. Changes({o}) /\ obj'[o] = [r EXCEPT !.buckets = Null]
    BY <1>7, <1>10 DEF Changes, Fields, TypeOK
  <2>2. QED
    BY <1>1, <1>4, <1>7, <1>10, <2>1
<1>11. CASE /\ array' = Allocated(Destroyed(o), a, Arr(s))
            /\ obj' = [obj EXCEPT ![o] = [r EXCEPT !.buckets = n]]
  <2>1. Changes({o}) /\ obj'[o] = [r EXCEPT !.buckets = n]
    BY <1>7, <1>11 DEF Changes, Fields, TypeOK
  <2>2. QED
    BY <1>1, <1>2, <1>4, <1>7, <1>11, <2>1
<1>12. CASE /\ array' = Allocated(Destroyed(o), a, Arr(s))
            /\ obj' = [obj EXCEPT ![o] = [r EXCEPT !.buckets = n, !.all_locks = d]]
  <2>1. Changes({o}) /\ obj'[o] = [r EXCEPT !.buckets = n, !.all_locks = d]
    BY <1>7, <1>12 DEF Changes, Fields, TypeOK
  <2>2. QED
    BY <1>1, <1>2, <1>4, <1>7, <1>12, <2>1
<1>13. QED
  BY <1>9, <1>10, <1>11, <1>12

LEMMA MoveAssignShape ==
  ASSUME TypeOK, Owners, NEW o \in Objects, NEW s \in Objects, MoveAssign(o, s)
  PROVE  /\ Alive(o) /\ Usable(s) /\ o # s
         /\ \E a, b \in Allocators :
              /\ a = IF traits.move THEN obj[s].alloc ELSE obj[o].alloc
              /\ b = IF traits.move THEN a ELSE obj[o].balloc
              /\ \/ /\ Changes({o, s}) /\ a = obj[s].alloc /\ array' = Destroyed(o)
                    /\ Fields(obj'[o], a, b, obj[s].hp, obj[s].buckets, obj[s].all_locks)
                    /\ Fields(obj'[s], obj[s].alloc, obj[s].balloc, obj[s].hp, Null, <<>>)
                 \/ /\ Changes({o}) /\ array' = Destroyed(o)
                    /\ Fields(obj'[o], a, b, obj[s].hp, Null, obj[o].all_locks)
                 \/ LET A == Emptied(Destroyed(o), Held(s)) IN
                    /\ Changes({o}) /\ array' = Allocated(A, a, Arr(s))
                    /\ Fields(obj'[o], a, b, obj[s].hp, Unused(A), obj[o].all_locks)
                 \/ LET A == Emptied(Destroyed(o), Held(s)) IN
                    /\ Changes({o, s}) /\ array' = Allocated(A, a, Arr(s))
                    /\ Fields(obj'[o], a, b, obj[s].hp, Unused(A), obj[s].all_locks)
                    /\ Fields(obj'[s], obj[s].alloc, obj[s].balloc, obj[s].hp, obj[s].buckets,
                              Hollow(obj[s].all_locks))
<1> DEFINE E == Emptied(Destroyed(o), Held(s))
<1>1. Alive(o) /\ Usable(s) /\ o # s
  BY DEF MoveAssign
<1>2. DOMAIN E = DOMAIN Destroyed(o)
  BY DEF Emptied
<1>3. PICK n \in Nat : n = Unused(Destroyed(o)) /\ n = Unused(E)
  <2>1. Unused(E) = Unused(Destroyed(o))
    BY <1>2, SameIds
  <2>2. QED
    BY <1>1, <2>1, DestroyedHeap, UnusedIsNew DEF Heap
<1>4. PICK a \in Allocators : a = IF traits.move THEN obj[s].alloc ELSE obj[o].alloc
  BY <1>1, AliveObject, UsableObject
<1>5. PICK b \in Allocators : b = IF traits.move THEN a ELSE obj[o].balloc
  BY <1>1, AliveObject, UsableObject
<1>6. PICK x \in Object, y \in Object, c \in Seq(Seq(Nat)), d \in Seq(Seq(Nat)), p \in Hashpowers :
        /\ x = obj[o] /\ y = obj[s] /\ c = obj[o].all_locks /\ d = obj[s].all_locks
        /\ p = obj[s].hp /\ x.all_locks = c
  BY <1>1, AliveObject, UsableObject
<1>7. PICK u \in Nat \union {Null}, g \in Allocators, h \in Allocators :
        /\ u = obj[s].buckets /\ u = Held(s) /\ g = obj[s].alloc /\ h = obj[s].balloc
  BY <1>1, AliveObject, UsableObject
<1>8. PICK r : r = [x EXCEPT !.alloc = a, !.balloc = b, !.hp = p]
  OBVIOUS
<1>9. Fields(r, a, b, p, x.buckets, c)
  BY <1>6, <1>8 DEF Fields, Object
<1>10. /\ Fields([r EXCEPT !.buckets = Null], a, b, p, Null, c)
       /\ Fields([r EXCEPT !.buckets = n], a, b, p, n, c)
       /\ Fields([r EXCEPT !.buckets = n, !.all_locks = d], a, b, p, n, d)
       /\ Fields([r EXCEPT !.buckets = u, !.all_locks = d], a, b, p, u, d)
  BY <1>9 DEF Fields, Object
<1>11. /\ Fields([y EXCEPT !.buckets = Null, !.all_locks = <<>>], g, h, p, Null, <<>>)
       /\ Fields([y EXCEPT !.all_locks = Hollow(d)], g, h, p, u, Hollow(d))
  <2>1. Hollow(d) \in Seq(Seq(Nat)) /\ <<>> \in Seq(Seq(Nat))
    BY <1>1, <1>6, UsableObject, HollowLocks, EmptySeq
  <2>2. QED
    BY <1>6, <1>7, <2>1, Written, ZenonT(60)
<1>12. r = [obj[o] EXCEPT !.alloc = a, !.balloc = IF traits.move THEN a ELSE @, !.hp = obj[s].hp]
  BY <1>5, <1>6, <1>8 DEF Object
<1>13. \/ /\ a = g /\ array' = Destroyed(o)
          /\ obj' = [obj EXCEPT ![o] = [r EXCEPT !.buckets = u, !.all_locks = d],
                                ![s] = [y EXCEPT !.buckets = Null, !.all_locks = <<>>]]
       \/ /\ array' = Destroyed(o)
          /\ obj' = [obj EXCEPT ![o] = [r EXCEPT !.buckets = Null]]
       \/ /\ array' = Allocated(E, a, Arr(s))
          /\ obj' = [obj EXCEPT ![o] = [r EXCEPT !.buckets = n]]
       \/ /\ array' = Allocated(E, a, Arr(s))
          /\ obj' = [obj EXCEPT ![o] = [r EXCEPT !.buckets = n, !.all_locks = d],
                                ![s] = [y EXCEPT !.all_locks = Hollow(d)]]
  <2>1. E = Emptied(Destroyed(o), obj[s].buckets)
    BY <1>7
  <2>2. CASE a = g
    <3>1. /\ array' = Destroyed(o)
          /\ obj' = [obj EXCEPT ![o] = [r EXCEPT !.buckets = u, !.all_locks = d],
                                ![s].buckets = Null, ![s].all_locks = <<>>]
      BY <1>4, <1>6, <1>7, <1>12, <2>2 DEF MoveAssign
    <3>2. QED
      BY <1>1, <1>6, <2>2, <3>1 DEF TypeOK
  <2>3. CASE a # g
    <3>1. \/ array' = Destroyed(o) /\ Becomes(o, [r EXCEPT !.buckets = Null])
          \/ /\ array' = Allocated(E, a, Arr(s))
             /\ Becomes(o, [r EXCEPT !.buckets = Unused(Destroyed(o))])
          \/ /\ array' = Allocated(E, a, Arr(s))
             /\ obj' = [obj EXCEPT ![o] = [r EXCEPT !.buckets = Unused(Destroyed(o)),
                                                    !.all_locks = obj[s].all_locks],
                                   ![s].all_locks = [i \in DOMAIN @ |-> <<>>]]
      BY <1>4, <1>7, <1>12, <2>1, <2>3 DEF MoveAssign
    <3>2. QED
      BY <1>1, <1>3, <1>6, <3>1 DEF Becomes, Hollow, TypeOK
  <2>4. QED
    BY <2>2, <2>3
<1>14. CASE /\ a = g /\ array' = Destroyed(o)
            /\ obj' = [obj EXCEPT ![o] = [r EXCEPT !.buckets = u, !.all_locks = d],
                                  ![s] = [y EXCEPT !.buckets = Null, !.all_locks = <<>>]]
  <2>1. /\ Changes({o, s}) /\ obj'[o] = [r EXCEPT !.buckets = u, !.all_locks = d]
        /\ obj'[s] = [y EXCEPT !.buckets = Null, !.all_locks = <<>>]
    BY <1>1, <1>10, <1>11, <1>14 DEF Changes, Fields, TypeOK
  <2>2. Fields(obj'[o], a, b, obj[s].hp, obj[s].buckets, obj[s].all_locks)
    BY <1>6, <1>7, <1>10, <2>1
  <2>3. Fields(obj'[s], obj[s].alloc, obj[s].balloc, obj[s].hp, Null, <<>>)
    BY <1>6, <1>7, <1>11, <2>1
  <2>4. Changes({o, s}) /\ a = obj[s].alloc /\ array' = Destroyed(o)
    BY <1>7, <1>14, <2>1
  <2>5. QED
    BY <1>1, <1>4, <1>5, <2>2, <2>3, <2>4
<1>15. CASE /\ array' = Destroyed(o)
            /\ obj' = [obj EXCEPT ![o] = [r EXCEPT !.buckets = Null]]
  <2>1. Changes({o}) /\ obj'[o] = [r EXCEPT !.buckets = Null]
    BY <1>10, <1>15 DEF Changes, Fields, TypeOK
  <2>2. QED
    BY <1>1, <1>4, <1>5, <1>6, <1>10, <1>15, <2>1
<1>16. CASE /\ array' = Allocated(E, a, Arr(s))
            /\ obj' = [obj EXCEPT ![o] = [r EXCEPT !.buckets = n]]
  <2>1. Changes({o}) /\ obj'[o] = [r EXCEPT !.buckets = n]
    BY <1>10, <1>16 DEF Changes, Fields, TypeOK
  <2>2. Fields(obj'[o], a, b, obj[s].hp, Unused(E), obj[o].all_locks)
    BY <1>3, <1>6, <1>10, <2>1
  <2>3. Changes({o}) /\ array' = Allocated(E, a, Arr(s))
    BY <1>16, <2>1
  <2>4. QED
    BY <1>1, <1>4, <1>5, <2>2, <2>3
<1>17. CASE /\ array' = Allocated(E, a, Arr(s))
            /\ obj' = [obj EXCEPT ![o] = [r EXCEPT !.buckets = n, !.all_locks = d],
                                  ![s] = [y EXCEPT !.all_locks = Hollow(d)]]
  <2>1. /\ Changes({o, s}) /\ obj'[o] = [r EXCEPT !.buckets = n, !.all_locks = d]
        /\ obj'[s] = [y EXCEPT !.all_locks = Hollow(d)]
    BY <1>1, <1>10, <1>11, <1>17 DEF Changes, Fields, TypeOK
  <2>2. Fields(obj'[o], a, b, obj[s].hp, Unused(E), obj[s].all_locks)
    BY <1>3, <1>6, <1>10, <2>1
  <2>3. Fields(obj'[s], obj[s].alloc, obj[s].balloc, obj[s].hp, obj[s].buckets, Hollow(obj[s].all_locks))
    BY <1>6, <1>7, <1>11, <2>1
  <2>4. Changes({o, s}) /\ array' = Allocated(E, a, Arr(s))
    BY <1>17, <2>1
  <2>5. QED
    BY <1>1, <1>4, <1>5, <2>2, <2>3, <2>4
<1>18. QED
  BY <1>13, <1>14, <1>15, <1>16, <1>17

LEMMA SwapShape ==
  ASSUME TypeOK, Owners, NEW o \in Objects, NEW s \in Objects, Swap(o, s)
  PROVE  /\ o # s /\ Alive(o) /\ Alive(s) /\ Changes({o, s}) /\ UNCHANGED <<array, traits, freed>>
         /\ Fields(obj'[o], obj[s].alloc, obj[s].alloc, obj[s].hp, obj[s].buckets, obj[s].all_locks)
         /\ Fields(obj'[s], obj[o].alloc, obj[s].balloc, obj[o].hp, obj[o].buckets, obj[o].all_locks)
<1>1. o # s /\ Alive(o) /\ Alive(s) /\ (traits.swap \/ obj[o].alloc = obj[s].alloc)
  BY DEF Swap
<1>2. PICK x \in Object, y \in Object : x = obj[o] /\ y = obj[s]
  BY <1>1, AliveObject
<1>3. PICK x2 : x2 = [x EXCEPT !.alloc = y.alloc, !.hp = y.hp, !.buckets = y.buckets]
  OBVIOUS
<1>4. PICK x3 : x3 = [x2 EXCEPT !.balloc = y.alloc]
  OBVIOUS
<1>5. PICK y2 : y2 = [y EXCEPT !.alloc = x.alloc, !.hp = x.hp, !.buckets = x.buckets]
  OBVIOUS
<1>6. /\ y.alloc \in Allocators /\ y.hp \in Hashpowers /\ y.buckets \in Nat \union {Null}
      /\ y.all_locks \in Seq(Seq(Nat)) /\ y.balloc \in Allocators
      /\ x.alloc \in Allocators /\ x.hp \in Hashpowers /\ x.buckets \in Nat \union {Null}
      /\ x.all_locks \in Seq(Seq(Nat))
  BY DEF Object
<1>7. Fields(x2, y.alloc, x.balloc, y.hp, y.buckets, x.all_locks)
  BY <1>3, <1>6 DEF Fields, Object
<1>8. Fields(x3, y.alloc, y.alloc, y.hp, y.buckets, x.all_locks)
  BY <1>4, <1>6, <1>7 DEF Fields, Object
<1>9. Fields([x3 EXCEPT !.all_locks = y.all_locks], y.alloc, y.alloc, y.hp, y.buckets, y.all_locks)
  BY <1>6, <1>8 DEF Fields, Object
<1>10. Fields(y2, x.alloc, y.balloc, x.hp, x.buckets, y.all_locks)
  BY <1>5, <1>6 DEF Fields, Object
<1>11. Fields([y2 EXCEPT !.all_locks = x.all_locks], x.alloc, y.balloc, x.hp, x.buckets, x.all_locks)
  BY <1>6, <1>10 DEF Fields, Object
<1>12. SwapBuckets(x, y) = <<x3, y2>>
  <2>1. x2 = [x EXCEPT !.alloc = IF traits.swap THEN y.alloc ELSE @, !.hp = y.hp, !.buckets = y.buckets]
    BY <1>1, <1>2, <1>3
  <2>2. y2 = [y EXCEPT !.alloc = IF traits.swap THEN x.alloc ELSE @, !.hp = x.hp, !.buckets = x.buckets]
    BY <1>1, <1>2, <1>5
  <2>3. x3 = [x2 EXCEPT !.balloc = x2.alloc]
    BY <1>4, <1>7 DEF Fields
  <2>4. QED
    BY <2>1, <2>2, <2>3 DEF SwapBuckets
<1>13. obj' = [obj EXCEPT ![o] = [x3 EXCEPT !.all_locks = y.all_locks],
                          ![s] = [y2 EXCEPT !.all_locks = x.all_locks]]
  BY <1>2, <1>12 DEF Swap
<1>14. /\ Changes({o, s}) /\ obj'[o] = [x3 EXCEPT !.all_locks = y.all_locks]
       /\ obj'[s] = [y2 EXCEPT !.all_locks = x.all_locks]
  BY <1>1, <1>9, <1>11, <1>13 DEF Changes, Fields, TypeOK
<1>15. QED
  BY <1>1, <1>2, <1>9, <1>11, <1>14 DEF Swap

LEMMA DestroyShape ==
  ASSUME TypeOK, Owners, NEW o \in Objects, Destroy(o)
  PROVE  Alive(o) /\ Changes({o}) /\ obj'[o] = NoObject /\ array' = Destroyed(o) /\ freed' = Freed(o)
BY DEF Destroy, Becomes, Changes, TypeOK

LEMMA ElementsShape ==
  ASSUME TypeOK, Owners, NEW o \in Objects, Usable(o), NEW es \in SUBSET Element, IsFiniteSet(es),
         WithElements(o, es)
  PROVE  /\ Changes({o}) /\ UNCHANGED <<traits, freed>>
         /\ Fields(obj'[o], obj[o].alloc, obj[o].balloc, obj[o].hp, obj[o].buckets,
                   Counted(obj[o].all_locks, es))
         /\ array' = [array EXCEPT ![Held(o)].es = es]
<1>1. PICK x \in Object, c \in Seq(Seq(Nat)) :
        x = obj[o] /\ c = obj[o].all_locks /\ x.all_locks = c /\ c # <<>>
  BY AliveObject, UsableObject
<1>2. Counted(c, es) \in Seq(Seq(Nat))
  BY <1>1, CountedLocks
<1>3. obj' = [obj EXCEPT ![o] = [x EXCEPT !.all_locks = Counted(c, es)]]
  <2>1. obj' = [obj EXCEPT ![o] = [x EXCEPT !.all_locks[Len(c)] =
                  [l \in DOMAIN @ |-> Cardinality({e \in es : Lock(e.b) = l})]]]
    BY <1>1 DEF WithElements, Becomes
  <2>2. QED
    BY <1>1, <2>1 DEF Counted
<1>4. Fields([x EXCEPT !.all_locks = Counted(c, es)], x.alloc, x.balloc, x.hp, x.buckets, Counted(c, es))
  BY <1>1, <1>2, Written DEF Object
<1>5. Changes({o}) /\ obj'[o] = [x EXCEPT !.all_locks = Counted(c, es)]
  BY <1>3, <1>4 DEF Changes, Fields, TypeOK
<1>6. Held(o) = obj[o].buckets
  BY AliveObject, UsableObject
<1>7. QED
  BY <1>1, <1>4, <1>5, <1>6 DEF WithElements

-----------------------------------------------------------------------------
(* Types and owners are preserved.                                         *)

LEMMA FreedType ==
  ASSUME TypeOK, Owners, NEW o \in Objects, Alive(o)
  PROVE  Freed(o) \in [by : Allocators, with : Allocators]
<1>1. CASE obj[o].buckets = Null
  BY <1>1 DEF Freed, TypeOK
<1>2. CASE obj[o].buckets # Null
  <2>1. obj[o].buckets \in DOMAIN array
    BY <1>2, AliveObject DEF Owners
  <2>2. array[obj[o].buckets] \in Array
    BY <2>1 DEF TypeOK, Heap
  <2>3. QED
    BY <1>2, <2>2, AliveObject DEF Freed, Array
<1>3. QED
  BY <1>1, <1>2

\* The array of another object is still there when o has given up its own.
LEMMA OtherArray ==
  ASSUME TypeOK, Owners, NEW o \in Objects, NEW s \in Objects, o # s, Usable(s)
  PROVE  Held(s) \in DOMAIN array \ {Held(o)}
BY UsableObject DEF Owners

\* The objects that a step does not change hold what they held.
LEMMA HeldKept ==
  ASSUME NEW S, Changes(S)
  PROVE  \A x \in Objects \ S : Held(x)' = Held(x)
BY DEF Changes, Held, Alive

LEMMA HeldNow ==
  ASSUME NEW o \in Objects, NEW al, NEW ba, NEW hp, NEW bu, NEW lo,
         Fields(obj'[o], al, ba, hp, bu, lo)
  PROVE  Held(o)' = bu
BY ObjectsAssumption DEF Fields, Held, Alive

LEMMA ConstructOwners ==
  ASSUME TypeOK, Owners, NEW o \in Objects, NEW hp \in Hashpowers, NEW a \in Allocators,
         Construct(o, hp, a)
  PROVE  TypeOK' /\ Owners'
<1>1. /\ Held(o) = Null /\ Changes({o})
      /\ Fields(obj'[o], a, a, hp, Unused(array), <<Locks(hp)>>)
      /\ array' = Allocated(array, a, {})
  BY ConstructShape
<1>2. Heap(array) /\ {} \in SUBSET Element /\ IsFiniteSet({})
  BY FS_EmptySet DEF TypeOK
<1>3. /\ Heap(array') /\ DOMAIN array' = DOMAIN array \union {Unused(array)}
      /\ Unused(array) \in Nat /\ Unused(array) \notin DOMAIN array
  BY <1>1, <1>2, AllocatedHeap
<1>4. TypeOK'
  BY <1>1, <1>3 DEF TypeOK, Changes, Construct
<1>5. Held(o)' = Unused(array) /\ \A x \in Objects \ {o} : Held(x)' = Held(x)
  BY <1>1, HeldNow, HeldKept
<1>6. DOMAIN array \ {Held(o)} = DOMAIN array
  BY <1>1, <1>2, ObjectsAssumption DEF Heap
<1>7. Owners'
  BY <1>3, <1>5, <1>6, NewArray, ObjectsAssumption
<1>8. QED
  BY <1>4, <1>7

LEMMA CopyConstructOwners ==
  ASSUME TypeOK, Owners, NEW o \in Objects, NEW s \in Objects, NEW a \in Allocators,
         CopyConstruct(o, s, a)
  PROVE  TypeOK' /\ Owners'
<1>1. PICK c : /\ Held(o) = Null /\ Usable(s) /\ o # s /\ Changes({o})
               /\ Fields(obj'[o], a, a, obj[s].hp, Unused(array), c)
               /\ array' = Allocated(array, a, Arr(s))
  BY CopyConstructShape
<1>2. Heap(array) /\ Arr(s) \in SUBSET Element /\ IsFiniteSet(Arr(s))
  BY <1>1, UsableObject DEF TypeOK
<1>3. /\ Heap(array') /\ DOMAIN array' = DOMAIN array \union {Unused(array)}
      /\ Unused(array) \in Nat /\ Unused(array) \notin DOMAIN array
  BY <1>1, <1>2, AllocatedHeap
<1>4. TypeOK'
  BY <1>1, <1>3 DEF TypeOK, Changes, CopyConstruct
<1>5. Held(o)' = Unused(array) /\ \A x \in Objects \ {o} : Held(x)' = Held(x)
  BY <1>1, HeldNow, HeldKept
<1>6. DOMAIN array \ {Held(o)} = DOMAIN array
  BY <1>1, <1>2, ObjectsAssumption DEF Heap
<1>7. Owners'
  BY <1>3, <1>5, <1>6, NewArray, ObjectsAssumption
<1>8. QED
  BY <1>4, <1>7

\* An array taken from the heap A that is left when o gave up its own.
LEMMA GivenArray ==
  ASSUME TypeOK, Owners, NEW o \in Objects, NEW a \in Allocators, NEW es \in SUBSET Element,
         IsFiniteSet(es), NEW A, Heap(A), DOMAIN A = DOMAIN array \ {Held(o)},
         array' = Allocated(A, a, es), Held(o)' = Unused(A),
         \A x \in Objects \ {o} : Held(x)' = Held(x)
  PROVE  Heap(array') /\ Owners'
<1>1. /\ Heap(array') /\ DOMAIN array' = DOMAIN A \union {Unused(A)}
      /\ Unused(A) \in Nat /\ Unused(A) \notin DOMAIN A
  BY AllocatedHeap
<1>2. Owners'
  BY <1>1, NewArray, ObjectsAssumption
<1>3. QED
  BY <1>1, <1>2

LEMMA MoveConstructOwners ==
  ASSUME TypeOK, Owners, NEW o \in Objects, NEW s \in Objects, NEW a \in Allocators,
         MoveConstruct(o, s, a)
  PROVE  TypeOK' /\ Owners'
<1>1. Held(o) = Null /\ Usable(s) /\ o # s /\ UNCHANGED <<traits, freed>>
  BY MoveConstructShape DEF MoveConstruct
<1>2. /\ Held(s) = obj[s].buckets /\ Held(s) \in DOMAIN array /\ Held(s) # Null
      /\ Arr(s) \in SUBSET Element /\ IsFiniteSet(Arr(s))
  BY <1>1, UsableObject, AliveObject
<1>3. DOMAIN array \ {Held(o)} = DOMAIN array
  BY <1>1, ObjectsAssumption DEF TypeOK, Heap
<1>4. CASE /\ Changes({o, s}) /\ array' = array
           /\ Fields(obj'[o], a, a, obj[s].hp, obj[s].buckets, obj[s].all_locks)
           /\ Fields(obj'[s], obj[s].alloc, obj[s].balloc, obj[s].hp, Null, <<>>)
  <2>1. TypeOK'
    BY <1>1, <1>4 DEF TypeOK, Changes
  <2>2. /\ Held(o)' = Held(s) /\ Held(s)' = Null
        /\ \A x \in Objects \ {o, s} : Held(x)' = Held(x)
    BY <1>2, <1>4, HeldNow, HeldKept
  <2>3. Owners'
    BY <1>1, <1>2, <1>3, <1>4, <2>2, TakenArray
  <2>4. QED
    BY <2>1, <2>3
<1>5. CASE /\ Changes({o})
           /\ Fields(obj'[o], a, a, obj[s].hp, Unused(array), <<Last(obj[s].all_locks)>>)
           /\ array' = Allocated(Emptied(array, Held(s)), a, Arr(s))
           /\ Unused(array) = Unused(Emptied(array, Held(s)))
  <2>1. PICK A : A = Emptied(array, Held(s))
    OBVIOUS
  <2>2. Heap(A) /\ DOMAIN A = DOMAIN array
    BY <1>2, <2>1, EmptiedHeap DEF TypeOK
  <2>3. Held(o)' = Unused(A) /\ \A x \in Objects \ {o} : Held(x)' = Held(x)
    BY <1>5, <2>1, HeldNow, HeldKept
  <2>4. Heap(array') /\ Owners'
    BY <1>2, <1>3, <1>5, <2>1, <2>2, <2>3, GivenArray
  <2>5. TypeOK'
    BY <1>1, <1>5, <2>4 DEF TypeOK, Changes
  <2>6. QED
    BY <2>4, <2>5
<1>6. QED
  BY <1>4, <1>5, MoveConstructShape

LEMMA ConstructThrowsOwners ==
  ASSUME TypeOK, Owners, NEW o \in Objects, NEW a \in Allocators, ConstructThrows(o, a)
  PROVE  TypeOK' /\ Owners'
<1>1. TypeOK'
  BY DEF TypeOK, Heap, ConstructThrows
<1>2. Owners'
  BY DEF Owners, Held, Alive, ConstructThrows
<1>3. QED
  BY <1>1, <1>2

\* The source of a move that throws keeps its array, the elements are gone.
LEMMA MoveConstructThrowsArrays ==
  ASSUME TypeOK, Owners, NEW o \in Objects, NEW s \in Objects, NEW a \in Allocators,
         MoveConstructThrows(o, s, a)
  PROVE  /\ ~Alive(o) /\ Usable(s) /\ o # s /\ obj' = obj
         /\ Held(s) \in DOMAIN array /\ Heap(array') /\ DOMAIN array' = DOMAIN array
         /\ array'[Held(s)] = [by |-> array[Held(s)].by, es |-> MovedAway(Arr(s))]
         /\ \A i \in DOMAIN array \ {Held(s)} : array'[i] = array[i]
<1>1. ~Alive(o) /\ Usable(s) /\ o # s /\ obj' = obj
  BY DEF MoveConstructThrows, Usable, Free
<1>2. Held(s) = obj[s].buckets /\ Held(s) \in DOMAIN array /\ Arr(s) = array[Held(s)].es
  BY <1>1, UsableObject, AliveObject
<1>3. array' = Emptied(array, Held(s)) /\ Heap(array)
  BY <1>2 DEF MoveConstructThrows, TypeOK
<1>4. QED
  BY <1>1, <1>2, <1>3, EmptiedHeap

LEMMA MoveConstructThrowsOwners ==
  ASSUME TypeOK, Owners, NEW o \in Objects, NEW s \in Objects, NEW a \in Allocators,
         MoveConstructThrows(o, s, a)
  PROVE  TypeOK' /\ Owners'
<1>1. obj' = obj /\ Heap(array') /\ DOMAIN array' = DOMAIN array
  BY MoveConstructThrowsArrays
<1>2. TypeOK'
  BY <1>1 DEF TypeOK, MoveConstructThrows
<1>3. \A x \in Objects : Held(x)' = Held(x)
  BY <1>1 DEF Held, Alive
<1>4. Owners'
  BY <1>1, <1>3, SameArrays
<1>5. QED
  BY <1>2, <1>4

LEMMA CopyAssignOwners ==
  ASSUME TypeOK, Owners, NEW o \in Objects, NEW s \in Objects, CopyAssign(o, s)
  PROVE  TypeOK' /\ Owners'
<1>1. Alive(o) /\ Usable(s) /\ o # s /\ Changes({o}) /\ freed' = Freed(o) /\ UNCHANGED traits
  BY CopyAssignShape DEF CopyAssign
<1>2. PICK a \in Allocators : \E c :
        \/ /\ array' = Destroyed(o)
           /\ Fields(obj'[o], a, a, obj[s].hp, Null, obj[o].all_locks)
        \/ /\ array' = Allocated(Destroyed(o), a, Arr(s))
           /\ Fields(obj'[o], a, a, obj[s].hp, Unused(Destroyed(o)), c)
  BY CopyAssignShape
<1>3. Heap(Destroyed(o)) /\ DOMAIN Destroyed(o) = DOMAIN array \ {Held(o)}
  BY <1>1, DestroyedHeap
<1>4. Freed(o) \in [by : Allocators, with : Allocators]
  BY <1>1, FreedType
<1>5. \A x \in Objects \ {o} : Held(x)' = Held(x)
  BY <1>1, HeldKept
<1>6. Heap(array') /\ Owners'
  <2>1. CASE /\ array' = Destroyed(o)
             /\ Fields(obj'[o], a, a, obj[s].hp, Null, obj[o].all_locks)
    <3>1. Held(o)' = Null
      BY <2>1, HeldNow
    <3>2. QED
      BY <1>3, <1>5, <2>1, <3>1, NoArray
  <2>2. ASSUME NEW c, array' = Allocated(Destroyed(o), a, Arr(s)),
               Fields(obj'[o], a, a, obj[s].hp, Unused(Destroyed(o)), c)
        PROVE  Heap(array') /\ Owners'
    <3>1. Held(o)' = Unused(Destroyed(o))
      BY <2>2, HeldNow
    <3>2. Arr(s) \in SUBSET Element /\ IsFiniteSet(Arr(s))
      BY <1>1, UsableObject
    <3>3. QED
      BY <1>3, <1>5, <2>2, <3>1, <3>2, GivenArray
  <2>3. QED
    BY <1>2, <2>1, <2>2
<1>7. TypeOK'
  BY <1>1, <1>4, <1>6 DEF TypeOK, Changes
<1>8. QED
  BY <1>6, <1>7

LEMMA MoveAssignOwners ==
  ASSUME TypeOK, Owners, NEW o \in Objects, NEW s \in Objects, MoveAssign(o, s)
  PROVE  TypeOK' /\ Owners'
<1> DEFINE A == Emptied(Destroyed(o), Held(s))
<1>1. Alive(o) /\ Usable(s) /\ o # s /\ freed' = Freed(o) /\ UNCHANGED traits
  BY MoveAssignShape DEF MoveAssign
<1>2. PICK a \in Allocators, b \in Allocators :
        \/ /\ Changes({o, s}) /\ array' = Destroyed(o)
           /\ Fields(obj'[o], a, b, obj[s].hp, obj[s].buckets, obj[s].all_locks)
           /\ Fields(obj'[s], obj[s].alloc, obj[s].balloc, obj[s].hp, Null, <<>>)
        \/ /\ Changes({o}) /\ array' = Destroyed(o)
           /\ Fields(obj'[o], a, b, obj[s].hp, Null, obj[o].all_locks)
        \/ /\ Changes({o}) /\ array' = Allocated(A, a, Arr(s))
           /\ Fields(obj'[o], a, b, obj[s].hp, Unused(A), obj[o].all_locks)
        \/ /\ Changes({o, s}) /\ array' = Allocated(A, a, Arr(s))
           /\ Fields(obj'[o], a, b, obj[s].hp, Unused(A), obj[s].all_locks)
           /\ Fields(obj'[s], obj[s].alloc, obj[s].balloc, obj[s].hp, obj[s].buckets,
                     Hollow(obj[s].all_locks))
  BY MoveAssignShape
<1>3. Heap(Destroyed(o)) /\ DOMAIN Destroyed(o) = DOMAIN array \ {Held(o)}
  BY <1>1, DestroyedHeap
<1>4. /\ Held(s) = obj[s].buckets /\ Held(s) \in DOMAIN Destroyed(o) /\ Held(s) # Null
      /\ Arr(s) \in SUBSET Element /\ IsFiniteSet(Arr(s))
  BY <1>1, <1>3, UsableObject, AliveObject, OtherArray
<1>5. Heap(A) /\ DOMAIN A = DOMAIN array \ {Held(o)}
  BY <1>3, <1>4, EmptiedHeap
<1>6. Freed(o) \in [by : Allocators, with : Allocators]
  BY <1>1, FreedType
<1> HIDE DEF A
<1>7. CASE /\ Changes({o, s}) /\ array' = Destroyed(o)
           /\ Fields(obj'[o], a, b, obj[s].hp, obj[s].buckets, obj[s].all_locks)
           /\ Fields(obj'[s], obj[s].alloc, obj[s].balloc, obj[s].hp, Null, <<>>)
  <2>1. /\ Held(o)' = Held(s) /\ Held(s)' = Null
        /\ \A x \in Objects \ {o, s} : Held(x)' = Held(x)
    BY <1>4, <1>7, HeldNow, HeldKept
  <2>2. Owners'
    BY <1>1, <1>3, <1>4, <1>7, <2>1, TakenArray
  <2>3. TypeOK'
    BY <1>1, <1>3, <1>6, <1>7 DEF TypeOK, Changes
  <2>4. QED
    BY <2>2, <2>3
<1>8. CASE /\ Changes({o}) /\ array' = Destroyed(o)
           /\ Fields(obj'[o], a, b, obj[s].hp, Null, obj[o].all_locks)
  <2>1. Held(o)' = Null /\ \A x \in Objects \ {o} : Held(x)' = Held(x)
    BY <1>8, HeldNow, HeldKept
  <2>2. Owners'
    BY <1>3, <1>8, <2>1, NoArray
  <2>3. TypeOK'
    BY <1>1, <1>3, <1>6, <1>8 DEF TypeOK, Changes
  <2>4. QED
    BY <2>2, <2>3
<1>9. CASE /\ Changes({o}) /\ array' = Allocated(A, a, Arr(s))
           /\ Fields(obj'[o], a, b, obj[s].hp, Unused(A), obj[o].all_locks)
  <2>1. Held(o)' = Unused(A) /\ \A x \in Objects \ {o} : Held(x)' = Held(x)
    BY <1>9, HeldNow, HeldKept
  <2>2. Heap(array') /\ Owners'
    BY <1>4, <1>5, <1>9, <2>1, GivenArray
  <2>3. TypeOK'
    BY <1>1, <1>6, <1>9, <2>2 DEF TypeOK, Changes
  <2>4. QED
    BY <2>2, <2>3
<1>10. CASE /\ Changes({o, s}) /\ array' = Allocated(A, a, Arr(s))
            /\ Fields(obj'[o], a, b, obj[s].hp, Unused(A), obj[s].all_locks)
            /\ Fields(obj'[s], obj[s].alloc, obj[s].balloc, obj[s].hp, obj[s].buckets,
                      Hollow(obj[s].all_locks))
  <2>1. Held(o)' = Unused(A) /\ \A x \in Objects \ {o} : Held(x)' = Held(x)
    BY <1>4, <1>10, HeldNow, HeldKept
  <2>2. Heap(array') /\ Owners'
    BY <1>4, <1>5, <1>10, <2>1, GivenArray
  <2>3. TypeOK'
    BY <1>1, <1>6, <1>10, <2>2 DEF TypeOK, Changes
  <2>4. QED
    BY <2>2, <2>3
<1>11. QED
  BY <1>2, <1>7, <1>8, <1>9, <1>10

LEMMA SwapOwners ==
  ASSUME TypeOK, Owners, NEW o \in Objects, NEW s \in Objects, Swap(o, s)
  PROVE  TypeOK' /\ Owners'
<1>1. /\ o # s /\ Alive(o) /\ Alive(s) /\ Changes({o, s}) /\ UNCHANGED <<array, traits, freed>>
      /\ Fields(obj'[o], obj[s].alloc, obj[s].alloc, obj[s].hp, obj[s].buckets, obj[s].all_locks)
      /\ Fields(obj'[s], obj[o].alloc, obj[s].balloc, obj[o].hp, obj[o].buckets, obj[o].all_locks)
  BY SwapShape
<1>2. Held(o) = obj[o].buckets /\ Held(s) = obj[s].buckets
  BY <1>1, AliveObject
<1>3. Held(o)' = Held(s) /\ Held(s)' = Held(o) /\ \A x \in Objects \ {o, s} : Held(x)' = Held(x)
  BY <1>1, <1>2, HeldNow, HeldKept
<1>4. Owners'
  BY <1>1, <1>3, SwappedArrays
<1>5. TypeOK'
  BY <1>1 DEF TypeOK, Changes
<1>6. QED
  BY <1>4, <1>5

LEMMA DestroyOwners ==
  ASSUME TypeOK, Owners, NEW o \in Objects, Destroy(o)
  PROVE  TypeOK' /\ Owners'
<1>1. /\ Alive(o) /\ Changes({o}) /\ obj'[o] = NoObject /\ array' = Destroyed(o)
      /\ freed' = Freed(o) /\ UNCHANGED traits
  BY DestroyShape DEF Destroy
<1>2. Heap(Destroyed(o)) /\ DOMAIN Destroyed(o) = DOMAIN array \ {Held(o)}
  BY <1>1, DestroyedHeap
<1>3. Held(o)' = Null /\ \A x \in Objects \ {o} : Held(x)' = Held(x)
  BY <1>1, HeldKept DEF Held, Alive
<1>4. Owners'
  BY <1>1, <1>2, <1>3, NoArray
<1>5. TypeOK'
  BY <1>1, <1>2, FreedType DEF TypeOK, Changes
<1>6. QED
  BY <1>4, <1>5

LEMMA ElementsOwners ==
  ASSUME TypeOK, Owners, NEW o \in Objects, Usable(o), NEW es \in SUBSET Element, IsFiniteSet(es),
         WithElements(o, es)
  PROVE  /\ TypeOK' /\ Owners'
         /\ DOMAIN array' = DOMAIN array /\ array'[Held(o)] = [by |-> array[Held(o)].by, es |-> es]
         /\ \A i \in DOMAIN array \ {Held(o)} : array'[i] = array[i]
<1>1. /\ Changes({o}) /\ UNCHANGED <<traits, freed>>
      /\ Fields(obj'[o], obj[o].alloc, obj[o].balloc, obj[o].hp, obj[o].buckets,
                Counted(obj[o].all_locks, es))
      /\ array' = [array EXCEPT ![Held(o)].es = es]
  BY ElementsShape
<1>2. Held(o) = obj[o].buckets /\ Held(o) \in DOMAIN array
  BY UsableObject, AliveObject
<1>3. PICK i \in DOMAIN array : i = Held(o)
  BY <1>2
<1>4. array[i] \in Array /\ [by |-> array[i].by, es |-> es] \in Array
  BY DEF TypeOK, Heap, Array
<1>5. array' = [array EXCEPT ![i] = [by |-> array[i].by, es |-> es]]
  <2>1. PICK x \in Array : x = array[i]
    BY <1>4
  <2>2. [x EXCEPT !.es = es] = [by |-> x.by, es |-> es]
    BY DEF Array
  <2>3. array' = [array EXCEPT ![i] = [x EXCEPT !.es = es]]
    BY <1>1, <1>3, <2>1
  <2>4. QED
    BY <2>1, <2>2, <2>3
<1>6. Heap(array') /\ DOMAIN array' = DOMAIN array
  BY <1>4, <1>5 DEF TypeOK, Heap
<1>7. TypeOK'
  BY <1>1, <1>6 DEF TypeOK, Changes
<1>8. \A x \in Objects : Held(x)' = Held(x)
  BY <1>1, <1>2, HeldNow, HeldKept
<1>9. Owners'
  BY <1>6, <1>8, SameArrays
<1>10. QED
  BY <1>3, <1>5, <1>6, <1>7, <1>9

\* Insertions, erasures and initializer lists replace the elements of one
\* object by finitely many live ones.
ElementStep(o) ==
  \/ \E k \in Keys : Insert(o, k) \/ Erase(o, k)
  \/ \E K \in SUBSET Keys : AssignList(o, K)
LEMMA ElementStepShape ==
  ASSUME TypeOK, Owners, NEW o \in Objects, ElementStep(o)
  PROVE  /\ Usable(o)
         /\ \E es \in SUBSET Element :
              IsFiniteSet(es) /\ (\A e \in es : e.live) /\ WithElements(o, es)
<1>1. Usable(o)
  BY DEF ElementStep, Insert, Erase, AssignList
<1>2. Arr(o) \in SUBSET Element /\ IsFiniteSet(Arr(o)) /\ \A e \in Arr(o) : e.live
  BY <1>1, UsableObject DEF Usable
<1>3. 0..hashsize(obj[o].hp) - 1 \subseteq Nat
  <2>1. hashsize(obj[o].hp) \in Nat
    BY <1>1, UsableObject, AliveObject, ObjectsAssumption
  <2>2. QED
    BY <2>1
<1>4. ASSUME NEW k \in Keys, Insert(o, k)
      PROVE  \E es \in SUBSET Element :
               IsFiniteSet(es) /\ (\A e \in es : e.live) /\ WithElements(o, es)
  <2>1. PICK b \in 0..hashsize(obj[o].hp) - 1 :
          WithElements(o, Arr(o) \union {[b |-> b, k |-> k, live |-> TRUE]})
    BY <1>4 DEF Insert
  <2>2. PICK e : e = [b |-> b, k |-> k, live |-> TRUE]
    OBVIOUS
  <2>3. e \in Element /\ e.live
    BY <1>3, <2>2 DEF Element
  <2>4. IsFiniteSet(Arr(o) \union {e})
    BY <1>2, FS_AddElement
  <2>5. QED
    BY <1>2, <2>1, <2>2, <2>3, <2>4
<1>5. ASSUME NEW k \in Keys, Erase(o, k)
      PROVE  \E es \in SUBSET Element :
               IsFiniteSet(es) /\ (\A e \in es : e.live) /\ WithElements(o, es)
  <2>1. WithElements(o, {e \in Arr(o) : e.k # k})
    BY <1>5 DEF Erase
  <2>2. IsFiniteSet({e \in Arr(o) : e.k # k})
    BY <1>2, FS_Subset
  <2>3. QED
    BY <1>2, <2>1, <2>2
<1>6. ASSUME NEW K \in SUBSET Keys, AssignList(o, K)
      PROVE  \E es \in SUBSET Element :
               IsFiniteSet(es) /\ (\A e \in es : e.live) /\ WithElements(o, es)
  <2>1. PICK home \in [K -> 0..hashsize(obj[o].hp) - 1] :
          WithElements(o, {[b |-> home[k], k |-> k, live |-> TRUE] : k \in K})
    BY <1>6 DEF AssignList
  <2>2. PICK es : es = {[b |-> home[k], k |-> k, live |-> TRUE] : k \in K}
    OBVIOUS
  <2>3. es \in SUBSET Element /\ \A e \in es : e.live
    <3>1. ASSUME NEW k \in K
          PROVE  /\ [b |-> home[k], k |-> k, live |-> TRUE] \in Element
                 /\ [b |-> home[k], k |-> k, live |-> TRUE].live
      <4>1. home[k] \in Nat /\ k \in Keys
        BY <1>3
      <4>2. QED
        BY <4>1 DEF Element
    <3>2. QED
      BY <2>2, <3>1
  <2>4. IsFiniteSet(es)
    <3>1. IsFiniteSet(K)
      BY ObjectsAssumption, FS_Subset
    <3>2. [k \in K |-> [b |-> home[k], k |-> k, live |-> TRUE]] \in Surjection(K, es)
      BY <2>2 DEF Surjection
    <3>3. QED
      BY <3>1, <3>2, FS_Surjection
  <2>5. QED
    BY <2>1, <2>2, <2>3, <2>4
<1>7. QED
  BY <1>1, <1>4, <1>5, <1>6 DEF ElementStep

LEMMA StepOwners ==
  ASSUME TypeOK, Owners, Next
  PROVE  TypeOK' /\ Owners'
<1>1. ASSUME NEW o \in Objects, ElementStep(o)
      PROVE  TypeOK' /\ Owners'
  BY <1>1, ElementStepShape, ElementsOwners
<1>2. QED
  BY <1>1, ConstructOwners, CopyConstructOwners, MoveConstructOwners, ConstructThrowsOwners,
     MoveConstructThrowsOwners, CopyAssignOwners, MoveAssignOwners, SwapOwners, DestroyOwners
     DEF Next, ElementStep

LEMMA InitOwners == Init => TypeOK /\ Owners
<1> SUFFICES ASSUME Init
             PROVE  TypeOK /\ Owners
  OBVIOUS
<1>1. DOMAIN array = {} /\ Heap(array)
  <2>1. array = <<>> /\ DOMAIN array = {}
    BY DEF Init
  <2>2. IsFiniteSet({})
    BY FS_EmptySet
  <2>3. array \in [DOMAIN array -> Array]
    BY <2>1
  <2>4. QED
    BY <2>1, <2>2, <2>3 DEF Heap
<1>2. TypeOK
  BY <1>1, ObjectsAssumption DEF Init, TypeOK
<1>3. Owners
  BY <1>1 DEF Init, Owners, Held, Alive
<1>4. QED
  BY <1>2, <1>3

LEMMA OwnersInvariant == Spec => [](TypeOK /\ Owners)
<1>1. TypeOK /\ Owners /\ [Next]_vars => TypeOK' /\ Owners'
  <2>1. TypeOK /\ Owners /\ UNCHANGED vars => TypeOK' /\ Owners'
    BY DEF TypeOK, Owners, Held, Alive, Heap, vars
  <2>2. QED
    BY <2>1, StepOwners
<1>2. QED
  BY <1>1, InitOwners, PTL DEF Spec

\* Objects, arrays, the traits and the allocators of a deallocation keep their
\* types: an object that is not NoObject is complete whatever threw.
THEOREM TypeCorrect == Spec => []TypeOK
BY OwnersInvariant, PTL

\* The array of every object is its own, and every array has an object that
\* will destroy it: after every constructor, assignment, swap and exception
\* (cuckoohash_map's and libcuckoo_bucket_container's special members).
THEOREM ArraysCorrect == Spec => []ArraysOwned
<1>1. TypeOK /\ Owners => ArraysOwned
  <2>1. SUFFICES ASSUME TypeOK, Owners, NEW i \in DOMAIN array
                 PROVE  Cardinality({o \in Objects : Alive(o) /\ obj[o].buckets = i}) = 1
    BY DEF ArraysOwned
  <2>2. PICK s \in Objects : Held(s) = i
    BY <2>1 DEF Owners
  <2>3. i # Null
    BY <2>1, ObjectsAssumption DEF TypeOK, Heap
  <2>4. Alive(s) /\ obj[s].buckets = i
    BY <2>2, <2>3 DEF Held
  <2>5. \A o \in Objects : Alive(o) /\ obj[o].buckets = i => o = s
    BY <2>1, <2>2, <2>3 DEF Owners, Held
  <2>6. {o \in Objects : Alive(o) /\ obj[o].buckets = i} = {s}
    BY <2>4, <2>5
  <2>7. QED
    BY <2>6, FS_Singleton
<1>2. QED
  BY <1>1, OwnersInvariant, PTL

-----------------------------------------------------------------------------
(* What every action does to the arrays.                                   *)
OthersKept(S) ==
  /\ Changes(S)
  /\ \A x \in Objects \ S : Held(x) # Null => array'[Held(x)] = array[Held(x)]

\* An array after a step.
Now(i, a, es) == array'[i].by = a /\ array'[i].es = es

\* What lies on the heap after an allocation.
LEMMA AllocatedArray ==
  ASSUME NEW A, Heap(A), NEW a \in Allocators, NEW es \in SUBSET Element, IsFiniteSet(es),
         array' = Allocated(A, a, es)
  PROVE  /\ Unused(A) \in Nat /\ Unused(A) # Null
         /\ Now(Unused(A), a, es)
         /\ \A i \in DOMAIN A : array'[i] = A[i]
<1>1. Unused(A) \in Nat /\ Unused(A) \notin DOMAIN A
  BY UnusedIsNew DEF Heap
<1>2. Now(Unused(A), a, es) /\ \A i \in DOMAIN A : array'[i] = A[i]
  BY <1>1 DEF Allocated, Now
<1>3. QED
  BY <1>1, <1>2, ObjectsAssumption

LEMMA ConstructArrays ==
  ASSUME TypeOK, Owners, NEW o \in Objects, NEW hp \in Hashpowers, NEW a \in Allocators,
         Construct(o, hp, a)
  PROVE  OthersKept({o}) /\ Unused(array) # Null /\ Now(Unused(array), a, {})
<1>1. Changes({o}) /\ array' = Allocated(array, a, {})
  BY ConstructShape
<1>2. Heap(array) /\ {} \in SUBSET Element /\ IsFiniteSet({})
  BY FS_EmptySet DEF TypeOK
<1>3. /\ Unused(array) \in Nat /\ Now(Unused(array), a, {})
      /\ \A i \in DOMAIN array : array'[i] = array[i]
  BY <1>1, <1>2, AllocatedArray
<1>4. QED
  BY <1>1, <1>3, ObjectsAssumption DEF OthersKept, Owners

LEMMA CopyConstructArrays ==
  ASSUME TypeOK, Owners, NEW o \in Objects, NEW s \in Objects, NEW a \in Allocators,
         CopyConstruct(o, s, a)
  PROVE  /\ OthersKept({o}) /\ Unused(array) # Null
         /\ Now(Unused(array), a, Arr(s))
<1>1. Changes({o}) /\ array' = Allocated(array, a, Arr(s)) /\ Usable(s)
  BY CopyConstructShape
<1>2. Heap(array) /\ Arr(s) \in SUBSET Element /\ IsFiniteSet(Arr(s))
  BY <1>1, UsableObject DEF TypeOK
<1>3. /\ Unused(array) \in Nat /\ Now(Unused(array), a, Arr(s))
      /\ \A i \in DOMAIN array : array'[i] = array[i]
  BY <1>1, <1>2, AllocatedArray
<1>4. QED
  BY <1>1, <1>3, ObjectsAssumption DEF OthersKept, Owners

\* An object o other than s takes a new array, s keeps its own, where its
\* elements have moved away.
LEMMA MovedArrays ==
  ASSUME TypeOK, Owners, NEW o \in Objects, NEW s \in Objects, o # s, Usable(s),
         NEW B, Heap(B), DOMAIN B = DOMAIN array \ {Held(o)},
         \A i \in DOMAIN B : B[i] = array[i],
         NEW a \in Allocators, Changes({o, s}),
         array' = Allocated(Emptied(B, Held(s)), a, Arr(s)),
         NEW n, n = Unused(Emptied(B, Held(s)))
  PROVE  /\ OthersKept({o, s}) /\ n # Null
         /\ Now(n, a, Arr(s))
         /\ Now(Held(s), array[Held(s)].by, MovedAway(Arr(s)))
<1>1. /\ Held(s) \in DOMAIN B /\ Arr(s) = array[Held(s)].es
      /\ Arr(s) \in SUBSET Element /\ IsFiniteSet(Arr(s))
  BY UsableObject, OtherArray
<1>2. PICK A : A = Emptied(B, Held(s))
  OBVIOUS
<1>3. /\ Heap(A) /\ DOMAIN A = DOMAIN B
      /\ A[Held(s)] = [by |-> B[Held(s)].by, es |-> MovedAway(B[Held(s)].es)]
      /\ \A i \in DOMAIN B \ {Held(s)} : A[i] = B[i]
  BY <1>1, <1>2, EmptiedHeap
<1>4. /\ n \in Nat /\ Now(n, a, Arr(s))
      /\ \A i \in DOMAIN A : array'[i] = A[i]
  BY <1>1, <1>2, <1>3, AllocatedArray
<1>5. Now(Held(s), array[Held(s)].by, MovedAway(Arr(s)))
  BY <1>1, <1>3, <1>4 DEF Now
<1>6. ASSUME NEW x \in Objects \ {o, s}, Held(x) # Null
      PROVE  array'[Held(x)] = array[Held(x)]
  <2>1. Held(x) \in DOMAIN B \ {Held(s)}
    BY <1>6 DEF Owners
  <2>2. QED
    BY <1>3, <1>4, <2>1
<1>7. QED
  BY <1>4, <1>5, <1>6, ObjectsAssumption DEF OthersKept

LEMMA MoveConstructArrays ==
  ASSUME TypeOK, Owners, NEW o \in Objects, NEW s \in Objects, NEW a \in Allocators,
         MoveConstruct(o, s, a)
  PROVE  /\ OthersKept({o, s})
         /\ \/ array' = array /\ a = obj[s].alloc
               /\ Fields(obj'[o], a, a, obj[s].hp, obj[s].buckets, obj[s].all_locks)
               /\ Fields(obj'[s], obj[s].alloc, obj[s].balloc, obj[s].hp, Null, <<>>)
            \/ \E n :
               /\ n # Null /\ Now(n, a, Arr(s))
               /\ Now(Held(s), array[Held(s)].by, MovedAway(Arr(s)))
               /\ Fields(obj'[o], a, a, obj[s].hp, n, <<Last(obj[s].all_locks)>>)
               /\ obj'[s] = obj[s]
<1>1. Held(o) = Null /\ Usable(s) /\ o # s
  BY MoveConstructShape
<1>2. CASE /\ Changes({o, s}) /\ array' = array /\ a = obj[s].alloc
           /\ Fields(obj'[o], a, a, obj[s].hp, obj[s].buckets, obj[s].all_locks)
           /\ Fields(obj'[s], obj[s].alloc, obj[s].balloc, obj[s].hp, Null, <<>>)
  BY <1>2 DEF OthersKept
<1>3. CASE /\ Changes({o})
           /\ Fields(obj'[o], a, a, obj[s].hp, Unused(array), <<Last(obj[s].all_locks)>>)
           /\ array' = Allocated(Emptied(array, Held(s)), a, Arr(s))
           /\ Unused(array) = Unused(Emptied(array, Held(s)))
  <2>1. Changes({o, s}) /\ obj'[s] = obj[s]
    BY <1>1, <1>3 DEF Changes
  <2>2. Heap(array) /\ DOMAIN array = DOMAIN array \ {Held(o)}
    BY <1>1, ObjectsAssumption DEF TypeOK, Heap
  <2>3. /\ OthersKept({o, s}) /\ Unused(array) # Null
        /\ Now(Unused(array), a, Arr(s))
        /\ Now(Held(s), array[Held(s)].by, MovedAway(Arr(s)))
    BY <1>1, <1>3, <2>1, <2>2, MovedArrays
  <2>4. QED
    BY <1>3, <2>1, <2>3
<1>4. QED
  BY <1>2, <1>3, MoveConstructShape

LEMMA CopyAssignArrays ==
  ASSUME TypeOK, Owners, NEW o \in Objects, NEW s \in Objects, CopyAssign(o, s)
  PROVE  /\ OthersKept({o})
         /\ \E a \in Allocators : \E c \in {obj[o].all_locks, obj[s].all_locks} :
              \/ Fields(obj'[o], a, a, obj[s].hp, Null, obj[o].all_locks)
              \/ \E n : /\ n # Null /\ Now(n, a, Arr(s))
                        /\ Fields(obj'[o], a, a, obj[s].hp, n, c)
<1>1. Alive(o) /\ Usable(s) /\ o # s /\ Changes({o})
  BY CopyAssignShape
<1>2. PICK a \in Allocators, c \in {obj[o].all_locks, obj[s].all_locks} :
        \/ /\ array' = Destroyed(o)
           /\ Fields(obj'[o], a, a, obj[s].hp, Null, obj[o].all_locks)
        \/ /\ array' = Allocated(Destroyed(o), a, Arr(s))
           /\ Fields(obj'[o], a, a, obj[s].hp, Unused(Destroyed(o)), c)
  BY CopyAssignShape
<1>3. /\ Heap(Destroyed(o)) /\ DOMAIN Destroyed(o) = DOMAIN array \ {Held(o)}
      /\ \A i \in DOMAIN Destroyed(o) : Destroyed(o)[i] = array[i]
  BY <1>1, DestroyedHeap
<1>4. \A x \in Objects \ {o} : Held(x) # Null => Held(x) \in DOMAIN Destroyed(o)
  BY <1>3 DEF Owners
<1>5. CASE /\ array' = Destroyed(o)
           /\ Fields(obj'[o], a, a, obj[s].hp, Null, obj[o].all_locks)
  BY <1>1, <1>3, <1>4, <1>5 DEF OthersKept
<1>6. CASE /\ array' = Allocated(Destroyed(o), a, Arr(s))
           /\ Fields(obj'[o], a, a, obj[s].hp, Unused(Destroyed(o)), c)
  <2>1. PICK n : n = Unused(Destroyed(o))
    OBVIOUS
  <2>2. Arr(s) \in SUBSET Element /\ IsFiniteSet(Arr(s))
    BY <1>1, UsableObject
  <2>3. /\ n \in Nat /\ Now(n, a, Arr(s))
        /\ \A i \in DOMAIN Destroyed(o) : array'[i] = Destroyed(o)[i]
    BY <1>3, <1>6, <2>1, <2>2, AllocatedArray
  <2>4. OthersKept({o})
    BY <1>1, <1>3, <1>4, <2>3 DEF OthersKept
  <2>5. QED
    BY <1>6, <2>1, <2>3, <2>4, ObjectsAssumption
<1>7. QED
  BY <1>2, <1>5, <1>6

LEMMA MoveAssignArrays ==
  ASSUME TypeOK, Owners, NEW o \in Objects, NEW s \in Objects, MoveAssign(o, s)
  PROVE  /\ OthersKept({o, s})
         /\ \E a, b \in Allocators :
              /\ a = IF traits.move THEN obj[s].alloc ELSE obj[o].alloc
              /\ b = IF traits.move THEN a ELSE obj[o].balloc
              /\ \/ /\ a = obj[s].alloc /\ array'[Held(s)] = array[Held(s)]
                    /\ Fields(obj'[o], a, b, obj[s].hp, obj[s].buckets, obj[s].all_locks)
                    /\ Fields(obj'[s], obj[s].alloc, obj[s].balloc, obj[s].hp, Null, <<>>)
                 \/ /\ Fields(obj'[o], a, b, obj[s].hp, Null, obj[o].all_locks)
                    /\ obj'[s] = obj[s] /\ array'[Held(s)] = array[Held(s)]
                 \/ /\ Now(Held(s), array[Held(s)].by, MovedAway(Arr(s)))
                    /\ \E n :
                       /\ n # Null /\ Now(n, a, Arr(s))
                       /\ \/ /\ Fields(obj'[o], a, b, obj[s].hp, n, obj[o].all_locks)
                             /\ obj'[s] = obj[s]
                          \/ /\ Fields(obj'[o], a, b, obj[s].hp, n, obj[s].all_locks)
                             /\ Fields(obj'[s], obj[s].alloc, obj[s].balloc, obj[s].hp,
                                       obj[s].buckets, Hollow(obj[s].all_locks))
<1> DEFINE A == Emptied(Destroyed(o), Held(s))
<1>1. Alive(o) /\ Usable(s) /\ o # s
  BY MoveAssignShape
<1>2. PICK a \in Allocators, b \in Allocators :
        /\ a = IF traits.move THEN obj[s].alloc ELSE obj[o].alloc
        /\ b = IF traits.move THEN a ELSE obj[o].balloc
        /\ \/ /\ Changes({o, s}) /\ a = obj[s].alloc /\ array' = Destroyed(o)
              /\ Fields(obj'[o], a, b, obj[s].hp, obj[s].buckets, obj[s].all_locks)
              /\ Fields(obj'[s], obj[s].alloc, obj[s].balloc, obj[s].hp, Null, <<>>)
           \/ /\ Changes({o}) /\ array' = Destroyed(o)
              /\ Fields(obj'[o], a, b, obj[s].hp, Null, obj[o].all_locks)
           \/ /\ Changes({o}) /\ array' = Allocated(A, a, Arr(s))
              /\ Fields(obj'[o], a, b, obj[s].hp, Unused(A), obj[o].all_locks)
           \/ /\ Changes({o, s}) /\ array' = Allocated(A, a, Arr(s))
              /\ Fields(obj'[o], a, b, obj[s].hp, Unused(A), obj[s].all_locks)
              /\ Fields(obj'[s], obj[s].alloc, obj[s].balloc, obj[s].hp, obj[s].buckets,
                        Hollow(obj[s].all_locks))
  BY MoveAssignShape
<1>3. Changes({o, s}) /\ (Changes({o}) => obj'[s] = obj[s])
  BY <1>1, <1>2 DEF Changes
<1>4. /\ Heap(Destroyed(o)) /\ DOMAIN Destroyed(o) = DOMAIN array \ {Held(o)}
      /\ \A i \in DOMAIN Destroyed(o) : Destroyed(o)[i] = array[i]
  BY <1>1, DestroyedHeap
<1>5. \A x \in Objects \ {o} : Held(x) # Null => Held(x) \in DOMAIN Destroyed(o)
  BY <1>4 DEF Owners
<1>6. Held(s) \in DOMAIN Destroyed(o)
  BY <1>1, <1>4, OtherArray
<1>7. array' = Destroyed(o) => OthersKept({o, s}) /\ array'[Held(s)] = array[Held(s)]
  BY <1>3, <1>4, <1>5, <1>6 DEF OthersKept
<1>8. array' = Allocated(A, a, Arr(s)) =>
        /\ OthersKept({o, s}) /\ Unused(A) # Null
        /\ Now(Unused(A), a, Arr(s))
        /\ Now(Held(s), array[Held(s)].by, MovedAway(Arr(s)))
  BY <1>1, <1>3, <1>4, MovedArrays
<1> HIDE DEF A
<1>9. CASE /\ Changes({o, s}) /\ a = obj[s].alloc /\ array' = Destroyed(o)
           /\ Fields(obj'[o], a, b, obj[s].hp, obj[s].buckets, obj[s].all_locks)
           /\ Fields(obj'[s], obj[s].alloc, obj[s].balloc, obj[s].hp, Null, <<>>)
  BY <1>2, <1>7, <1>9
<1>10. CASE /\ Changes({o}) /\ array' = Destroyed(o)
            /\ Fields(obj'[o], a, b, obj[s].hp, Null, obj[o].all_locks)
  BY <1>2, <1>3, <1>7, <1>10
<1>11. CASE /\ Changes({o}) /\ array' = Allocated(A, a, Arr(s))
            /\ Fields(obj'[o], a, b, obj[s].hp, Unused(A), obj[o].all_locks)
  BY <1>2, <1>3, <1>8, <1>11
<1>12. CASE /\ Changes({o, s}) /\ array' = Allocated(A, a, Arr(s))
            /\ Fields(obj'[o], a, b, obj[s].hp, Unused(A), obj[s].all_locks)
            /\ Fields(obj'[s], obj[s].alloc, obj[s].balloc, obj[s].hp, obj[s].buckets,
                      Hollow(obj[s].all_locks))
  BY <1>2, <1>8, <1>12
<1>13. QED
  BY <1>2, <1>9, <1>10, <1>11, <1>12

LEMMA DestroyArrays ==
  ASSUME TypeOK, Owners, NEW o \in Objects, Destroy(o)
  PROVE  OthersKept({o}) /\ obj'[o] = NoObject
<1>1. Alive(o) /\ Changes({o}) /\ obj'[o] = NoObject /\ array' = Destroyed(o)
  BY DestroyShape
<1>2. /\ DOMAIN Destroyed(o) = DOMAIN array \ {Held(o)}
      /\ \A i \in DOMAIN Destroyed(o) : Destroyed(o)[i] = array[i]
  BY <1>1, DestroyedHeap
<1>3. QED
  BY <1>1, <1>2 DEF OthersKept, Owners

LEMMA ElementsArrays ==
  ASSUME TypeOK, Owners, NEW o \in Objects, Usable(o), NEW es \in SUBSET Element, IsFiniteSet(es),
         WithElements(o, es)
  PROVE  OthersKept({o})
<1>1. Changes({o})
  BY ElementsShape
<1>2. \A i \in DOMAIN array \ {Held(o)} : array'[i] = array[i]
  BY ElementsOwners
<1>3. QED
  BY <1>1, <1>2 DEF OthersKept, Owners

-----------------------------------------------------------------------------
(* Allocators that do not propagate on swap.                               *)
NoSwapPropagation == \A tr \in Traits : ~tr.swap

\* The array of an object came from the object's allocator, which is also the
\* one that will free it.
RightOwner(o) ==
  Alive(o) => /\ obj[o].balloc = obj[o].alloc
              /\ Held(o) # Null => array[Held(o)].by = obj[o].alloc
AllocInv == (\A o \in Objects : RightOwner(o)) /\ freed.by = freed.with

LEMMA OthersRight ==
  ASSUME AllocInv, NEW S, OthersKept(S)
  PROVE  \A x \in Objects \ S : RightOwner(x)'
BY DEF AllocInv, RightOwner, OthersKept, Changes, Held, Alive

LEMMA NullRight ==
  ASSUME NEW o, NEW al, NEW ba, NEW hp, NEW lo, Fields(obj'[o], al, ba, hp, Null, lo), ba = al
  PROVE  RightOwner(o)'
<1>1. Held(o)' = Null
  BY DEF Held, Fields
<1>2. QED
  BY <1>1 DEF RightOwner, Fields

LEMMA NowRight ==
  ASSUME NEW o, NEW al, NEW ba, NEW hp, NEW bu, NEW lo, Fields(obj'[o], al, ba, hp, bu, lo), ba = al,
         NEW es, Now(bu, al, es)
  PROVE  RightOwner(o)'
<1>1. Held(o)' \in {bu, Null}
  BY DEF Held, Fields
<1>2. QED
  BY <1>1 DEF RightOwner, Fields, Now

LEMMA SameRight ==
  ASSUME AllocInv, NEW s \in Objects, obj'[s] = obj[s], NEW es, Now(Held(s), array[Held(s)].by, es)
  PROVE  RightOwner(s)'
BY DEF AllocInv, RightOwner, Held, Alive, Now

LEMMA FreedRight ==
  ASSUME TypeOK, Owners, AllocInv, NEW o \in Objects, Alive(o)
  PROVE  Freed(o).by = Freed(o).with
<1>1. CASE obj[o].buckets = Null
  BY <1>1 DEF Freed, AllocInv
<1>2. CASE obj[o].buckets # Null
  BY <1>2, AliveObject DEF Freed, AllocInv, RightOwner
<1>3. QED
  BY <1>1, <1>2

LEMMA AssignRight ==
  ASSUME TypeOK, Owners, AllocInv, NEW o \in Objects, NEW s \in Objects,
         CopyAssign(o, s) \/ MoveAssign(o, s)
  PROVE  AllocInv'
<1>1. Alive(o) /\ Usable(s) /\ o # s /\ freed' = Freed(o)
  BY CopyAssignShape, MoveAssignShape DEF CopyAssign, MoveAssign
<1>2. freed'.by = freed'.with
  BY <1>1, FreedRight
<1>3. /\ obj[o].balloc = obj[o].alloc /\ obj[s].balloc = obj[s].alloc
      /\ Held(s) = obj[s].buckets /\ Held(s) # Null /\ array[Held(s)].by = obj[s].alloc
  BY <1>1, UsableObject, AliveObject DEF AllocInv, RightOwner
<1>4. CASE CopyAssign(o, s)
  <2>1. OthersKept({o})
    BY <1>4, CopyAssignArrays
  <2>2. PICK a, c :
          /\ a \in Allocators
          /\ \/ Fields(obj'[o], a, a, obj[s].hp, Null, obj[o].all_locks)
             \/ \E n : /\ n # Null /\ Now(n, a, Arr(s))
                       /\ Fields(obj'[o], a, a, obj[s].hp, n, c)
    BY <1>4, CopyAssignArrays
  <2>3. RightOwner(o)'
    BY <2>2, NullRight, NowRight
  <2>4. QED
    BY <1>2, <2>1, <2>3, OthersRight DEF AllocInv
<1>5. CASE MoveAssign(o, s)
  <2>1. OthersKept({o, s})
    BY <1>5, MoveAssignArrays
  <2>2. PICK a \in Allocators, b \in Allocators :
      /\ a = IF traits.move THEN obj[s].alloc ELSE obj[o].alloc
      /\ b = IF traits.move THEN a ELSE obj[o].balloc
      /\ \/ /\ a = obj[s].alloc /\ array'[Held(s)] = array[Held(s)]
            /\ Fields(obj'[o], a, b, obj[s].hp, obj[s].buckets, obj[s].all_locks)
            /\ Fields(obj'[s], obj[s].alloc, obj[s].balloc, obj[s].hp, Null, <<>>)
         \/ /\ Fields(obj'[o], a, b, obj[s].hp, Null, obj[o].all_locks)
            /\ obj'[s] = obj[s] /\ array'[Held(s)] = array[Held(s)]
         \/ /\ Now(Held(s), array[Held(s)].by, MovedAway(Arr(s)))
            /\ \E n :
               /\ n # Null /\ Now(n, a, Arr(s))
               /\ \/ /\ Fields(obj'[o], a, b, obj[s].hp, n, obj[o].all_locks)
                     /\ obj'[s] = obj[s]
                  \/ /\ Fields(obj'[o], a, b, obj[s].hp, n, obj[s].all_locks)
                     /\ Fields(obj'[s], obj[s].alloc, obj[s].balloc, obj[s].hp,
                               obj[s].buckets, Hollow(obj[s].all_locks))
    BY <1>5, MoveAssignArrays
  <2>3. b = a
    BY <1>3, <2>2
  <2>4. array'[Held(s)] = array[Held(s)] => Now(Held(s), obj[s].alloc, array[Held(s)].es)
    BY <1>3 DEF Now
  <2>5. CASE /\ a = obj[s].alloc /\ array'[Held(s)] = array[Held(s)]
             /\ Fields(obj'[o], a, b, obj[s].hp, obj[s].buckets, obj[s].all_locks)
             /\ Fields(obj'[s], obj[s].alloc, obj[s].balloc, obj[s].hp, Null, <<>>)
    <3>1. RightOwner(o)'
      BY <1>3, <2>3, <2>4, <2>5, NowRight
    <3>2. RightOwner(s)'
      BY <1>3, <2>5, NullRight
    <3>3. QED
      BY <1>2, <2>1, <3>1, <3>2, OthersRight DEF AllocInv
  <2>6. CASE /\ Fields(obj'[o], a, b, obj[s].hp, Null, obj[o].all_locks)
             /\ obj'[s] = obj[s] /\ array'[Held(s)] = array[Held(s)]
    <3>1. RightOwner(o)'
      BY <2>3, <2>6, NullRight
    <3>2. RightOwner(s)'
      BY <1>3, <2>4, <2>6, SameRight
    <3>3. QED
      BY <1>2, <2>1, <3>1, <3>2, OthersRight DEF AllocInv
  <2>7. ASSUME Now(Held(s), array[Held(s)].by, MovedAway(Arr(s))), NEW n, Now(n, a, Arr(s)),
               \/ /\ Fields(obj'[o], a, b, obj[s].hp, n, obj[o].all_locks)
                  /\ obj'[s] = obj[s]
               \/ /\ Fields(obj'[o], a, b, obj[s].hp, n, obj[s].all_locks)
                  /\ Fields(obj'[s], obj[s].alloc, obj[s].balloc, obj[s].hp,
                            obj[s].buckets, Hollow(obj[s].all_locks))
        PROVE  AllocInv'
    <3>1. RightOwner(o)'
      BY <2>3, <2>7, NowRight
    <3>2. RightOwner(s)'
      <4>1. CASE obj'[s] = obj[s]
        BY <2>7, <4>1, SameRight
      <4>2. CASE Fields(obj'[s], obj[s].alloc, obj[s].balloc, obj[s].hp,
                        obj[s].buckets, Hollow(obj[s].all_locks))
        BY <1>3, <2>7, <4>2, NowRight
      <4>3. QED
        BY <2>7, <4>1, <4>2
    <3>3. QED
      BY <1>2, <2>1, <3>1, <3>2, OthersRight DEF AllocInv
  <2>8. QED
    BY <2>2, <2>5, <2>6, <2>7
<1>6. QED
  BY <1>4, <1>5

LEMMA StepRight ==
  ASSUME NoSwapPropagation, TypeOK, Owners, AllocInv, Next
  PROVE  AllocInv'
<1>1. ASSUME NEW o \in Objects, NEW hp \in Hashpowers, NEW a \in Allocators, Construct(o, hp, a)
      PROVE  AllocInv'
  <2>1. OthersKept({o}) /\ Now(Unused(array), a, {})
    BY <1>1, ConstructArrays
  <2>2. RightOwner(o)'
    BY <1>1, <2>1, ConstructShape, NowRight
  <2>3. QED
    BY <1>1, <2>1, <2>2, OthersRight DEF AllocInv, Construct
<1>2. ASSUME NEW o \in Objects, NEW s \in Objects, NEW a \in Allocators, CopyConstruct(o, s, a)
      PROVE  AllocInv'
  <2>1. OthersKept({o}) /\ Now(Unused(array), a, Arr(s))
    BY <1>2, CopyConstructArrays
  <2>2. \E c : Fields(obj'[o], a, a, obj[s].hp, Unused(array), c)
    BY <1>2, CopyConstructShape
  <2>3. RightOwner(o)'
    BY <2>1, <2>2, NowRight
  <2>4. QED
    BY <1>2, <2>1, <2>3, OthersRight DEF AllocInv, CopyConstruct
<1>3. ASSUME NEW o \in Objects, NEW s \in Objects, NEW a \in Allocators, MoveConstruct(o, s, a)
      PROVE  AllocInv'
  <2>1. /\ Usable(s) /\ obj[s].balloc = obj[s].alloc
        /\ Held(s) = obj[s].buckets /\ Held(s) # Null /\ array[Held(s)].by = obj[s].alloc
    BY <1>3, MoveConstructShape, UsableObject, AliveObject DEF AllocInv, RightOwner
  <2>2. OthersKept({o, s})
    BY <1>3, MoveConstructArrays
  <2>3. CASE /\ array' = array /\ a = obj[s].alloc
             /\ Fields(obj'[o], a, a, obj[s].hp, obj[s].buckets, obj[s].all_locks)
             /\ Fields(obj'[s], obj[s].alloc, obj[s].balloc, obj[s].hp, Null, <<>>)
    <3>1. Now(obj[s].buckets, a, array[Held(s)].es)
      BY <2>1, <2>3 DEF Now
    <3>2. RightOwner(o)' /\ RightOwner(s)'
      BY <2>1, <2>3, <3>1, NowRight, NullRight
    <3>3. QED
      BY <1>3, <2>2, <3>2, OthersRight DEF AllocInv, MoveConstruct
  <2>4. ASSUME NEW n, Now(n, a, Arr(s)), Now(Held(s), array[Held(s)].by, MovedAway(Arr(s))),
               Fields(obj'[o], a, a, obj[s].hp, n, <<Last(obj[s].all_locks)>>), obj'[s] = obj[s]
        PROVE  AllocInv'
    <3>1. RightOwner(o)' /\ RightOwner(s)'
      BY <2>4, NowRight, SameRight
    <3>2. QED
      BY <1>3, <2>2, <3>1, OthersRight DEF AllocInv, MoveConstruct
  <2>5. QED
    BY <1>3, <2>3, <2>4, MoveConstructArrays
<1>4. ASSUME NEW o \in Objects, NEW s \in Objects, Swap(o, s)
      PROVE  AllocInv'
  <2>1. /\ o # s /\ Alive(o) /\ Alive(s) /\ Changes({o, s}) /\ UNCHANGED <<array, traits, freed>>
        /\ Fields(obj'[o], obj[s].alloc, obj[s].alloc, obj[s].hp, obj[s].buckets, obj[s].all_locks)
        /\ Fields(obj'[s], obj[o].alloc, obj[s].balloc, obj[o].hp, obj[o].buckets, obj[o].all_locks)
    BY <1>4, SwapShape
  <2>2. obj[o].alloc = obj[s].alloc
    BY <1>4 DEF NoSwapPropagation, TypeOK, Swap
  <2>3. /\ obj[s].balloc = obj[s].alloc
        /\ obj[s].buckets # Null => array[obj[s].buckets].by = obj[s].alloc
        /\ obj[o].buckets # Null => array[obj[o].buckets].by = obj[o].alloc
    BY <2>1, AliveObject DEF AllocInv, RightOwner
  <2>4. RightOwner(o)' /\ RightOwner(s)'
    <3>1. /\ obj[s].buckets # Null => Now(obj[s].buckets, obj[s].alloc, array[obj[s].buckets].es)
          /\ obj[o].buckets # Null => Now(obj[o].buckets, obj[o].alloc, array[obj[o].buckets].es)
      BY <2>1, <2>3 DEF Now
    <3>2. RightOwner(o)'
      BY <2>1, <3>1, NowRight, NullRight
    <3>3. RightOwner(s)'
      BY <2>1, <2>2, <2>3, <3>1, NowRight, NullRight
    <3>4. QED
      BY <3>2, <3>3
  <2>5. OthersKept({o, s})
    BY <2>1 DEF OthersKept
  <2>6. QED
    BY <2>1, <2>4, <2>5, OthersRight DEF AllocInv
<1>5. ASSUME NEW o \in Objects, Destroy(o)
      PROVE  AllocInv'
  <2>1. OthersKept({o}) /\ obj'[o] = NoObject /\ Alive(o) /\ freed' = Freed(o)
    BY <1>5, DestroyArrays, DestroyShape
  <2>2. RightOwner(o)'
    BY <2>1 DEF RightOwner, Alive
  <2>3. QED
    BY <2>1, <2>2, OthersRight, FreedRight DEF AllocInv
<1>6. ASSUME NEW o \in Objects, ElementStep(o)
      PROVE  AllocInv'
  <2>1. PICK es \in SUBSET Element : Usable(o) /\ IsFiniteSet(es) /\ WithElements(o, es)
    BY <1>6, ElementStepShape
  <2>2. /\ OthersKept({o}) /\ freed' = freed
        /\ Fields(obj'[o], obj[o].alloc, obj[o].balloc, obj[o].hp, obj[o].buckets,
                  Counted(obj[o].all_locks, es))
    BY <2>1, ElementsArrays, ElementsShape
  <2>3. /\ obj[o].balloc = obj[o].alloc /\ Held(o) = obj[o].buckets
        /\ array[Held(o)].by = obj[o].alloc
    BY <2>1, UsableObject, AliveObject DEF AllocInv, RightOwner
  <2>4. Now(Held(o), array[Held(o)].by, es)
    <3>1. array'[Held(o)] = [by |-> array[Held(o)].by, es |-> es]
      BY <2>1, ElementsOwners
    <3>2. QED
      BY <3>1 DEF Now
  <2>5. RightOwner(o)'
    BY <2>2, <2>3, <2>4, NowRight
  <2>6. QED
    BY <2>2, <2>5, OthersRight DEF AllocInv
<1>7. ASSUME NEW o \in Objects, NEW a \in Allocators, ConstructThrows(o, a)
      PROVE  AllocInv'
  <2>1. obj' = obj /\ array' = array /\ freed' = [by |-> a, with |-> a]
    BY <1>7 DEF ConstructThrows
  <2>2. \A x \in Objects : RightOwner(x)' <=> RightOwner(x)
    BY <2>1 DEF RightOwner, Held, Alive
  <2>3. QED
    BY <2>1, <2>2 DEF AllocInv
<1>8. ASSUME NEW o \in Objects, NEW s \in Objects, NEW a \in Allocators,
             MoveConstructThrows(o, s, a)
      PROVE  AllocInv'
  <2>1. obj' = obj /\ \A i \in DOMAIN array : array'[i].by = array[i].by
    <3>1. array'[Held(s)] = [by |-> array[Held(s)].by, es |-> MovedAway(Arr(s))]
      BY <1>8, MoveConstructThrowsArrays
    <3>2. array'[Held(s)].by = array[Held(s)].by
      BY <3>1
    <3>3. QED
      BY <1>8, <3>2, MoveConstructThrowsArrays
  <2>2. ASSUME NEW x \in Objects
        PROVE  RightOwner(x)'
    <3>1. Alive(x) /\ obj[x].buckets # Null => obj[x].buckets \in DOMAIN array
      BY DEF Owners, Held
    <3>2. RightOwner(x)
      BY DEF AllocInv
    <3>3. QED
      BY <2>1, <3>1, <3>2 DEF RightOwner, Held, Alive
  <2>3. freed'.by = freed'.with
    BY <1>8 DEF MoveConstructThrows
  <2>4. QED
    BY <2>2, <2>3 DEF AllocInv
<1>9. QED
  BY <1>1, <1>2, <1>3, <1>4, <1>5, <1>6, <1>7, <1>8, AssignRight DEF Next, ElementStep

\* Without propagation on swap an array is freed by the allocator it came from,
\* whatever is copied, moved or assigned. With it the bucket allocator of swap's
\* argument stays behind (libcuckoo_bucket_container's swap).
THEOREM AllocatorsCorrect == NoSwapPropagation => (Spec => []RightAllocator)
<1>1. SUFFICES ASSUME NoSwapPropagation
               PROVE  Spec => []RightAllocator
  OBVIOUS
<1>2. Init => AllocInv
  BY DEF Init, AllocInv, RightOwner, Alive
<1>3. TypeOK /\ Owners /\ AllocInv /\ [Next]_vars => AllocInv'
  <2>1. AllocInv /\ UNCHANGED vars => AllocInv'
    BY DEF AllocInv, RightOwner, Held, Alive, vars
  <2>2. QED
    BY <1>1, <2>1, StepRight
<1>4. AllocInv => RightAllocator
  BY DEF AllocInv, RightAllocator
<1>5. QED
  BY <1>2, <1>3, <1>4, OwnersInvariant, PTL DEF Spec

-----------------------------------------------------------------------------
(* The values of the objects.                                              *)

\* The elements es in 2^hp buckets, counted by the locks lo, are a value.
Whole(hp, lo, es) ==
  /\ lo # <<>> /\ \A e \in es : e.live
  /\ Len(Last(lo)) >= Len(Locks(hp))
  /\ \A l \in DOMAIN Last(lo) : Last(lo)[l] = Cardinality({e \in es : Lock(e.b) = l})
KeysOf(es) == {e.k : e \in es}

LEMMA UsedValue ==
  ASSUME TypeOK, Owners, NEW s \in Objects, Usable(s)
  PROVE  /\ Whole(obj[s].hp, obj[s].all_locks, Arr(s)) /\ Value(s) = KeysOf(Arr(s))
         /\ Value(s) \in SUBSET Keys
<1>1. Arr(s) \in SUBSET Element
  BY UsableObject
<1>2. KeysOf(Arr(s)) \in SUBSET Keys
  BY <1>1 DEF KeysOf, Element
<1>3. Whole(obj[s].hp, obj[s].all_locks, Arr(s))
  BY DEF Usable, Whole
<1>4. QED
  BY <1>2, <1>3 DEF Value, KeysOf, Usable

LEMMA NullValue ==
  ASSUME NEW o \in Objects, NEW al, NEW ba, NEW hp, NEW lo, Fields(obj'[o], al, ba, hp, Null, lo)
  PROVE  Value(o)' = Unspecified
BY ObjectsAssumption DEF Value, Usable, Alive, Fields

LEMMA NowValue ==
  ASSUME NEW o \in Objects, NEW al, NEW ba, NEW hp, NEW bu, NEW lo,
         Fields(obj'[o], al, ba, hp, bu, lo), bu # Null, NEW a, NEW es, Now(bu, a, es)
  PROVE  Value(o)' = IF Whole(hp, lo, es) THEN KeysOf(es) ELSE Unspecified
<1>1. /\ obj'[o] # NoObject /\ obj'[o].buckets = bu /\ obj'[o].all_locks = lo
      /\ obj'[o].hp = hp /\ array'[bu].es = es
  BY ObjectsAssumption DEF Fields, Now
<1>2. Arr(o)' = es
  BY <1>1 DEF Arr
<1>3. Usable(o)' <=> Whole(hp, lo, es)
  BY <1>1, <1>2 DEF Usable, Alive, Whole
<1>4. Value(o)' = IF Whole(hp, lo, es) THEN KeysOf(es) ELSE Unspecified
  BY <1>1, <1>2, <1>3 DEF Value, Alive, KeysOf
<1>5. QED
  BY <1>4

LEMMA OtherValues ==
  ASSUME NEW S, OthersKept(S)
  PROVE  \A x \in Objects \ S : Value(x)' = Value(x)
<1>1. TAKE x \in Objects \ S
<1>2. obj'[x] = obj[x] /\ (Held(x) # Null => array'[Held(x)] = array[Held(x)])
  BY DEF OthersKept, Changes
<1>3. CASE obj[x] = NoObject
  BY <1>2, <1>3 DEF Value, Alive
<1>4. CASE obj[x] # NoObject
  <2>1. Held(x) = obj[x].buckets
    BY <1>4 DEF Held, Alive
  <2>2. Arr(x)' = Arr(x)
    BY <1>2, <2>1 DEF Arr
  <2>3. Usable(x)' <=> Usable(x)
    BY <1>2, <2>2 DEF Usable, Alive
  <2>4. QED
    BY <1>2, <2>2, <2>3 DEF Value, Alive
<1>5. QED
  BY <1>3, <1>4

LEMMA KnownObject ==
  ASSUME NEW s \in Objects, Value(s) \in SUBSET Keys
  PROVE  s \in Values!Known
BY ObjectsAssumption DEF Values!Known

LEMMA LivingValue ==
  ASSUME TypeOK, Owners, NEW o \in Objects
  PROVE  Value(o) = NoObject <=> ~Alive(o)
<1>1. CASE Usable(o)
  BY <1>1, UsedValue, ObjectsAssumption DEF Usable
<1>2. CASE ~Usable(o)
  BY <1>2, ObjectsAssumption DEF Value
<1>3. QED
  BY <1>1, <1>2

\* What was left of an object whose elements moved away is no value, unless
\* there were none.
LEMMA MovedValue ==
  ASSUME TypeOK, Owners, NEW s \in Objects, Usable(s), NEW al, NEW ba,
         Fields(obj'[s], al, ba, obj[s].hp, Held(s), obj[s].all_locks),
         NEW a, Now(Held(s), a, MovedAway(Arr(s)))
  PROVE  Value(s)' = Unspecified \/ (Value(s)' = {} /\ Value(s) = {})
<1>1. Arr(s) \in SUBSET Element /\ IsFiniteSet(Arr(s)) /\ Held(s) # Null
  BY UsableObject
<1>2. Value(s)' = IF Whole(obj[s].hp, obj[s].all_locks, MovedAway(Arr(s)))
                    THEN KeysOf(MovedAway(Arr(s))) ELSE Unspecified
  <2>1. PICK hp, bu, lo, es : /\ hp = obj[s].hp /\ bu = Held(s) /\ lo = obj[s].all_locks
                              /\ es = MovedAway(Arr(s))
    OBVIOUS
  <2>2. Fields(obj'[s], al, ba, hp, bu, lo) /\ bu # Null /\ Now(bu, a, es)
    BY <1>1, <2>1
  <2>3. Value(s)' = IF Whole(hp, lo, es) THEN KeysOf(es) ELSE Unspecified
    BY <2>2, NowValue
  <2>4. QED
    BY <2>1, <2>3
<1>3. Whole(obj[s].hp, obj[s].all_locks, MovedAway(Arr(s))) => Arr(s) = {} /\ MovedAway(Arr(s)) = {}
  BY <1>1, MovedAwayElements DEF Whole
<1>4. KeysOf({}) = {}
  BY DEF KeysOf
<1>5. QED
  BY <1>2, <1>3, <1>4, UsedValue

\* The same of an object none of whose fields changed.
LEMMA KeptMoved ==
  ASSUME TypeOK, Owners, NEW s \in Objects, Usable(s), obj'[s] = obj[s],
         NEW a, Now(Held(s), a, MovedAway(Arr(s)))
  PROVE  Value(s)' = Unspecified \/ (Value(s)' = {} /\ Value(s) = {})
<1>1. PICK al, ba : al = obj[s].alloc /\ ba = obj[s].balloc
  OBVIOUS
<1>2. Fields(obj'[s], al, ba, obj[s].hp, Held(s), obj[s].all_locks)
  BY <1>1, UsableObject, AliveObject DEF Fields
<1>3. QED
  BY <1>2, MovedValue

\* Locks of which nothing is left belong to no value.
LEMMA HollowValue ==
  ASSUME TypeOK, Owners, NEW s \in Objects, Usable(s), NEW al, NEW ba,
         Fields(obj'[s], al, ba, obj[s].hp, obj[s].buckets, Hollow(obj[s].all_locks)),
         NEW a, NEW es, Now(Held(s), a, es)
  PROVE  Value(s)' = Unspecified
<1>1. /\ Held(s) = obj[s].buckets /\ Held(s) # Null /\ obj[s].all_locks \in Seq(Seq(Nat))
      /\ obj[s].all_locks # <<>> /\ obj[s].hp \in Hashpowers
  BY UsableObject, AliveObject
<1>2. Len(Last(Hollow(obj[s].all_locks))) = 0 /\ Len(Locks(obj[s].hp)) >= 1
  BY <1>1, HollowLocks, LocksType
<1>3. Len(Locks(obj[s].hp)) \in Nat
  BY <1>1, LocksType, LenProperties
<1>4. ~Whole(obj[s].hp, Hollow(obj[s].all_locks), es)
  BY <1>2, <1>3 DEF Whole
<1>5. Now(obj[s].buckets, a, es) /\ obj[s].buckets # Null
  BY <1>1
<1>6. QED
  BY <1>4, <1>5, NowValue

\* A step of the values, from the values of two objects and of the others.
LEMMA ValueSteps ==
  ASSUME NEW o \in Objects, NEW s \in Objects
  PROVE  /\ Value(o) = NoObject /\ Value(o)' = {} /\ (\A x \in Objects \ {o} : Value(x)' = Value(x))
              => Values!Create(o)
         /\ o # s /\ Value(s) \in SUBSET Keys /\ Value(o)' = Value(s)
              /\ (\A x \in Objects \ {o} : Value(x)' = Value(x))
              => Values!Copy(o, s)
         /\ o # s /\ Value(s) \in SUBSET Keys /\ Value(o)' = Value(s)
              /\ Value(s)' \in {Unspecified, {}}
              /\ (\A x \in Objects \ {o, s} : Value(x)' = Value(x))
              => Values!Move(o, s)
         /\ Value(o) # NoObject /\ Value(s) # NoObject
              /\ Value(o)' = Value(s) /\ Value(s)' = Value(o)
              /\ (\A x \in Objects \ {o, s} : Value(x)' = Value(x))
              => Values!Swap(o, s)
         /\ o # s /\ Value(o) # NoObject /\ Value(s) \in SUBSET Keys
              /\ Value(o)' = Unspecified /\ Value(s)' \in {Value(s), Unspecified}
              /\ (\A x \in Objects \ {o, s} : Value(x)' = Value(x))
              => Values!Fail(o, s)
         /\ o # s /\ Value(o) = NoObject /\ Value(s) \in SUBSET Keys
              /\ Value(s)' = Unspecified /\ (\A x \in Objects \ {s} : Value(x)' = Value(x))
              => Values!LoseSource(o, s)
         /\ Value(o) \in SUBSET Keys /\ Value(o)' \in SUBSET Keys
              /\ (\A x \in Objects \ {o} : Value(x)' = Value(x))
              => Values!Assign(o)
         /\ Value(o) # NoObject /\ Value(o)' = NoObject
              /\ (\A x \in Objects \ {o} : Value(x)' = Value(x))
              => Values!Destroy(o)
<1>1. Value(s) \in SUBSET Keys => s \in Values!Known
  BY KnownObject
<1>2. Value(o) \in SUBSET Keys => o \in Values!Known
  BY KnownObject
<1>3. Value(o)' \in SUBSET Keys => Value(o)' \notin {NoObject, Unspecified}
  BY ObjectsAssumption
<1>4. QED
  BY <1>1, <1>2, <1>3 DEF Values!Create, Values!Copy, Values!Move, Values!Swap, Values!Fail,
       Values!LoseSource, Values!Assign, Values!Destroy, Values!Others

\* The containers c end in the newest locks of s.
SameLocks(c, s) == c # <<>> /\ Last(c) = Last(obj[s].all_locks)

\* An object that comes to hold the elements of s, and perhaps its locks too.
LEMMA TakenValue ==
  ASSUME TypeOK, Owners, NEW o \in Objects, NEW s \in Objects, Usable(s),
         NEW al, NEW ba, NEW hp, NEW bu, NEW c, Fields(obj'[o], al, ba, hp, bu, c), bu # Null,
         NEW a, NEW es, Now(bu, a, es), hp = obj[s].hp, es = Arr(s)
  PROVE  /\ Value(o)' \in {Value(s), Unspecified}
         /\ SameLocks(c, s) => Value(o)' = Value(s)
<1>1. Value(o)' = IF Whole(hp, c, es) THEN KeysOf(es) ELSE Unspecified
  BY NowValue
<1>2. Value(s) = KeysOf(es) /\ Whole(hp, obj[s].all_locks, es)
  BY UsedValue
<1>3. SameLocks(c, s) => Whole(hp, c, es)
  BY <1>2 DEF Whole, SameLocks
<1>4. QED
  BY <1>1, <1>2, <1>3

LEMMA ConstructValue ==
  ASSUME TypeOK, Owners, NEW o \in Objects, NEW hp \in Hashpowers, NEW a \in Allocators,
         Construct(o, hp, a)
  PROVE  Values!Create(o)
<1>1. Value(o) = NoObject
  BY LivingValue DEF Construct, Free
<1>2. PICK n, c, es : n = Unused(array) /\ c = <<Locks(hp)>> /\ es = {}
  OBVIOUS
<1>3. /\ OthersKept({o}) /\ n # Null /\ Now(n, a, es)
      /\ Fields(obj'[o], a, a, hp, n, c)
  BY <1>2, ConstructArrays, ConstructShape
<1>4. Locks(hp) \in Seq(Nat)
  BY LocksType
<1>5. c # <<>> /\ Last(c) = Locks(hp)
  BY <1>2, <1>4, SingleContainer
<1>6. Whole(hp, c, es)
  <2>1. Len(Locks(hp)) \in Nat
    BY <1>4, LenProperties
  <2>2. \A l : Cardinality({e \in es : Lock(e.b) = l}) = 0
    <3>1. TAKE l
    <3>2. {e \in es : Lock(e.b) = l} = {}
      BY <1>2
    <3>3. QED
      BY <3>2, FS_EmptySet
  <2>3. QED
    BY <1>2, <1>5, <2>1, <2>2, LocksType DEF Whole
<1>7. Value(o)' = KeysOf(es)
  BY <1>3, <1>6, NowValue
<1>8. KeysOf(es) = {}
  BY <1>2 DEF KeysOf
<1>9. QED
  BY <1>1, <1>3, <1>7, <1>8, OtherValues, ValueSteps

LEMMA CopyConstructValue ==
  ASSUME TypeOK, Owners, NEW o \in Objects, NEW s \in Objects, NEW a \in Allocators,
         CopyConstruct(o, s, a)
  PROVE  Values!Copy(o, s)
<1>1. Usable(s) /\ o # s /\ OthersKept({o})
  BY CopyConstructShape, CopyConstructArrays
<1>0. PICK hp, es : hp = obj[s].hp /\ es = Arr(s)
  OBVIOUS
<1>2. PICK n, c : /\ n = Unused(array) /\ Fields(obj'[o], a, a, hp, n, c)
                  /\ c \in {obj[s].all_locks, <<Last(obj[s].all_locks)>>}
  BY <1>0, CopyConstructShape
<1>3. n # Null /\ Now(n, a, es)
  BY <1>0, <1>2, CopyConstructArrays
<1>4. SameLocks(c, s)
  BY <1>1, <1>2, UsableObject, AliveObject, LastType DEF SameLocks
<1>5. Value(o)' = Value(s)
  BY <1>0, <1>1, <1>2, <1>3, <1>4, TakenValue
<1>6. QED
  BY <1>1, <1>5, UsedValue, OtherValues, ValueSteps

LEMMA MoveConstructValue ==
  ASSUME TypeOK, Owners, NEW o \in Objects, NEW s \in Objects, NEW a \in Allocators,
         MoveConstruct(o, s, a)
  PROVE  Values!Move(o, s)
<1>0. PICK hp, es : hp = obj[s].hp /\ es = Arr(s)
  OBVIOUS
<1>1. Usable(s) /\ o # s /\ OthersKept({o, s})
  BY MoveConstructShape, MoveConstructArrays
<1>2. /\ obj[s].all_locks \in Seq(Seq(Nat)) /\ obj[s].all_locks # <<>>
      /\ Held(s) = obj[s].buckets /\ Held(s) # Null /\ Arr(s) = array[Held(s)].es
  BY <1>1, UsableObject, AliveObject
<1>3. CASE /\ array' = array /\ a = obj[s].alloc
           /\ Fields(obj'[o], a, a, obj[s].hp, obj[s].buckets, obj[s].all_locks)
           /\ Fields(obj'[s], obj[s].alloc, obj[s].balloc, obj[s].hp, Null, <<>>)
  <2>1. PICK bu, c, by : bu = obj[s].buckets /\ c = obj[s].all_locks /\ by = array[bu].by
    OBVIOUS
  <2>2. Fields(obj'[o], a, a, hp, bu, c) /\ bu # Null /\ Now(bu, by, es)
    BY <1>0, <1>2, <1>3, <2>1 DEF Now
  <2>3. SameLocks(c, s)
    BY <1>2, <2>1 DEF SameLocks
  <2>6. Value(o)' = Value(s)
    BY <1>0, <1>1, <2>2, <2>3, TakenValue
  <2>4. Value(s)' = Unspecified
    <3>1. PICK al, ba, p : Fields(obj'[s], al, ba, p, Null, <<>>)
      BY <1>3
    <3>2. QED
      BY <3>1, NullValue
  <2>5. QED
    BY <1>1, <2>6, <2>4, UsedValue, OtherValues, ValueSteps
<1>4. ASSUME NEW n, n # Null, Now(n, a, Arr(s)),
             Now(Held(s), array[Held(s)].by, MovedAway(Arr(s))),
             Fields(obj'[o], a, a, obj[s].hp, n, <<Last(obj[s].all_locks)>>), obj'[s] = obj[s]
      PROVE  Values!Move(o, s)
  <2>1. PICK c, by : c = <<Last(obj[s].all_locks)>> /\ by = array[Held(s)].by
    OBVIOUS
  <2>2. Value(o)' = Value(s)
    <3>1. SameLocks(c, s)
      BY <1>2, <2>1, LastType DEF SameLocks
    <3>2. Fields(obj'[o], a, a, hp, n, c) /\ n # Null /\ Now(n, a, es)
      BY <1>0, <1>4, <2>1
    <3>3. QED
      BY <1>0, <1>1, <3>1, <3>2, TakenValue
  <2>3. Value(s)' \in {Unspecified, {}}
    BY <1>1, <1>4, <2>1, KeptMoved
  <2>4. QED
    BY <1>1, <2>2, <2>3, UsedValue, OtherValues, ValueSteps
<1>5. QED
  BY <1>3, <1>4, MoveConstructArrays

LEMMA ConstructThrowsValue ==
  ASSUME NEW o \in Objects, NEW a \in Allocators, ConstructThrows(o, a)
  PROVE  \A x \in Objects : Value(x)' = Value(x)
BY DEF ConstructThrows, Value, Usable, Alive, Arr

\* The elements a throwing constructor had moved are lost, if there were any.
LEMMA MoveConstructThrowsValue ==
  ASSUME TypeOK, Owners, NEW o \in Objects, NEW s \in Objects, NEW a \in Allocators,
         MoveConstructThrows(o, s, a)
  PROVE  \/ Values!LoseSource(o, s)
         \/ \A x \in Objects : Value(x)' = Value(x)
<1>1. /\ ~Alive(o) /\ Usable(s) /\ o # s /\ obj' = obj
      /\ array'[Held(s)] = [by |-> array[Held(s)].by, es |-> MovedAway(Arr(s))]
      /\ \A i \in DOMAIN array \ {Held(s)} : array'[i] = array[i]
  BY MoveConstructThrowsArrays
<1>2. OthersKept({s})
  BY <1>1 DEF OthersKept, Changes, TypeOK, Owners
<1>3. \A x \in Objects \ {s} : Value(x)' = Value(x)
  BY <1>2, OtherValues
<1>4. PICK by : Now(Held(s), by, MovedAway(Arr(s)))
  BY <1>1 DEF Now
<1>5. Value(s)' = Unspecified \/ (Value(s)' = {} /\ Value(s) = {})
  BY <1>1, <1>4, KeptMoved
<1>6. Value(o) = NoObject /\ Value(s) \in SUBSET Keys
  BY <1>1, LivingValue, UsedValue
<1>7. CASE Value(s)' = Unspecified
  BY <1>1, <1>3, <1>6, <1>7, ValueSteps
<1>8. CASE Value(s)' = Value(s)
  BY <1>3, <1>8
<1>9. QED
  BY <1>5, <1>7, <1>8

LEMMA CopyAssignValue ==
  ASSUME TypeOK, Owners, NEW o \in Objects, NEW s \in Objects, CopyAssign(o, s)
  PROVE  Values!Copy(o, s) \/ Values!Fail(o, s)
<1>1. Usable(s) /\ o # s /\ OthersKept({o}) /\ Alive(o)
  BY CopyAssignShape, CopyAssignArrays
<1>2. /\ Value(s) \in SUBSET Keys /\ Value(o) # NoObject
      /\ \A x \in Objects \ {o} : Value(x)' = Value(x)
  BY <1>1, UsedValue, LivingValue, OtherValues
<1>3. Value(o)' \in {Value(s), Unspecified}
  <2>1. PICK hp, es : hp = obj[s].hp /\ es = Arr(s)
    OBVIOUS
  <2>2. PICK a, c :
          \/ Fields(obj'[o], a, a, hp, Null, obj[o].all_locks)
          \/ \E n : n # Null /\ Now(n, a, es) /\ Fields(obj'[o], a, a, hp, n, c)
    BY <2>1, CopyAssignArrays
  <2>3. CASE Fields(obj'[o], a, a, hp, Null, obj[o].all_locks)
    <3>1. PICK lo : Fields(obj'[o], a, a, hp, Null, lo)
      BY <2>3
    <3>2. QED
      BY <3>1, NullValue
  <2>4. ASSUME NEW n, n # Null, Now(n, a, es), Fields(obj'[o], a, a, hp, n, c)
        PROVE  Value(o)' \in {Value(s), Unspecified}
    BY <1>1, <2>1, <2>4, TakenValue
  <2>5. QED
    BY <2>2, <2>3, <2>4
<1>4. QED
  BY <1>1, <1>2, <1>3, ValueSteps

LEMMA MoveAssignValue ==
  ASSUME TypeOK, Owners, NEW o \in Objects, NEW s \in Objects, MoveAssign(o, s)
  PROVE  Values!Move(o, s) \/ Values!Fail(o, s)
<1>1. Usable(s) /\ o # s /\ OthersKept({o, s}) /\ Alive(o)
  BY MoveAssignShape, MoveAssignArrays
<1>2. /\ Value(s) \in SUBSET Keys /\ Value(o) # NoObject
      /\ \A x \in Objects \ {o, s} : Value(x)' = Value(x)
  BY <1>1, UsedValue, LivingValue, OtherValues
<1>3. SUFFICES \/ Value(o)' = Value(s) /\ Value(s)' \in {Unspecified, {}}
               \/ Value(o)' = Unspecified /\ Value(s)' \in {Value(s), Unspecified}
  BY <1>1, <1>2, ValueSteps
<1>4. /\ obj[s].all_locks \in Seq(Seq(Nat)) /\ obj[s].all_locks # <<>>
      /\ Held(s) = obj[s].buckets /\ Held(s) # Null /\ Arr(s) = array[Held(s)].es
  BY <1>1, UsableObject, AliveObject
<1>5. PICK hp, es, lo : hp = obj[s].hp /\ es = Arr(s) /\ lo = obj[s].all_locks
  OBVIOUS
<1>6. SameLocks(lo, s)
  BY <1>4, <1>5 DEF SameLocks
<1>7. PICK a, b :
        \/ /\ array'[Held(s)] = array[Held(s)]
           /\ Fields(obj'[o], a, b, hp, obj[s].buckets, lo)
           /\ Fields(obj'[s], obj[s].alloc, obj[s].balloc, obj[s].hp, Null, <<>>)
        \/ /\ Fields(obj'[o], a, b, hp, Null, obj[o].all_locks)
           /\ obj'[s] = obj[s] /\ array'[Held(s)] = array[Held(s)]
        \/ /\ Now(Held(s), array[Held(s)].by, MovedAway(Arr(s)))
           /\ \E n :
              /\ n # Null /\ Now(n, a, es)
              /\ \/ /\ Fields(obj'[o], a, b, hp, n, obj[o].all_locks)
                    /\ obj'[s] = obj[s]
                 \/ /\ Fields(obj'[o], a, b, hp, n, lo)
                    /\ Fields(obj'[s], obj[s].alloc, obj[s].balloc, obj[s].hp,
                              obj[s].buckets, Hollow(obj[s].all_locks))
  BY <1>5, MoveAssignArrays
<1>8. CASE /\ array'[Held(s)] = array[Held(s)]
           /\ Fields(obj'[o], a, b, hp, obj[s].buckets, lo)
           /\ Fields(obj'[s], obj[s].alloc, obj[s].balloc, obj[s].hp, Null, <<>>)
  <2>1. PICK bu, by : bu = obj[s].buckets /\ by = array[bu].by
    OBVIOUS
  <2>2. Fields(obj'[o], a, b, hp, bu, lo) /\ bu # Null /\ Now(bu, by, es)
    BY <1>4, <1>5, <1>8, <2>1 DEF Now
  <2>3. Value(o)' = Value(s)
    BY <1>1, <1>5, <1>6, <2>2, TakenValue
  <2>4. PICK al, ba, p : Fields(obj'[s], al, ba, p, Null, <<>>)
    BY <1>8
  <2>5. Value(s)' = Unspecified
    BY <2>4, NullValue
  <2>6. QED
    BY <2>3, <2>5
<1>9. CASE /\ Fields(obj'[o], a, b, hp, Null, obj[o].all_locks)
           /\ obj'[s] = obj[s] /\ array'[Held(s)] = array[Held(s)]
  <2>1. PICK c : Fields(obj'[o], a, b, hp, Null, c)
    BY <1>9
  <2>2. Value(o)' = Unspecified
    BY <2>1, NullValue
  <2>3. OthersKept({o})
    BY <1>1, <1>9 DEF OthersKept, Changes
  <2>4. Value(s)' = Value(s)
    BY <1>1, <2>3, OtherValues
  <2>5. QED
    BY <2>2, <2>4
<1>10. ASSUME NEW n, n # Null, Now(n, a, es), Fields(obj'[o], a, b, hp, n, obj[o].all_locks),
              obj'[s] = obj[s], Now(Held(s), array[Held(s)].by, MovedAway(Arr(s)))
       PROVE  \/ Value(o)' = Value(s) /\ Value(s)' \in {Unspecified, {}}
              \/ Value(o)' = Unspecified /\ Value(s)' \in {Value(s), Unspecified}
  <2>1. PICK c, by : c = obj[o].all_locks /\ by = array[Held(s)].by
    OBVIOUS
  <2>2. Value(o)' \in {Value(s), Unspecified}
    BY <1>1, <1>5, <1>10, <2>1, TakenValue
  <2>3. Value(s)' = Unspecified \/ (Value(s)' = {} /\ Value(s) = {})
    BY <1>1, <1>10, <2>1, KeptMoved
  <2>4. QED
    BY <2>2, <2>3
<1>11. ASSUME NEW n, n # Null, Now(n, a, es), Fields(obj'[o], a, b, hp, n, lo),
              Fields(obj'[s], obj[s].alloc, obj[s].balloc, obj[s].hp, obj[s].buckets,
                     Hollow(obj[s].all_locks)),
              Now(Held(s), array[Held(s)].by, MovedAway(Arr(s)))
       PROVE  Value(o)' = Value(s) /\ Value(s)' = Unspecified
  <2>1. Value(o)' = Value(s)
    BY <1>1, <1>5, <1>6, <1>11, TakenValue
  <2>2. PICK al, ba, by, ls :
          /\ Fields(obj'[s], al, ba, obj[s].hp, obj[s].buckets, Hollow(obj[s].all_locks))
          /\ Now(Held(s), by, ls)
    BY <1>11
  <2>3. QED
    BY <1>1, <2>1, <2>2, HollowValue
<1>12. QED
  BY <1>7, <1>8, <1>9, <1>10, <1>11

\* Hashpower, array, locks and elements are those of s.
ContentsOf(s, hp, bu, lo, es) ==
  hp = obj[s].hp /\ bu = obj[s].buckets /\ lo = obj[s].all_locks /\ es = Arr(s)

\* The whole contents of s, the array and the locks, pass to o.
LEMMA PassedArray ==
  ASSUME TypeOK, Owners, NEW o \in Objects, NEW s \in Objects, Alive(s),
         NEW al, NEW ba, NEW hp, NEW bu, NEW lo, Fields(obj'[o], al, ba, hp, bu, lo), bu # Null,
         NEW by, NEW es, Now(bu, by, es),
         ContentsOf(s, hp, bu, lo, es)
  PROVE  Value(o)' = Value(s)
<1>1. Value(o)' = IF Whole(hp, lo, es) THEN KeysOf(es) ELSE Unspecified
  BY NowValue
<1>2. Usable(s) <=> Whole(hp, lo, es)
  BY DEF Usable, Whole, ContentsOf
<1>3. Value(s) = IF Whole(hp, lo, es) THEN KeysOf(es) ELSE Unspecified
  BY <1>2 DEF Value, KeysOf, ContentsOf
<1>4. QED
  BY <1>1, <1>3

LEMMA PassedValue ==
  ASSUME TypeOK, Owners, NEW o \in Objects, NEW s \in Objects, Alive(s),
         NEW al, NEW ba, NEW hp, NEW bu, NEW lo, Fields(obj'[o], al, ba, hp, bu, lo),
         hp = obj[s].hp, bu = obj[s].buckets, lo = obj[s].all_locks,
         bu # Null => \E by : Now(bu, by, Arr(s))
  PROVE  Value(o)' = Value(s)
<1>1. CASE bu = Null
  <2>1. Value(o)' = Unspecified
    BY <1>1, NullValue
  <2>2. Value(s) = Unspecified
    BY <1>1 DEF Value, Usable
  <2>3. QED
    BY <2>1, <2>2
<1>2. CASE bu # Null
  <2>1. PICK by, es : ContentsOf(s, hp, bu, lo, es) /\ Now(bu, by, es)
    BY <1>2 DEF ContentsOf
  <2>2. QED
    BY <1>2, <2>1, PassedArray
<1>3. QED
  BY <1>1, <1>2

LEMMA SwapValue ==
  ASSUME TypeOK, Owners, NEW o \in Objects, NEW s \in Objects, Swap(o, s)
  PROVE  Values!Swap(o, s)
<1>1. /\ o # s /\ Alive(o) /\ Alive(s) /\ Changes({o, s}) /\ array' = array
      /\ \E al, ba : Fields(obj'[o], al, ba, obj[s].hp, obj[s].buckets, obj[s].all_locks)
      /\ \E al, ba : Fields(obj'[s], al, ba, obj[o].hp, obj[o].buckets, obj[o].all_locks)
  BY SwapShape
<1>0. ASSUME NEW x \in Objects, obj[x].buckets # Null
      PROVE  \E by : Now(obj[x].buckets, by, Arr(x))
  BY <1>0, <1>1 DEF Now, Arr
<1>2. Value(o)' = Value(s)
  <2>1. PICK hp, bu, lo : hp = obj[s].hp /\ bu = obj[s].buckets /\ lo = obj[s].all_locks
    OBVIOUS
  <2>2. PICK al, ba : Fields(obj'[o], al, ba, hp, bu, lo)
    BY <1>1, <2>1
  <2>3. QED
    BY <1>0, <1>1, <2>1, <2>2, PassedValue
<1>3. Value(s)' = Value(o)
  <2>1. PICK hp, bu, lo : hp = obj[o].hp /\ bu = obj[o].buckets /\ lo = obj[o].all_locks
    OBVIOUS
  <2>2. PICK al, ba : Fields(obj'[s], al, ba, hp, bu, lo)
    BY <1>1, <2>1
  <2>3. QED
    BY <1>0, <1>1, <2>1, <2>2, PassedValue
<1>4. OthersKept({o, s})
  BY <1>1 DEF OthersKept
<1>5. QED
  BY <1>1, <1>2, <1>3, <1>4, LivingValue, OtherValues, ValueSteps

LEMMA DestroyValue ==
  ASSUME TypeOK, Owners, NEW o \in Objects, Destroy(o)
  PROVE  Values!Destroy(o)
<1>1. OthersKept({o}) /\ obj'[o] = NoObject /\ Alive(o)
  BY DestroyArrays, DestroyShape
<1>2. Value(o)' = NoObject
  BY <1>1 DEF Value, Alive
<1>3. QED
  BY <1>1, <1>2, LivingValue, OtherValues, ValueSteps

LEMMA ElementValue ==
  ASSUME TypeOK, Owners, NEW o \in Objects, ElementStep(o)
  PROVE  Values!Assign(o)
<1>1. PICK es \in SUBSET Element :
        /\ Usable(o) /\ IsFiniteSet(es) /\ (\A e \in es : e.live) /\ WithElements(o, es)
  BY ElementStepShape
<1>2. OthersKept({o})
  BY <1>1, ElementsArrays
<1>3. PICK hp, bu, c, lo : /\ hp = obj[o].hp /\ bu = Held(o) /\ lo = obj[o].all_locks
                           /\ c = Counted(lo, es)
  OBVIOUS
<1>4. /\ bu = obj[o].buckets /\ bu # Null /\ hp \in Hashpowers /\ lo \in Seq(Seq(Nat)) /\ lo # <<>>
      /\ bu \in DOMAIN array
  BY <1>1, <1>3, UsableObject, AliveObject
<1>5. PICK al, ba, by : Fields(obj'[o], al, ba, hp, bu, c) /\ Now(bu, by, es)
  <2>1. Fields(obj'[o], obj[o].alloc, obj[o].balloc, hp, bu, c)
    BY <1>1, <1>3, <1>4, ElementsShape
  <2>2. array'[bu] = [by |-> array[bu].by, es |-> es]
    BY <1>1, <1>3, ElementsOwners
  <2>3. PICK al, ba, by : al = obj[o].alloc /\ ba = obj[o].balloc /\ by = array[bu].by
    OBVIOUS
  <2>4. Now(bu, by, es) /\ Fields(obj'[o], al, ba, hp, bu, c)
    BY <2>1, <2>2, <2>3 DEF Now
  <2>5. QED
    BY <2>4
<1>6. Whole(hp, c, es)
  <2>1. /\ c # <<>> /\ Len(Last(c)) = Len(Last(lo))
        /\ \A l \in DOMAIN Last(c) : Last(c)[l] = Cardinality({e \in es : Lock(e.b) = l})
    BY <1>1, <1>3, <1>4, CountedLocks
  <2>2. Len(Last(lo)) >= Len(Locks(hp))
    BY <1>1, <1>3 DEF Usable
  <2>3. QED
    BY <1>1, <2>1, <2>2 DEF Whole
<1>7. Value(o)' = KeysOf(es)
  BY <1>4, <1>5, <1>6, NowValue
<1>8. KeysOf(es) \in SUBSET Keys
  BY DEF KeysOf, Element
<1>9. QED
  BY <1>1, <1>2, <1>7, <1>8, UsedValue, OtherValues, ValueSteps

\* Every step is one of the values', or leaves them as they are.
LEMMA StepValues ==
  ASSUME TypeOK, Owners, [Next]_vars
  PROVE  Values!Step
<1>1. CASE UNCHANGED vars
  <2>1. \A o \in Objects : Value(o)' = Value(o)
    BY <1>1 DEF Value, Usable, Alive, Arr, vars
  <2>2. QED
    BY <2>1 DEF Values!Step
<1>2. CASE Next
  <2>1. ASSUME NEW o \in Objects, ElementStep(o)
        PROVE  Values!Next
    BY <2>1, ElementValue DEF Values!Next
  <2>2. ASSUME NEW o \in Objects, NEW s \in Objects, NEW a \in Allocators,
               MoveConstructThrows(o, s, a)
        PROVE  Values!Step
    BY <2>2, MoveConstructThrowsValue DEF Values!Step, Values!Next
  <2>3. ASSUME NEW o \in Objects, NEW a \in Allocators, ConstructThrows(o, a)
        PROVE  Values!Step
    BY <2>3, ConstructThrowsValue DEF Values!Step
  <2>4. CASE \/ \E o \in Objects, a \in Allocators, hp \in Hashpowers : Construct(o, hp, a)
             \/ \E o, s \in Objects, a \in Allocators :
                  CopyConstruct(o, s, a) \/ MoveConstruct(o, s, a)
             \/ \E o, s \in Objects : CopyAssign(o, s) \/ MoveAssign(o, s) \/ Swap(o, s)
             \/ \E o \in Objects : Destroy(o) \/ ElementStep(o)
    <3>1. Values!Next
      BY <2>1, <2>4, ConstructValue, CopyConstructValue, MoveConstructValue, CopyAssignValue,
         MoveAssignValue, SwapValue, DestroyValue DEF Values!Next
    <3>2. QED
      BY <3>1 DEF Values!Step
  <2>5. QED
    BY <1>2, <2>2, <2>3, <2>4 DEF Next, ElementStep
<1>3. QED
  BY <1>1, <1>2

\* Constructors, copies, moves, assignments and swap keep what they promise:
\* every object holds a value of its own, and only an object that was moved
\* from, by a constructor that threw too, or whose assignment threw, holds an
\* unspecified one.
THEOREM ValuesCorrect == Spec => HoldsItsValue
<1>1. Init => Values!Init
  BY DEF Init, Values!Init, Value, Alive
<1>2. TypeOK /\ Owners /\ [Next]_vars => Values!Step
  BY StepValues
<1>3. QED
  BY <1>1, <1>2, OwnersInvariant, PTL DEF Spec, HoldsItsValue, Values!Spec, Values!Step

-----------------------------------------------------------------------------
(* The owners of locks.                                                    *)

HandleStates == [ref : Maps \union {NoMap}, active : BOOLEAN]
HandlesTyped == lt \in [Handles -> HandleStates]

LEMMA HandlesStep ==
  ASSUME HandlesTyped, OneOwner, [HandlesNext]_<<locked, lt>>
  PROVE  HandlesTyped' /\ OneOwner'
<1>1. DOMAIN lt = Handles
  BY DEF HandlesTyped
<1>2. CASE UNCHANGED <<locked, lt>>
  BY <1>2 DEF HandlesTyped, OneOwner, Active, Ref
<1>3. ASSUME NEW h \in Handles, NEW m \in Maps, TakeLocks(h, m)
      PROVE  HandlesTyped' /\ OneOwner'
  <2>1. HandlesTyped'
    BY <1>3 DEF TakeLocks, HandlesTyped, HandleStates
  <2>2. /\ lt'[h].ref = m /\ lt'[h].active
        /\ \A g \in Handles \ {h} : lt'[g] = lt[g]
        /\ locked' = locked \union {m}
    BY <1>3 DEF TakeLocks, HandlesTyped
  <2>3. ~lt[h].active /\ m \notin locked
    BY <1>3 DEF TakeLocks, Active
  <2>4. DOMAIN lt' = Handles
    BY <2>1 DEF HandlesTyped
  <2>5. QED
    BY <1>1, <2>1, <2>2, <2>3, <2>4 DEF OneOwner, Active, Ref
<1>4. ASSUME NEW h \in Handles, GiveBack(h)
      PROVE  HandlesTyped' /\ OneOwner'
  <2>1. HandlesTyped'
    BY <1>4 DEF GiveBack, HandlesTyped, HandleStates
  <2>2. /\ ~lt'[h].active
        /\ \A g \in Handles \ {h} : lt'[g] = lt[g]
        /\ locked' = IF lt[h].active THEN locked \ {lt[h].ref} ELSE locked
    BY <1>4 DEF GiveBack, HandlesTyped, HandleStates, Unlocked, Active, Ref
  <2>3. DOMAIN lt' = Handles
    BY <2>1 DEF HandlesTyped
  <2>4. QED
    BY <1>1, <2>1, <2>2, <2>3 DEF OneOwner, Active, Ref
<1>5. ASSUME NEW h \in Handles, NEW g \in Handles, HandOver(h, g)
      PROVE  HandlesTyped' /\ OneOwner'
  <2>1. CASE h = g
    BY <1>4, <1>5, <2>1 DEF HandOver, GiveBack
  <2>2. CASE h # g
    <3>1. lt' = [[lt EXCEPT ![h] = lt[g]] EXCEPT ![g].active = FALSE]
      BY <1>5, <2>2 DEF HandOver
    <3>2. HandlesTyped'
      BY <3>1 DEF HandlesTyped, HandleStates
    <3>3. /\ ~lt'[g].active /\ lt'[h] = lt[g]
          /\ \A k \in Handles \ {g, h} : lt'[k] = lt[k]
          /\ locked' = IF lt[h].active THEN locked \ {lt[h].ref} ELSE locked
      BY <1>5, <2>2, <3>1 DEF HandOver, HandlesTyped, HandleStates, Unlocked, Active, Ref
    <3>4. DOMAIN lt' = Handles
      BY <3>2 DEF HandlesTyped
    <3>5. QED
      BY <1>1, <2>2, <3>2, <3>3, <3>4 DEF OneOwner, Active, Ref
  <2>3. QED
    BY <2>1, <2>2
<1>6. QED
  BY <1>2, <1>3, <1>4, <1>5 DEF HandlesNext

\* Whatever is locked, unlocked, moved, assigned and assigned to itself, by any
\* number of handles of any number of maps, the locks of a map have one owner.
THEOREM OneOwnerCorrect == HandlesSpec => []OneOwner
<1>1. HandlesInit => HandlesTyped /\ OneOwner
  BY DEF HandlesInit, HandlesTyped, HandleStates, OneOwner, Active, Ref
<1>2. HandlesTyped /\ OneOwner /\ [HandlesNext]_<<locked, lt>> => (HandlesTyped /\ OneOwner)'
  BY HandlesStep
<1>3. QED
  BY <1>1, <1>2, PTL DEF HandlesSpec
=============================================================================
