-------------------------------- MODULE MCMap --------------------------------
(* Small instances of CuckooMap: hash functions and sets of calls, and four  *)
(* scenes of which each behaviour plays one. UniqueHome, SizeExact and       *)
(* AtomicCalls are checked as CuckooMap states them, for the calls and keys  *)
(* of all scenes together.                                                   *)
EXTENDS CuckooMap

CONSTANTS
  Scenes,
  BaseCalls,       \* the operations called in the scene "base"
  Preload,         \* elements the map starts with, inserted one by one
  InitHp           \* hashpower of the new map
VARIABLE scene

(* Both bytes equal: partial_key is 0, as slot_search assumes.             *)
Twice(l) == 257 * l
ZeroPartials == [k \in Keys |-> CASE k = "a" -> Twice(0) [] k = "b" -> Twice(1) [] k = "c" -> Twice(2)
                                  [] k = "d" -> Twice(3) [] OTHER -> Twice(4)]
(* In 4 buckets: a in 0 or 1, b in 2 or 3, c and d in 0 or 2.               *)
MixedPartials == [k \in Keys |-> CASE k = "a" -> Twice(0) [] k = "b" -> Twice(2) [] k = "c" -> 256 [] OTHER -> 770]
RealPartials == [k \in Keys |-> CASE k = "a" -> 256 [] k = "b" -> 2 [] k = "c" -> 257 [] OTHER -> 770]
(* Fit into 4 buckets when inserted in this order, into 8 in another.       *)
TightFit == [k \in Keys |-> CASE k = "a" -> 3 [] k = "b" -> 770 [] OTHER -> 512]

Look(k) == [op |-> "apply", k |-> k, fn |-> "keep", v |-> "u"]
Set(k, v) == [op |-> "apply", k |-> k, fn |-> "assign", v |-> v]
Erase(k) == [op |-> "apply", k |-> k, fn |-> "erase", v |-> "u"]
Insert(k, v) == [op |-> "uprase", k |-> k, fn |-> "keep", v |-> v]
Assign(k, v) == [op |-> "uprase", k |-> k, fn |-> "assign", v |-> v]
Rehash(n) == [op |-> "resize", by |-> "rehash", n |-> n]
Reserve(n) == [op |-> "resize", by |-> "reserve", n |-> n]
Clear == [op |-> "clear"]
Size == [op |-> "size"]
Limit(n) == [op |-> "limit", n |-> n]

ConcurrentCalls == {Insert("c", "u"), Insert("d", "u"), Assign("d", "w"), Erase("a"), Look("a"), Set("b", "w")}
ResizingCalls == {Insert("c", "u"), Assign("d", "w"), Rehash(0), Rehash(2), Reserve(5), Clear, Size, Limit(2)}
SlotCalls == {Insert("i", "u"), Insert("e", "w"), Erase("e"), Erase("f"), Look("e")}
InsertCalls == {Insert(k, "u") : k \in Keys}
RehashCalls == {Rehash(1)}
SizeCalls == {Insert("a", "u"), Insert("c", "u"), Erase("a"), Erase("b"), Size}

(* The same bucket up to 64 buckets, another one in 128.                   *)
SameLowBits == [k \in Keys |-> CASE k = "a" -> Twice(0) [] k = "b" -> Twice(64) [] OTHER -> Twice(128)]

OneElement == <<Elem("b", "u")>>
Nothing == <<>>
TwoElements == <<Elem("a", "u"), Elem("b", "u")>>
ThreeElements == <<Elem("a", "u"), Elem("b", "u"), Elem("c", "u")>>
FourElements == ThreeElements \o <<Elem("d", "u")>>
Zero == <<0, 1>>
Twentieth == <<1, 20>>
ThreeFifths == <<3, 5>>

-----------------------------------------------------------------------------
(* A table that is built by one thread.                                      *)
Alone == INSTANCE SequentialMap
RebuiltAlone(N, es) == Alone!Rebuilt(N, es)
Loaded == FoldLeft(LAMBDA T, e : Alone!InsertAlone(T, e, MinLoad, InitMaximum).T,
                   Alone!EmptyTable(InitHp), Preload)

(* The scenes. "base" is CuckooMap under the constants of the configuration. *)
Hashes == [k \in Keys |->
             IF k \in {"a", "b", "c", "d"} THEN MixedPartials[k]
             ELSE CASE k \in {"e", "p"} -> Twice(0) [] k \in {"f", "q"} -> Twice(1)
                    [] k \in {"g", "r"} -> Twice(2) [] k \in {"h", "s"} -> Twice(3)
                    [] OTHER -> Twice(4)]

Base == INSTANCE CuckooMap WITH Calls <- BaseCalls

\* Inserts, updates and erases next to cuckoo paths of two hops.
Paths == INSTANCE CuckooMap WITH Calls <- ConcurrentCalls

\* A table of two buckets and two locks that every insertion doubles, of types
\* that may throw when they are moved: it is rebuilt element by element.
ExpandingCalls == {Insert("r", "u"), Insert("s", "u"), Assign("s", "w"), Erase("p"), Look("p"), Set("q", "w")}
ExpandingStart ==
  FoldLeft(LAMBDA T, e : Alone!InsertAlone(T, e, MinLoad, InitMaximum).T,
           Alone!EmptyTable(1), <<Elem("p", "u"), Elem("q", "u")>>)
Expands == INSTANCE CuckooMap WITH
  Calls <- ExpandingCalls, Start <- ExpandingStart, NothrowTypes <- FALSE, TrivialTypes <- FALSE

\* Buckets of two slots, all of them full, and fewer locks than buckets.
Wide == INSTANCE SequentialMap WITH SLOT_PER_BUCKET <- 2, MAX_CUCKOO_COUNT <- 16, kMaxNumLocks <- 2
RebuiltWide(N, es) == Wide!Rebuilt(N, es)
WideStart ==
  FoldLeft(LAMBDA T, e : Wide!InsertAlone(T, e, MinLoad, 2).T, Wide!EmptyTable(1),
           <<Elem("e", "u"), Elem("f", "u"), Elem("g", "u"), Elem("h", "u")>>)
Two == INSTANCE CuckooMap WITH
  Calls <- SlotCalls, Start <- WideStart, InitMaximum <- 2, Rebuild <- RebuiltWide,
  SLOT_PER_BUCKET <- 2, MAX_CUCKOO_COUNT <- 16, kMaxNumLocks <- 2

(* Up to three elements, in every order, moved into new tables of up to    *)
(* four buckets: they all get there or the insertion fails.                *)
ASSUME RebuildsRight ==
  \A S \in {X \in SUBSET Keys : Cardinality(X) <= 3}, p \in 0..2 :
    \A ks \in SetToSeqs(S) :
      LET es == [i \in DOMAIN ks |-> Elem(ks[i], "u")]
      IN  RebuiltRight(p, es) /\ Two!RebuiltRight(p, es)

\* What the callers of all scenes call.
SceneCalls == BaseCalls \union ConcurrentCalls \union ExpandingCalls \union SlotCalls

SceneInit ==
  /\ scene \in Scenes
  /\ \/ scene = "base" /\ Base!Init
     \/ scene = "paths" /\ Paths!Init
     \/ scene = "expands" /\ Expands!Init
     \/ scene = "two slots" /\ Two!Init
SceneNext ==
  /\ UNCHANGED scene
  /\ \/ scene = "base" /\ Base!Next
     \/ scene = "paths" /\ Paths!Next
     \/ scene = "expands" /\ Expands!Next
     \/ scene = "two slots" /\ Two!Next
SceneSpec == SceneInit /\ [][SceneNext]_<<vars, scene>>
FairSceneSpec == SceneSpec /\ \A t \in Threads : WF_vars(scene = "base" /\ Base!Step(t) /\ UNCHANGED scene)
=============================================================================
