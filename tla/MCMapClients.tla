----------------------------- MODULE MCMapClients -----------------------------
(* Small instances of what is built on one map at a time: locked tables, the *)
(* C interface and map objects. The three do not interact: each behaviour    *)
(* plays one scene, the variables of the others keep their initial values.   *)
(* What is not qualified by an instance belongs to the map objects or to the *)
(* owners of locks.                                                          *)
EXTENDS MapObjects, TableHandles

CONSTANTS
  Scenes,
  TableKeys, Hash, SLOT_PER_BUCKET,     \* of all tables
  MAX_BFS_PATH_LEN, MAX_CUCKOO_COUNT, DefaultMinLoad, NoMaximum,
  Vals, Iterators,
  CKeys, CHash, CMinLoad, Sizes, Drift, \* of the C interface
  NoIterator, NoTable, NoFile

VARIABLES
  scene,
  map, it, file, hung,
  c_tbl, c_reading, c_tables, c_ltbl, c_it, c_file, c_ret, c_dead

locked_tables == <<map, locked, lt, it, file, hung>>
c_program == <<c_tbl, c_reading, c_tables, c_ltbl, c_it, c_file, c_ret, c_dead>>

Pair(k, v) == [k |-> k, v |-> v]
Hashes == [k \in TableKeys |-> CASE k = "a" -> 0 [] k = "b" -> 257 [] k = "c" -> 257 * 2 [] OTHER -> 257 * 3]
(* The same bucket up to 64 buckets, another one in 128.                   *)
SameLowBits == [k \in CKeys |-> CASE k = "a" -> 0 [] k = "b" -> 257 * 64 [] OTHER -> 257 * 128]
Twentieth == <<1, 20>>
Half == <<1, 2>>
(* Both keys have one bucket of two, "b" still has one of four: inserted    *)
(* after "a" it takes three doublings.                                     *)
Colliding == [k \in CKeys |-> IF k = "a" THEN 1284 ELSE 258]
Propagate(c, m, s) == [copy |-> c, move |-> m, swap |-> s]
NoSwap == {Propagate(c, m, FALSE) : c, m \in BOOLEAN}
OnSwap == {Propagate(FALSE, FALSE, TRUE)}
AnyName == Permutations(Handles) \union Permutations(Iterators)

\* One locked table that is traversed while it changes.
Traversal == INSTANCE LockedTable WITH
  Keys <- TableKeys, Maps <- {"m"}, Handles <- {"h"},
  Preload <- [m \in {"m"} |-> <<Pair("a", "u"), Pair("b", "u"), Pair("c", "u")>>],
  InitHp <- 1, Hashpowers <- {2}, Limits <- {1}, Traversable <- {"m"}, Writable <- {}, Zero <- "u"

\* Two handles of two maps, moved, compared, written to and read from streams.
\* The maps start with another value of the same key.
TwoTables == INSTANCE LockedTable WITH
  Keys <- {"a", "b"},
  Preload <- [m \in Maps |-> <<Pair("a", IF m = "m" THEN "w" ELSE "u")>>],
  InitHp <- 1, Hashpowers <- {2}, Limits <- {}, Traversable <- {}, Writable <- {"m"}, Zero <- "0"

C == INSTANCE CTable WITH
  Keys <- CKeys, Hash <- CHash, SLOT_PER_BUCKET <- 1, MAX_BFS_PATH_LEN <- 1,
  DefaultMinLoad <- CMinLoad,
  tbl <- c_tbl, reading <- c_reading, tables <- c_tables, ltbl <- c_ltbl, it <- c_it, file <- c_file,
  ret <- c_ret, dead <- c_dead

SceneInit ==
  /\ scene \in Scenes
  /\ IF scene = "two tables" THEN TwoTables!Init ELSE Traversal!Init
  /\ C!Init
  /\ Init /\ (scene # "objects" => traits = CHOOSE t \in Traits : TRUE)
SceneNext ==
  /\ UNCHANGED scene
  /\ \/ scene = "traversal" /\ Traversal!Next /\ UNCHANGED <<c_program, vars>>
     \/ scene = "two tables" /\ TwoTables!Next /\ UNCHANGED <<c_program, vars>>
     \/ scene = "c interface" /\ C!Next /\ UNCHANGED <<locked_tables, vars>>
     \/ scene = "objects" /\ Next /\ UNCHANGED <<locked_tables, c_program>>
SceneSpec == SceneInit /\ [][SceneNext]_<<scene, locked_tables, c_program, vars>>

(* Growing a table to 128 buckets takes no other steps than insertions.    *)
Fill ==
  \/ /\ C!init(0) \/ (\E k \in CKeys : C!insert(k, "u"))
        \/ C!lock_table \/ C!write \/ C!lt_free \/ C!free
     /\ UNCHANGED c_reading
  \/ C!Reading
FillNext == ~c_dead /\ Fill /\ UNCHANGED <<scene, locked_tables, vars>>
FillSpec == SceneInit /\ [][FillNext]_<<scene, locked_tables, c_program, vars>>

-----------------------------------------------------------------------------
(* In every scene the variables keep to their types; an iterator, of a     *)
(* locked table or of the C interface, is at an element or at the end,     *)
(* whatever was erased through another one.                                *)
ScenesTyped ==
  /\ IF scene = "two tables" THEN TwoTables!TypeOK ELSE Traversal!TypeOK
  /\ C!TypeOK
  /\ TypeOK

(* Erasing, inserting, resizing and reading a stream through a handle      *)
(* leave every map sound: MapsSound of LockedTable.                        *)
MapsSound == IF scene = "two tables" THEN TwoTables!MapsSound ELSE Traversal!MapsSound

(* A traversal visits every element once, in both directions and whatever  *)
(* is erased on the way: every step is one of TableCursor, as in           *)
(* TraversalsExact of LockedTable.                                         *)
TraversalsExact == [][scene = "traversal" => Traversal!Cursor!Step]_locked_tables

(* operator== and operator!= tell equal contents: EqualityIsContents of    *)
(* LockedTable.                                                            *)
EqualityIsContents == scene = "two tables" => TwoTables!EqualityIsContents

(* A read deletes what it has built wherever it fails: NoLeak of CTable.   *)
NoLeak == C!NoLeak

(* The table of the C interface stays sound: TableSound of CTable.         *)
TableSound == C!TableSound

(* A call that reports ENOMEM leaves the contents as they were:            *)
(* FailureChangesNothing of CTable.                                        *)
FailureChangesNothing == C!FailureChangesNothing

(* A table read from a file has the elements it was written from:          *)
(* FilesFaithful of CTable.                                                *)
FilesFaithful == C!FilesFaithful

(* The C interface expects no exception but std::bad_alloc: OnlyBadAlloc   *)
(* of CTable.                                                              *)
OnlyBadAlloc == C!OnlyBadAlloc
=============================================================================
