# Adaptive cuckoo filter: models, model checking and proofs

TLA+ models of this repository: the concurrent adaptive cuckoo filter in
`cuckoofilter/`, its tag tables and its block Bloom filter, and the concurrent hash
map `libcuckoo/` with its locked tables, its map objects and its C interface. They
are checked with TLC on small instances; for the filter's locks, storage, count and
atomicity, for the bits of tag tables and block filters, for the locks and the
operations of the map, for the owners of its locks and for the life of map objects
TLAPS proves the central properties for every instance. Paths and line numbers are relative to `src/`.

## The system

| component | state | operations | depends on |
|---|---|---|---|
| `CuckooFilter` (`cuckoofilter/src/cuckoofilter.h`) | `num_items_`, `victim_`, the mutex `write_lock` | `insert`, `erase`, `update`, `find`, `contains`, `findinfilter`, `iterate_all`, `Size`; internally `insert_impl`, `remove_false_positives`, `GenerateIndexTagHash` | tag table, slot storage |
| `SingleTable` (`cuckoofilter/src/singletable.h`) | four tags per bucket; a 16-bit counter per bucket, odd while a thread owns it | `ReadTag`, `WriteTag`, `ReadBucket`, `InsertTagToBucket`, the lookups, `increment_odd`, `increment_even`, `read_even_counter`, `counter_changed` | `bitsutil.h` |
| `PackedTable`, `PermEncoding` (`cuckoofilter/src/packedtable.h`, `permencoding.h`) | semi-sorted buckets | read, sort, write, insert, delete a tag, look up in two buckets | |
| SIMD block filter (`cuckoofilter/src/simd-block.h`) | a directory of buckets of eight lanes | `Add`, `Find` | |
| bucket container (`libcuckoo/libcuckoo/libcuckoo_bucket_container.hh`) | key-value storage and an occupied flag per slot, two allocators | `setKV`, `eraseKV`, construct, copy, move, swap, assign, resize | |
| `cuckoohash_map` (`libcuckoo/libcuckoo/cuckoohash_map.hh`) | buckets, hashpower, a list of containers of spinlocks with element counters, limits | find, update, erase, insert, upsert, cuckoo path search and move, `reserve`, `rehash`, `clear`, `size`, `maximum_hashpower` | bucket container |
| `locked_table` and its iterators | the held locks | lock, move, unlock, find, insert, erase, iterate, rehash, compare, read, write | `cuckoohash_map` |
| C interface (`libcuckoo/libcuckoo-c/`) | a table, its locked table, iterators | wrappers that turn `std::bad_alloc` into `ENOMEM`; `_read`, `_write` | `cuckoohash_map`, `locked_table` |
| hash functions, examples, benchmarks, tests, vendored `pcg` and `Catch` | | | |

How they interact. A caller's thread runs an operation to its end; there are no
background threads and no callbacks. All threads of the filter share the tag table,
the slot storage, `num_items_`, `victim_` and the mutex. Tag table and slot storage
are two arrays with the same index (bucket, slot), sized independently of each other;
nothing but the filter's protocol keeps them in step:

* a writer takes a bucket by moving its counter from even to odd (`increment_odd`,
  spinning) and gives it back with `increment_even`;
* `insert` tries its first bucket alone; when that is full it takes the mutex and
  displaces pairs along a chain, taking the next bucket before it gives back the last
  one; a chain that grows too long leaves its pair in the victim cache, which has one
  entry, and while that is used `insert` refuses;
* `erase` and `update` take both buckets of the key, i1 first;
* `find` takes nothing: it waits for even counters, reads the tag words, then the
  storage of each slot whose tag matches. A slot with a matching tag and another key
  is a *false positive*; at its end `find` takes i1 and moves every false positive it
  collected to the next slot, where the key has another tag.

The filter uses the hash map as storage only: it writes its buckets directly
(`update_bucket_at_slot` and its like) and takes none of its locks. The hash map on
its own is a second concurrent system. Its threads share the buckets, the hashpower
and a list of lock containers; an operation reads the hashpower, locks one, two or
three buckets in the current container, and compares the hashpower again; an insertion
into two full buckets gives up its locks, searches a path of displacements one bucket
at a time, follows it backwards hop by hop, and validates every hop; a resize takes
every lock, appends a larger container, and rebuilds or doubles the buckets. A
`locked_table` keeps all locks of a map until it is unlocked or moved from.

What is hard here: lock-free lookups against chains, erases and adaptations; what is
read before a lock and used under it; two or three locks per call, and resizes that
take them all; a counter that is lock and version and wraps; one pair in flight
between buckets; three arrays and one count that are updated one after the other; a
path that is stale by the time it is followed; lock containers that outlive the
hashpower they were made for; exceptions half-way through a resize, an assignment or a
read; tags that share bytes with their neighbours. `PROJECT.json` lists each hazard at
its line, with the properties that cover it.

What makes each component correct:

* filter: a stored key is found, a found value is stored under its key, an erase
  removes one copy, nothing else adds or removes a pair, `Size` is exact when the
  filter is quiet, every call returns;
* tag tables: at most one owner per bucket, parity survives the wrap, a write changes
  one tag only and at once, a lookup finds exactly the stored tags;
* slot storage: an occupied flag where and only where a tag is set, as many buckets
  as the tag table has;
* hash map: every operation is atomic, a key is in one of its buckets and nowhere
  else, the counters are exact, locks are taken in one order, a locked bucket stays
  the right one, a failed resize changes nothing, every call returns;
* locked tables and iterators: one owner of a map's locks, a traversal meets every
  element once whatever is erased on the way, `==` compares contents, a stream gives
  back what was written;
* map objects: every array belongs to one object and is freed by the allocator that
  made it, a copy leaves its source alone;
* C interface: a call that reports `ENOMEM` has changed nothing, nothing is leaked, no
  other exception leaves it.

## Modules

| module | what it is |
|---|---|
| `AdaptiveFilter` | the filter over its tag table and slot storage: state, one action per observable step of each operation, lock and storage invariants |
| `KeyValueBag` | abstract specification: an atomic bag of key-value pairs; a call starts, takes effect once, returns |
| `FilterContents` | what a state of `AdaptiveFilter` stores (with pairs in flight), exactness of `num_items_`, answers of `find`, `iterate_all`, the refinement mapping to `KeyValueBag` |
| `FilterSizes` | the constructor's arithmetic: buckets of the tag table, of the hash map, bytes of the arrays |
| `MCFilter`, `MCFilterBudget` | hash layouts, tags, calls and initial contents for TLC; the second bounds the number of calls per thread |
| `AdaptiveFilterProofs` | theorems about `AdaptiveFilter`: types; mutex and counters exclude; the storage agrees with the tags |
| `FilterContentsProofs` | theorems about `FilterContents`: the count is exact; insertions, erases and updates implement `KeyValueBag`; what one thread that also looks up is told |
| `CuckooMapLocks` | the lock containers of `cuckoohash_map`, one lock at a time, with resizes |
| `LocksProofs` | theorems about `CuckooMapLocks` |
| `CuckooTable` | a table and the algorithms on it as operators: indices, slot search, path, moves, doubling |
| `CuckooMap` | `cuckoohash_map` between locked sections: every operation, the search slot by slot, the path bucket by bucket, the move hop by hop, resizes, limits, `size` |
| `CuckooTableProofs` | lemmas about `CuckooTable`: the arithmetic of the two indices, searches and paths, what a write, a hop and a doubling do to a table |
| `CuckooMapProofs` | theorems about `CuckooMap`: shape, unique keys at home, exact counters, refinement of `AtomicMap` |
| `AtomicMap` | abstract specification of the map: every operation takes effect at one instant |
| `MCMap` | hash functions, calls and four scenes for TLC |
| `SequentialMap` | the map in the hands of its only user: operations as functions of a map, rebuilding element by element, iterators, comparison, streams |
| `TableHandles` | who owns the locks of a map: the handles' part of `locked_table` |
| `LockedTable` | extends `TableHandles` by what the handles do: iterators and modifiers of several maps |
| `TableCursor` | abstract specification of iterators: what has been passed, what is ahead |
| `CTable` | the C interface with failing allocations and files that are cut short and read pair by pair |
| `MapObjects` | construction, copy, move, swap, assignment and destruction of maps, down to arrays, elements and allocators |
| `MapValues` | abstract specification of map objects: every object has a value of its own |
| `MapObjectsProofs` | theorems about `MapObjects`: types, owners of arrays, allocators, refinement of `MapValues`; and about `TableHandles`: owners of locks |
| `MCMapClients` | extends `MapObjects` and `TableHandles` by three scenes of locked tables and the C interface |
| `SingleTable` | the bits of 2- to 16-bit tags: masks, read-modify-writes of two threads, word-parallel lookups, `GenerateIndexTagHash` |
| `TagArray` | abstract specification of `SingleTable`: an array whose slots are written at once |
| `PermEncoding` | the numbers of sorted tuples of nibbles, and their two tables |
| `PackedTable` | the semi-sorted table bit by bit, with an encoding as a parameter |
| `TagBuckets` | abstract specification of `PackedTable`: bags of tags |
| `SimdBlock` | the block Bloom filter |
| `TagStoreProofs` | theorems about `SingleTable`, `FilterSizes` and `SimdBlock`: lookups are exact, writes land and implement `TagArray`, sizes fit each other, no key of the block filter is missed |
| `PackedTableProofs` | theorems about `PackedTable`: it implements `TagBuckets`, its lookup of two buckets is right for 13-bit tags |
| `MCTagStores` | four scenes: packed table, single tags, array sizes, block filter |

Refinements checked: `AdaptiveFilter` implements `KeyValueBag` (`AtomicCalls`),
`CuckooMap` implements `AtomicMap` (`AtomicCalls`), `LockedTable` implements
`TableCursor` (`TraversalsExact`), `MapObjects` implements `MapValues`
(`HoldsItsValue`), `SingleTable` implements `TagArray` (`WritesAreAtomic`),
`PackedTable` implements `TagBuckets` (`BucketsAreBags`).

How the models rest on each other. `AdaptiveFilter` takes the write of one tag and the
comparison of a bucket with a tag for one step each; `SingleTable` shows what the words
do underneath and that a write is atomic as long as its writer owns the bucket, which
`LockInv` and `OnlyOwnersWrite` say of `AdaptiveFilter` for all but one writer: an
adaptation of i2 (`cuckoofilter.h:493-530`), which `Reviving` and `concurrent_finds`
report. What that write does to a neighbour's bits of the same word is not modelled. `AdaptiveFilter` uses one index for both
arrays; `FilterSizes` shows that they are equally large. `CuckooMap` takes what a
thread does under the locks of its buckets for one step; `CuckooMapLocks` shows when
those locks exclude, and its counterexamples delimit that: two threads that resize, or
a table that grows and shrinks back, are outside what `CuckooMap` may assume.
`LockedTable` and `CTable` run one operation at a time because the owner of all locks
is alone, which is `Exclusion` of `CuckooMapLocks`.


### AdaptiveFilter and the code

`counter`, `tags`, `num_items`, `victim`, `write_lock` are `counters_`, the bits of
`buckets_`, `num_items_`, `victim_` and `write_lock`; `kv` and `occupied` are the slot
storage. `pc` and `loc` are the point a thread has reached and its arguments and
local variables. A step is one access to shared memory another thread can observe.

| code | actions |
|---|---|
| `insert`, `insert_impl` first bucket (347-358) | `FirstLock`, `TakeFreeSlot`, `PutKV`, `PutCount`, `PutUnlock`, or `FirstFull`, `FullUnlock` |
| mutex, victim test, second bucket (360-368) | `InsertMutex`, `InsertRefused` or `InsertProceed`, `SecondLock` |
| kick loop (371-399) | `TakeFreeSlot`, or `KickOut`, `KickRead`, `KickKV`, `KickLock`, `KickUnlock`, and round again |
| victim (401-413) | `VictimKV` (`VictimKey`, then `VictimVal`), `VictimUsed`, `VictimUnlock`, `VictimCount`, `MutexUnlock` |
| `erase` (418-489), `update` (549-617) | `PairLock1`, `PairLock2`, `PairHit` or `PairMiss`; then `EraseTag`, `EraseKV`, `EraseUnlock1`, `EraseUnlock2`, `EraseCount`, or `UpdateKV`, `PairUnlock2`, `PairUnlock1`; on a miss `MissMutex`, `MissVictim`, `MissUnlock`, after which `update` inserts |
| `find` (172-262), `findinfilter` (266-312) | `FindEven1`, `FindEven2`, `FindBreak` or `FindRead1`, `FindKey1`, `FindRead2`, `FindKey2`, `FindVal`, `FindAgain`, `FindVictim`, `FindVKey`, `FindVVal` |
| adaptation (253-259, 493-530) | `AdaptLock`, then for each false positive `RfRead` (`RfReadTag`, `RfReadSlot` and, if the next slot's tag is not zero, `RfReadNewSlot`), `RfTagNew`, `RfTagSlot`, `RfKVNew`, `RfKVSlot`, then `AdaptUnlock` |

`contains` is `find` without its value. `Begin` and `Return` are the call and its
return. `iterate_all` is an operator of `FilterContents`.

Abstractions, and why they are sound for what is checked:

* The hash is a constant: `Index1`, `Index2` and `Tag[key][slot]`, any functions, so
  also keys whose buckets coincide or mirror each other and keys whose tags
  collide. `OtherBucket` is the code's recomputation of both indices. What
  `GenerateIndexTagHash` computes from the hash is `TagHash` of `SingleTable`.
* A 64-bit load of a bucket and a write of one tag are one step each (the compiler
  merges the two assignments of `WriteTag` to one store, aligned or within one cache
  line on the platforms the code names, little-endian x86). The 16 bits of the next
  bucket that `ReadBucket` sees are modelled in `WordIsZero`. `SingleTable` splits the
  write into its load and its store.
* Keys and values are compared and copied whole: `find` reads the key and later the
  value, so a mixture of two pairs is possible, of two halves of one word is not.
* Uninitialised storage reads as `Garbage`, an arbitrary but fixed pair.
* What a thread reads in a bucket it owns is read in one step. What an adaptation reads,
  in a bucket it need not own, is three steps.
* Spinning is waiting: a step that takes a counter is enabled when it is even.
* `rand()` is a choice among the slots.
* `num_items_` is an integer; that it neither underflows nor drifts is `CountExact`.
* Memory is sequentially consistent. Counters, `num_items_` and `victim_.used` are
  atomics; all else is plain memory on x86.

### The hash map and the code

`CuckooMapLocks` is `cuckoohash_map.hh:817-1054` and the lock part of the resizes.
`held` is which spinlocks are locked and by whom; `taken` is what a thread's
`TwoBuckets` or `LockManager` believes to hold, which is not the same once somebody
else's `AllUnlocker` has been there.

| code | actions |
|---|---|
| `snapshot_and_lock_two`, `lock_one`, `lock_two`, `lock_three` | `Begin`, `Snapshot` (reads the hashpower), `GetLocks` (reads the container), `LockFirst`, `check_hashpower`, `LockNext` |
| `LockManager`, `TwoBuckets::unlock` | `StartUnlock`, `UnlockOne`, `Return` |
| `snapshot_and_lock_all`, `AllUnlocker` | `BeginAll`, `LockAllNext`, `LockAllDone`; `BeginUnlockAll`, `UnlockAllNext`, `UnlockAllDone` |
| `maybe_resize_locks`, swap of the buckets | `maybe_resize_locks`, `SwapBuckets` |

The buckets of an operation are any three of the table, which includes pairs and
single buckets; the contents are left out.

`CuckooTable` and `CuckooMap` are the rest of the map. A step is what happens between
two changes of the locks: `Apply` is an operation that finds its key or does nothing
(`find_fn`, `update_fn`, `erase_fn` with the functions the clients pass),
`cuckoo_insert` the locked part of `uprase_fn`, `upsert` and `insert`, with its
outcomes ok, duplicate, full; `SearchStep` reads one bucket of the breadth-first
search, `PathStep` one bucket of `cuckoopath_search`, `MoveStep` is one hop of
`cuckoopath_move` with its validation; `Expand` is `cuckoo_fast_double` or
`cuckoo_expand_simple` after the failed search, `cuckoo_rehash` covers `rehash` and
`reserve`, `cuckoo_clear` clears; `BeginSize` and `SizeStep` read one lock's counter
each; `LimitCheck` and `LimitStore` are `maximum_hashpower(n)`. Between any two of
them the other thread may do anything the code lets it.

* Atomic sections under locks: justified by `Exclusion` of `CuckooMapLocks` where one
  thread at a time resizes and the table only grows, and only there; the two
  counterexamples `two_resizers` and `ShrunkMap` show what is left out.
* `parallel_exec` inserts the elements of the old map in an arbitrary order and stops
  at the first failure, instead of two threads that interleave element by element;
  the elements still end in one table through the same `insert`.
* Hashes have 16 bits, whose two bytes give `partial_key`; of the multiplier of
  `alt_index` only the low byte, 149, is kept, which is exact below 2^8 buckets.
* An element is its key, its value and whether it has been moved from. The constants
  `NothrowTypes` and `TrivialTypes` stand for the traits of key and value types that
  the code selects on.
* What a rebuilt table looks like is the parameter `Rebuild` of `CuckooMap`, so that
  the module has no recursive operator; `MCMap` sets it to `Rebuilt` of `SequentialMap`,
  which inserts one element after the other. `RebuiltRight` says what it has to be, and
  the assumption `RebuildsRight` of `MCMap` evaluates that for every sequence of up to
  three of the thirteen keys and new tables of one to four buckets, with one slot per
  bucket and with two.

`SequentialMap` has the same operations for one thread that owns the map, as functions
from maps to maps, so that `LockedTable` and `CTable` can use several maps. A map is a
record of table, counters and limits; an iterator is a position. Every member function
of `locked_table` is an action of `LockedTable`, and every function of
`cuckoo_table_template.h` one of `CTable`, where each call may run out of memory at
the points where the code allocates and `file` holds a prefix of what was written. `_read` is a step to open the file and
make the table (`read`), one for each pair (`read_pair`) and one for the end
(`read_ends`); `reading` is the table on its way, which `Deletes` gives up where the
file ends or memory runs out. An insertion may run out of memory after any number of
the doublings it does (`OutOfMemory`). A call of `LockedTable` that follows the same
path for ever does not return: its handle is in `hung` and makes no other call.
A call the C interface makes undefined (a freed table, a stale iterator) is not made:
the guards `Usable`, `Live`, `Object` are the client's contract. `c_dead` is a process
that an uncaught exception has ended.

`TableHandles` has the handles alone: `TakeLocks` is `lock_table`, `GiveBack` is
`unlock` (and the destructor, which does the same), `HandOver` is the move assignment,
onto itself too. `LockedTable` adds to each what happens to iterators.

`MapObjects` descends to what a container owns: an array with its length and its
elements, the allocator that made it, the copy of that allocator kept for buckets. The
five containers of a map are moved or copied one after the other, as the defaulted
members do. Whatever allocates may throw: `ConstructThrows` is a constructor that fails
once its container has an array, `MoveConstructThrows` the move constructor with an
unequal allocator whose locks cannot be allocated (`cuckoohash_map.hh:188`) when the
elements have left the source already (182); the assignments have such outcomes each.
To `MapValues` the latter is `LoseSource`: no new object, and a source whose value is
unspecified.

### The tag stores and the code

A word is the set of its bits that are 1. `SingleTable` has the expressions of
`singletable.h` and `bitsutil.h` on such words: `ReadTag`, `NewWord` (the
read-modify-write of `WriteTag` for each width), `haszero` with its borrows lane by
lane (`Borrows`), and the four lookups; `InsertTagToBucket` has both values of `kickout`, without which
it leaves a full bucket alone. Writers own their bucket. `LoadWord` and `StoreWord` are the two halves
of a write; the store is merged with `increment_even`, which follows it under the same
lock. `thread` is what each thread is about to write, and the word it has read for it. `PackedTable` has `ReadBucket`, `WriteBucket`, `SortTags` and
`FindTagInBuckets` for the widths of the code's `if` chains; its parameters `encode`
and `decode` are those of `PermEncoding`, whose tables are built by recursion. `FilterSizes`
has one step, the choice of the capacity, and the constructors' arithmetic as
operators of it, `upperpower2` by its shifts. `SimdBlock` takes the multiply-shift hash
as two constants, `hasher_` and `TopBits` (the product's top five bits).

## What the runs check

Passing runs:

| run | instance | properties |
|---|---|---|
| `sequential` | the filter, one thread, every operation on three keys, two buckets of two slots, counters of one bit | `TypeOK`; `SlotInv`: where nobody writes, a tag is set exactly where a pair is stored, is the tag of that key for that slot, and the bucket is one of the key's; `CountExact`: `num_items_` is the number of pairs in table, flight and victim cache; `FindAnswer`: what `find` answers is right, except where the zero-word break skips the second bucket |
| `writers` | two threads, `insert`, `erase`, `update`, three and two calls, nearly full table | `LockInv`, `MutexInv`, `SlotInv`, `CountExact`, `OnlyOwnersWrite` (a bucket changes only under its owner's hands), `AtomicCalls`: concurrent calls are atomic, a displaced pair is never missing or double, and ends in the victim cache if need be |
| `readers` | one writer, one reader, two calls each | `CallsReturn`, with chains that hold a bucket and the mutex while they wait for the next and adaptations that hold one |
| `locks` | three threads, one resizer, hashpower 0 to 2, at most two locks per container | `TypeOK`, `Exclusion`, `IndexInContainer`, `LockOrder`, `CallsReturn` |
| `map` | two threads, two calls each, four scenes: resizes, limits, clear and size next to insertions; cuckoo paths of two hops next to erases; doublings by rebuilding; full buckets of two slots | `UniqueHome`: a key is stored once, in one of its buckets; `SizeExact`: the counters add up to the elements; `AtomicCalls`: every operation takes effect at one instant, an insertion that throws has done nothing |
| `clients` | four scenes: a traversal, two locked tables, the C interface, two map objects | `ScenesTyped` (the type invariants of all four, among them `TypeOK` of `MapObjects`), `OneOwner`, `MapsSound`, `EqualityIsContents`, `TraversalsExact`; `NoLeak`, `TableSound`, `FailureChangesNothing`, `FilesFaithful`; `ArraysOwned`, `RightAllocator`, `HoldsItsValue` |
| `tags` | four scenes: semi-sorted buckets, two writers of tags of one bucket, the array sizes for every capacity, the block filter | `PairLookupRight`, `BucketsAreBags`; `FindsExactly`, `WritesAreAtomic`, `WritesLand`; `StorageCovers`, `MaskAndRoom`, `LoadsInside`; `FindsWhatWasAdded` |

A run with scenes plays one of several instances in each behaviour: the first state
chooses, and the variables of the others keep their initial values. The scenes do not
interact, so that checking them together is checking each.

Each property of a passing run has a mutant in `PROJECT.json`: a plausible mistake in
one mapped definition that makes TLC refute it.

Runs that show where the code departs from what its documents and tests say:

| run | what happens |
|---|---|
| `empty_first_bucket` | `find` stops when the word of i1 is zero (`cuckoofilter.h:195`). Fill i1, so that a key goes to i2, erase i1's keys, look the key up: absent. One thread is enough. |
| `concurrent_finds` | Two threads that only look up. An adaptation owns i1 but rewrites slots of i2 too, and it chose them before it owned anything (254): a stored key is overwritten. |
| `erase_deadlock` | `erase` and `update` lock i1 then i2 (430-433, 557-560): mirrored keys block each other for ever. |
| `two_resizers` | The first resizer's `AllUnlocker` (`cuckoohash_map.hh:893`) walks to the end of the list of lock containers and frees the one a second resizer has appended and locked. |
| `insert_livelock` | `slot_search` follows displacements with partial 0 (1591), `cuckoopath_search` with the items' own: the path ends in a full bucket, is refused, and found again for ever. One thread is enough. |

### Further configurations

Configurations kept for use by hand, `tlc -workers 2 -config X.cfg Module.tla`.
They are violated; each is a finding in `PROJECT.json` with the line it contradicts:

| configuration | module | what happens |
|---|---|---|
| `RacingFinds` (with `-continue`) | `MCFilterBudget` | Two at once. `InsertedIsFound`: the retry condition (`cuckoofilter.h:244`) tests `counter_changed(i2, c2)` twice and c1 never, and a chain that moves a pair to i1 behind the reader's back goes unnoticed. `FoundValueIsStored`: a hit (209-212) returns without comparing any counter, and the value may be another key's. |
| `Reviving` | `MCFilterBudget` | The pair of a collected slot has been erased since; the adaptation stores it again (493-530). |
| `TwinBuckets` | `MCFilterBudget` | i1 = i2: the second scan collects the same slots again (237); the second adaptation works on a slot that is empty by then. |
| `LostListing` | `MCFilter` | `iterate_all` writes every element to position 0 (`cuckoohash_map.hh:713-727`). |
| `NeedlessRefusal` | `MCMap` | An insertion throws for a load factor that another thread's doubling has just halved (1716). |
| `FailedRehash` | `MCMap` | A rehash of types that are moved loses the elements moved before its insertion threw (1781). |
| `RehashOverMaximum` | `MCMap` | The new map of a rehash has no maximum hashpower (1772). |
| `NegativeSize` | `MCMap` | `size` adds counters it reads at different times and asserts the sum not negative (341-344). |
| `ShrunkMap` | `CuckooMapLocks` | The table grows and shrinks back while a thread waits for a lock of the old container; it proceeds next to an owner in the new one (915). |
| `UnreadableFile` | `MCMapClients` | `_read` leaves the default minimum load factor in place, and the insertion of keys that `_init`'s table took throws through the C interface (`cuckoo_table_template.cc:76`). |
| `SwappedAllocators` | `MCMapClients` | `swap` with propagating allocators refreshes `bucket_allocator_` on one side only (`libcuckoo_bucket_container.hh:169`). |
| `TagDefects` (with `-continue`) | `MCTagStores` | Three at once. `PairLookupRight`: `FindTagInBuckets` of the semi-sorted table has the layout of 13-bit tags only (`packedtable.h:327`). `WritesLand`: a 2-bit tag is or-ed in without clearing its slot (`singletable.h:114`). `HeapSpaceRespected`: the block filter takes at least 64 bytes whatever it was given (`simd-block.h:78`). |

### Bounds

* Filter. Two buckets with two slots (three in `concurrent_finds`, where two scans
  overlap on three keys), three or four keys: enough for a full bucket, a key in its
  second bucket, a chain of two displacements, collisions in one slot and not in the
  next, a key whose two buckets coincide (k4) and two keys with mirrored buckets (k1,
  k3). `kMaxCuckooCount` is 2 or 3, so that the victim cache is reached. `CounterMax`
  is 1 where the value of a counter does not matter and wraps should happen at every
  use, and 15 where `find` compares counters: those runs make too few calls to come
  back to the same value, as 65536 increments during one lookup are taken not to
  happen. `MaxCalls` bounds the calls of each thread in the concurrent runs; the
  sequential runs are unbounded in calls.
  In `writers` each thread inserts, erases and updates its own keys, as the threads of
  `old_test.cc` did before their body was commented out: `AtomicCalls` is checked for
  such callers; what two updates of one new key may do is under "What no property
  covers".
* Locks. Three threads with a call each, of which one resizes; hashpowers 0 to 2 and
  `kMaxNumLocks` 2, so that a container grows once and then buckets share locks; an
  operation that is overtaken by two resizes; three buckets wanted at a time.
* Map. Two threads, two calls each; four buckets growing to eight with buckets of one
  slot, two growing to four with two slots; `MAX_BFS_PATH_LEN` 3 and a queue of 8 (16)
  entries instead of 5 and 256: paths of two hops, and searches that end for want of
  room in the queue; at most four locks, so that the counters of several buckets share
  one; maximum hashpower 2 or 3, so that it is met. Two threads are what a path
  and its disturber need.
* Clients. Two handles, two iterators, two maps, keys `a` to `d`, hashpowers 1 and 2,
  one growth beyond; the maps start with different values under one key, so that
  comparisons have values to tell apart; symmetry over handles and over iterators,
  whose names no definition compares; two objects with two allocators and every
  combination of propagation traits except propagation on swap, which
  `SwappedAllocators` shows broken. Limits are not changed in the scene that reads
  streams; a refused limit in a stream is `RehashOverMaximum`'s.
  The C interface has tables that start with one bucket of one slot and two keys whose
  hashes share their low bits, with a path length of one: the second insertion doubles
  the table three times, so that memory may run out between doublings, a file has up
  to two pairs, and a read of it may end or fail after each. With a minimum load factor
  of one half such a read also throws the other exception. `Drift`, the difference
  between a file's element count and its elements, is 0.
* Tag stores. Semi-sorted tags of 5, 6, 7, 8, 9, 13 and 17 bits in two buckets that share a
  byte where the code lets them, tags with equal and different low bits; `PairLookups`
  is 13, the only width whose pair lookup is right; single tags of 4, 8, 12 and 16
  bits, two threads; every capacity up to 3000, in words of 31 bits, as TLC's integers have no more; every set of seven keys in block
  filters of 2, 4 and 8 buckets.

Bounded instances stop, so those configurations say `CHECK_DEADLOCK FALSE`; that no
call hangs is the question of `CallsReturn`.

### Fairness

`FairBudgetSpec` (filter), `FairSpec` (`CuckooMapLocks`) and `FairSceneSpec` (`MCMap`)
assume weak fairness of each thread's steps inside a call, which the operating system
gives: a runnable thread runs. Nothing is assumed about who gets a contended lock, nor
that a caller ever calls. With a bounded number of calls a thread cannot be overtaken
for ever, so `CallsReturn` is about deadlock, forgotten locks and retries that never
end, not about starvation under unbounded contention, from which spinlocks offer no
protection. `CuckooMapLocks` adds strong fairness of `BeginUnlockAll`: a thread that
owns all locks (a `locked_table` may resize as often as it likes) lets go of them some
time.

## What is proved

**The filter.** For every set of threads, keys and values, every number of buckets,
every number of slots of at least two, every `CounterMax` that is odd (as 2^16 - 1
is), all hash functions, all calls and initial contents, under the named assumptions
`SizeAssumption`, `HashAssumption`, `CallAssumption`, `PreloadAssumption` of
`AdaptiveFilter`:

* `TypeCorrect`: `Spec => []TypeOK`. `TypeOK` is inductive as it stands: beside types
  it says that a scan has a slot left to compare and an adaptation a false positive
  left to move, without which `FirstOf` and `Head` would be undefined. One lemma per
  group of operations, one case per action; `ShapeStep` isolates what a step of one
  thread does to the work lists.
* `MutexCorrect`: `Spec => []MutexInv`, by `TypeOK /\ MutexInv`.
* `LockCorrect`: `Spec => []LockInv`. `LockInv` is not inductive: `KickUnlock` gives
  back the bucket the displaced pair has left and keeps the one it goes to, so it
  must be known that the two differ. `KickInv` says so; it holds because the second
  counter, being odd already, could not have been taken otherwise. Every action is
  shown to keep, acquire or release one bucket (`LockStep`), the three kinds are
  shown to preserve the invariant once (`LockStepInv`), and `BumpParity` says that
  an increment changes parity also when it wraps, which needs `CounterMax` odd.
* `SlotsAgree` and `OwnersWrite`: `NoLookups => (Spec => []SlotInv)` and
  `NoLookups => (Spec => OnlyOwnersWrite)`, where `NoLookups` says that no caller calls
  `find` or `contains`; `findinfilter`, which adapts nothing, is allowed. The invariant is
  `AgreeInv`: at each point of an operation a thread's local variables describe the
  buckets it owns (`Local`: which slot it found, which pair it carries, what its pair
  and tag have in common), and every slot agrees with its tag unless its bucket's owner
  is half-way through writing it (`SlotOK`, `Dirty`). Every step is shown to write
  nothing, or one slot of a bucket its thread holds (`TableStep`); `LockInv` then says
  that no other thread's knowledge is about that bucket, which `TableStepInv` proves
  once for all operations. The hypothesis is needed: an adaptation writes buckets it
  does not own, from what it read before it owned anything, and `concurrent_finds`
  shows a stored key lost that way.
* `CountCorrect`: `NoLookups => (Spec => []CountExact)`, for finitely many threads
  (`ThreadAssumption`). `CountExact` compares two cardinalities, of the pairs in slots,
  in flight and in the victim cache with `num_items_`, each corrected by the threads
  between their write and their count. `CourseInv` says what call a thread is in at
  each place (`Course`), in what state the slot before it is (`AtSlot`), that a
  displaced pair is nobody else's, and what the owner of the mutex knows about the
  victim cache (`AtVictim`). `InSlots`, `InHands` and `InVictim` are the three places of
  a pair; each write fills one, empties one, or exchanges one pair for another, which is
  what both sides of the count are compared on.
* `CallsAreAtomic`: `WritersOnly /\ OwnKeys => (Spec => AtomicCalls)`, the refinement of
  `KeyValueBag`, also under `NoneAssumption` (`NoCall` and `NoReply` are no call and no
  reply). A call takes effect when it writes its slot, when it fills the victim cache,
  when it empties it, when it is refused, or, if the key is not there, when it gives
  back the mutex; every other step is shown to change neither the bag nor the caller's
  view (`Quiet`), also those in which a chain picks up a pair and puts it down again.
  `MissedInv` adds that a call which has not found its key is right about that until it
  returns. This is where `OwnKeys` is needed: `erase` and `update` have let go of their
  buckets, and `update` of everything (613), when they conclude that the key is absent,
  so another thread's insertion of the same key in between makes the answer stale.
  `OwnKeys` says that no other thread calls anything on a key that one thread erases or
  updates, and `WritersOnly` that threads insert, erase and update; two threads may
  insert the same key. The calls of `writers` are such calls.
* `SoleFindAnswers`, `SoleSlotsAgree`, `SoleCountCorrect`, `LookupsKeepContents`:
  `OneThread /\ TwoBuckets` implies that `Spec` implies `[]FindAnswer`, `[]SlotInv`,
  `[]CountExact` and `LookupsKeep` (no step of a lookup changes `Contents`). Here `find`
  adapts, between any other calls of the one thread there is, for any hash functions,
  sizes, kick chains and preloaded tables. `SoleInv` is `AgreeInv /\ CourseInv` while the
  thread is not in `find`, and `LookInv` while it is: the slots agree with their tags but
  for the two that an adaptation is exchanging, whose state at each of its four writes is
  `Moving`, and what it has read for that is still so (`Taking`); the false positives collected are different occupied slots (`Positives`), or
  the second adaptation would move what the first has moved away; what has been compared
  is not the key (`Scan`); and what `find` will answer is true of the table now and
  remains so while pairs rotate (`Answer`). The rotation is `Exchanged`: two slots swap
  the pairs they stand for, the others keep theirs, so that every pair is stored as often
  as before (`ExchangeCounts`) although for one step a pair is in two slots and another
  in none. `OneThread` is needed for the reason given above. `TwoBuckets` says that keys
  that are looked up have two different buckets: otherwise a scan collects each false
  positive twice, the second adaptation moves a pair from where it no longer is, and
  `SlotInv` is false (`TwinBuckets`, under "Further configurations").

**The locks of the map.** For every set of threads, every `kMaxNumLocks`, `MaxHp` and
initial hashpower, under `LocksAssumption` and `PowersAssumption` of `CuckooMapLocks`:

* `LocksTypeCorrect`, `IndicesInContainer`, `LocksInOrder`: `Spec` implies `[]TypeOK`,
  `[]IndexInContainer` and `[]LockOrder`, whoever resizes and however often, also
  several at once. The invariant is `OrderInv`: lock indices come from at most three
  buckets (`ThreeBuckets`), the current container is as large as the hashpower wants,
  the one of a resize under way included (`Sizes`), a thread's own view of its locks
  (`Taken`) and what it can hold at most (`HeldIsTaken`, `Walks`: what lies behind and
  ahead of a walk over all containers). That a thread *does* hold what it believes to
  hold is not part of it, and must not be: with two resizers it is false.
* `BucketsExcluded`: `GrowsAlone => (Spec => []Exclusion)`, where `GrowsAlone` says
  that at most one thread resizes and the table does not shrink. `GrowthInv` adds to
  `OrderInv` that a lock has one holder, that what is taken is held, that an owner of
  all locks owns all of them, and that a thread whose hashpower is still the map's has
  read the current container (`Seen`). The hypothesis is needed: `two_resizers`
  refutes `Exclusion` without its first half, `ShrunkMap` without the second.

**The operations of the map.** For every set of threads, calls and values, every hash
function below 2^16, every number of slots per bucket, path length, queue size,
`kMaxNumLocks` and starting table with its keys at home, under `TableAssumption` and
`MapAssumption`: `HomesCorrect`, `SizeCorrect`, `ShapeCorrect` and `AtomicCorrect`,
`RebuiltSound /\ NothingLost => (Spec => P)` with `[]UniqueHome`, `[]SizeExact`,
`[]TypeOK` and `AtomicCalls` for `P`.

* The hypotheses. `RebuiltSound` is about the parameter `Rebuild`: filling a new map
  with elements of different keys leaves exactly these, at home, or ends in an
  exception or a livelock. It is `RebuiltRight` for every hashpower and every sequence:
  an induction over the elements and over a recursive insertion, which the prover
  cannot do and TLC evaluates for short sequences. `NothingLost` says that moving an
  element leaves it as it was (`TrivialTypes`), or cannot throw while no caller
  rehashes: otherwise a resize that throws has lost what it had moved, which
  `FailedRehash` shows. Types that may throw when moved and are changed by it are left
  to the scene `expands` of run `map`.
* The invariant `Inv` is `Sound` (the table has its shape and its keys at home, the
  newest container has a counter for every bucket, the counters add up to the elements)
  and `LocalOK` for each thread: which call it is in at each place, that a search's
  queue holds buckets and slots of the hashpower the thread has read, and that a path
  starts at one of the key's buckets and each of its buckets is the alternative of the
  one before for the hash seen there (`OnItsWay`, `PathRight`). What a path says about
  the *contents* is no part of it, as other threads may change them at any time:
  `HopValid` looks again. That is enough for a hop to keep every key at home: the item
  has the hash the path saw, and the two buckets are each other's alternatives.
* `CuckooTableProofs` has the facts this rests on: xor is its own inverse and commutes
  with taking a remainder by a power of two, so `alt_index` of `alt_index` is the
  index, and at twice the size either index is the old one or goes up by the old number
  of buckets; one write fills, changes or empties one slot; a hop moves one element and
  stores the same set; a doubling puts no two elements into one slot (those that go up
  are packed from slot 0 of a bucket that is new, the others stay) and stores the same
  set, at home, which is the assertion of `move_buckets` (1691).
* Each action has a lemma that it is `Good`: it keeps `Inv`, and either leaves the map
  and the caller's view alone or is the step of `AtomicMap` the call promises
  (`Happens`). The duplicate check under the last hop's locks (`Arrived`) is what
  keeps a key from being inserted twice. For the counters, the sum over locks changes by
  the one counter that is raised (`SumRaised`), and a container that grows with zeros
  keeps its sum (`SumWider`). The four theorems follow from `StepGood`.

**Map objects.** For every set of objects, every finite set of keys, all allocators,
hashpowers and `kMaxNumLocks`, and all combinations of propagation traits, under
`ObjectsAssumption` of `MapObjects` (which otherwise says that the constants that
stand for nothing, `Null`, `NoObject` and `Unspecified`, are told apart from what they
stand beside):

* `TypeCorrect`: `Spec => []TypeOK`: among the types, that the heap and every array on
  it stay finite.
* `ArraysCorrect`: `Spec => []ArraysOwned`. The invariant is `Owners`: the objects that
  hold an array (`Held`) are mapped one to one onto the arrays of the heap. Each action
  is first reduced to what it does to the fields of one or two objects and to the heap
  (the `Shape` lemmas), and five lemmas say what that does to the owners: a new array,
  none, one taken from another object, two exchanged, none touched (`NewArray`,
  `NoArray`, `TakenArray`, `SwappedArrays`, `SameArrays`). Every outcome of an
  assignment that an exception cuts short is one of the five.
* `AllocatorsCorrect`: `NoSwapPropagation => (Spec => []RightAllocator)`.
  `RightAllocator` looks at the array freed last; `AllocInv` says beforehand, of every
  array, that it came from its owner's allocator, and that `bucket_allocator_` is a copy
  of that one. The hypothesis is needed: `SwappedAllocators` refutes `RightAllocator`
  without it.
* `ValuesCorrect`: `Spec => HoldsItsValue`, the refinement of `MapValues`, with every
  trait and every constructor or assignment that throws. An object has a value when its array holds live elements only and its newest
  locks count them (`Whole`). One lemma per action gives the step of `MapValues`; an
  object that was moved from has no value, because its array is gone, because its
  elements are no longer live or because its locks are empty, unless it was empty and
  keeps its locks.

**Owners of locks.** For every set of maps and of handles, without assumptions:
`OneOwnerCorrect` of `MapObjectsProofs`, `HandlesSpec => []OneOwner`, by `HandlesTyped /\ OneOwner`.
Every step of a locked table's handles in `LockedTable` is one of `TableHandles` and every other step
leaves both variables alone, as its definitions read.

**The tag tables.** For every number of threads and buckets, any hashes and any set of
widths out of 2, 4, 8, 12 and 16 bits, under `TableAssumption` of `SingleTable`:

* `TableOwned`: `Spec => [](TableTyped /\ Owned)`: the types, and that a counter is odd
  exactly while one thread owns its bucket.
* `FindsExactlyHolds`: `Spec => []FindsExactly`. A word is cut into lanes and a lane into
  bits; `ValueOfOnes` and the lemmas around it say that the value of a set of bits is
  below the next power of two and is zero only for the empty set. `HasZeroRight` is
  the argument of `haszero`: the lowest lane that is zero becomes all ones when one
  is subtracted, and if no lane is zero no subtraction borrows, so that a top bit can
  only be one that the lane had before and is masked out. The induction over lanes is an
  induction over the least lane of a set (`LeastNat`), which needs no theorem with an
  operator for parameter.
* `WritesKeepTable`, `WritesLandHolds`, `WritesAreAtomicHolds`: `NoTwoBits => (Spec => P)`
  with `[]WriteInv`, `WritesLand` and the refinement `WritesAreAtomic` for `P`. `WriteInv` adds
  to the above that between the two halves of a write the bucket still holds what was
  read (`Fresh`), the slot chosen is still the first free one, the first that holds the
  tag, or any of a full bucket (`Writable`), and that every slot is free or holds a tag
  some hash has there. `WriteSlot` says what the masks do: the
  word of a slot covers the slot, and every bit of it outside the slot is written back
  as it was read, for each width and each slot, also where a word holds part of a
  neighbour. `NoTwoBits` is needed: `TagDefects` refutes `WritesLand` with tags of two
  bits.

**The semi-sorted table.** For any number of buckets, any sets of nonempty tags and each
of the seven widths of the code (`PackedAssumption`), and for any numbering of the sorted
tuples of four nibbles in 12 bits that decodes to what it encoded and gives four free
slots the number zero (`CodecAssumption`, two hypotheses of each theorem, which TLC
evaluates in `MCTagStores` for the numbering of `PermEncoding`; the properties of the same
names that run checks are those of its instance `Packed`):

* `PackedTypeCorrect`: `Spec => []TypeOK`. `BucketsAreBagsCorrect`: `Spec => BucketsAreBags`, the
  refinement of `TagBuckets`.
* The invariant, `IInv`, says that the array has no bit past its last bucket and that every
  bucket reads as four of its tags or free slots in the order of their low bits. That
  a write keeps it takes four steps. `BucketStarts`: the byte and the half byte at which
  the code starts bucket i are together bit `kBitsPerBucket * i`, for each width, so that
  what a bucket reads depends on its own bits only (`SameWord`, `WordBits`) and a write
  leaves the others alone. `PackedBits` and `DecodePacked`: the codeword and the direct
  bits of four tags do not overlap, and shifting and masking gets each tag back.
  `SortTagsLemma`: the five comparisons sort, and keep how often each tag occurs.
  `LowestTwelve`: what the lookup reads as its code is the number that was stored. `Written` combines them.
* `CopiesAre` and `CountIs` say what the refinement mapping makes of a bucket: the tags it
  reads, each as often as it is read, in a bag that is full when no slot is free. `DeleteIsDelete` and
  `InsertIsInsert` give each action its step of `TagBuckets`.
* `PairLookupCorrect`: with `PairLookups \subseteq {13}`, `Spec => []PairLookupRight`. The
  hypothesis is needed: `TagDefects` refutes the lookup for tags of 9 bits.

**The sizes of arrays.** For a `size_t` of 3 to 64 bits, capacities below an eighth of its
range and tags of 2 to 17 bits (`SizesAssumption` of `FilterSizes`): `SizesSpec` implies
`[]MaskAndRoom`, `[]StorageCovers` and `[]LoadsInside` (`MaskAndRoomHolds`, `StorageCoversHolds`,
`LoadsInsideHolds`). `UpperPower` shows that the six shifts of `upperpower2` fill every
place below the highest bit and no other, for words of up to 64 bits, so that the
result is the first power of two that is not smaller; the hash map's loop finds the
first power of two that holds twice the keys, and the tag table's doubling at 96
percent never goes past that.

**The block filter.** For any keys, hashes and sizes, under `HasherAssumption` of
`SimdBlock`: `FindsWhatWasAddedHolds`, `BlockSpec => []FindsWhatWasAdded`. The invariant is that a
bucket holds the masks of the keys that were added to it and nothing else.

## What is only model-checked

* What the filter does for several threads of which one looks up: an adaptation writes
  buckets it does not own, which the invariants above rest on excluding, and `SlotInv`
  is false then (`concurrent_finds`).
* The map's operations for types that may throw when moved and are changed by it, and
  what rebuilding a table comes to (`RebuiltRight`), an induction over data.
* `MapsSound`, `EqualityIsContents` and `TraversalsExact` of `LockedTable`, and `NoLeak`,
  `TableSound`, `FailureChangesNothing` and `FilesFaithful` of `CTable`: the operations of
  `SequentialMap` are recursive (rebuilding, listings), which the prover does not handle,
  as modules or by the induction their results need.
* That the tables of `PermEncoding` decode what they encoded, `CodecAssumption` of
  `PackedTable`: they are built by recursion, and TLC evaluates the assumption in
  `MCTagStores` for all 3876 tuples, which is every input there is.
* `CallsReturn` of the filter and of the map's locks: liveness under fairness.

## What no property covers

Hazards in `PROJECT.json` without a property of a passing run. Most go wrong in the
code, and a configuration kept for use by hand shows it: a pair that moves behind a
lookup and torn reads (`RacingFinds`), the listing that loses elements (`LostListing`),
a negative size (`NegativeSize`), a rehash beyond the maximum, a needless refusal, a
rehash that fails half-way (`RehashOverMaximum`, `NeedlessRefusal`, `FailedRehash`), a
swap of allocators that propagate (`SwappedAllocators`), the lookup of two semi-sorted
buckets for widths other than 13 and tags of 2 bits (`TagDefects`); an exception that
`_read` does not expect also belongs here (`UnreadableFile`), as `NoLeak` ends with the
program. Others are not covered by anything: what 16 bits of the next bucket in another
thread's hands do to a lookup that runs beside it (`FindAnswer` is about one thread and
excuses misses where the word reads zero); an adaptation of a bucket it does not own
between the two halves of the owner's write of a word; two updates of one new key may
both insert it, and a used victim cache refuses insertions that would have room: both
are in the model, but no text of the repository promises otherwise; the allocation
inside `maybe_resize_locks` may fail after the elements have been moved, which the
models leave out for types that a move changes.

## Not modelled

* Hash functions and utilities (`hashutil.cc`, `hashutil.h`, the multiply-shift and
  tabulation hashes): pure functions of words without state or contract; constants of
  every model.
* Vendored `pcg` and `Catch`; examples, benchmarks and tests, which give expectations
  and thread mixes; printing, statistics and `Info`.
* Tags of 32 bits, which `SingleTable` keeps in 16-bit variables; `CuckooFilter`
  over `PackedTable`, which no longer compiles.
* Allocation failures outside the C interface and the constructors and assignments of
  map objects; self-assignment of maps; the move
  constructor of the block filter and the generated `simd-block-fixed-fpp.h`.

## What could come next

Models: element-by-element interleaving of `parallel_exec`; failing allocations in `CuckooMap`.
