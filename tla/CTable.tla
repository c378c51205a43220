------------------------------- MODULE CTable -------------------------------
(***************************************************************************)
(* The C interface of libcuckoo (cuckoo_table_template.cc) as one C        *)
(* program uses it: a table, its locked table, iterators and a file. Every *)
(* allocation may fail; std::bad_alloc is caught and becomes ENOMEM, any   *)
(* other exception leaves the extern "C" function and ends the program.    *)
(***************************************************************************)
EXTENDS SequentialMap

CONSTANTS
  Vals, Iterators,
  Sizes,      \* bound: arguments of _init and of _reserve
  Drift,      \* bound: how far one counter may be from any number of elements
  NoTable, NoFile

VARIABLES
  tbl,     \* the table, NoTable for NULL
  reading, \* the table _read is filling and the pairs it has, [m, i]; NoTable outside
  tables,  \* number of table objects on the heap
  ltbl,    \* the locked table: "none", "active" or "unlocked"
  it,      \* iterators: "none", "stale" (invalidated) or a position
  file,    \* NoFile or [n, es]: the size and the pairs written after it
  ret,     \* what the last call returned: "ENOMEM" is NULL or false with errno set
  dead     \* an exception has left an extern "C" function

vars == <<tbl, reading, tables, ltbl, it, file, ret, dead>>

None == <<"none">>
Stale == <<"stale">>
Live(i) == it[i] \notin {None, Stale}
(* What no catch clause of the interface expects: two exceptions, and a    *)
(* call that never returns.                                                *)
Fatal == {"load_factor_too_low", "maximum_hashpower_exceeded", "livelock"}

Init ==
  /\ tbl = NoTable /\ reading = NoTable /\ tables = 0 /\ ltbl = "none" /\ file = NoFile
  /\ it = [i \in Iterators |-> None]
  /\ ret = "" /\ dead = FALSE

Return(r) == ret' = r /\ UNCHANGED dead
ENOMEM == Return("ENOMEM")
Returned(r) == ret' = r /\ dead' = (r \in Fatal)

Staled(P) == [i \in Iterators |-> IF Live(i) /\ it[i] \in P THEN Stale ELSE it[i]]
AllStale == Staled(Positions(tbl.T) \union {EndPos(tbl)})

-----------------------------------------------------------------------------
(* Tables.                                                                 *)
Idle == tbl = NoTable /\ reading = NoTable
init(n) ==
  /\ Idle
  /\ \/ ENOMEM /\ UNCHANGED <<tbl, tables>>
     \/ /\ tbl' = maximum_hashpower(minimum_load_factor(NewMap(n), <<0, 1>>).m, NoMaximum).m
        /\ tables' = tables + 1 /\ Return("table")
  /\ UNCHANGED <<ltbl, it, file>>

\* Mutant: the table starts with the size that the file gives.
Opened_Counted(n) == [m |-> [NewMap(n) EXCEPT !.cnt[1] = n], i |-> 0]

(* _read makes a table for as many pairs as the file says, with the        *)
(* default limits, and inserts pair after pair.                            *)
Opened(n) == [m |-> NewMap(n), i |-> 0]
read ==
  /\ Idle
  /\ \/ file = NoFile /\ Return("NULL") /\ UNCHANGED <<tables, reading>>
     \/ file # NoFile /\ ENOMEM /\ UNCHANGED <<tables, reading>>
     \/ /\ file # NoFile
        /\ reading' = Opened(file.n) /\ tables' = tables + 1 /\ Return("")
  /\ UNCHANGED <<tbl, ltbl, it, file>>

\* Mutant: the table that is given up stays on the heap.
Deletes_Forgets(r) == reading' = NoTable /\ Return(r) /\ UNCHANGED <<tbl, tables>>

Deletes(r) == reading' = NoTable /\ tables' = tables - 1 /\ Return(r) /\ UNCHANGED tbl

\* Mutant: the end of the file is taken for the end of the table.
read_ends_Short ==
  /\ reading # NoTable /\ reading.i = Len(file.es)
  /\ tbl' = reading.m /\ reading' = NoTable /\ Return("restored") /\ UNCHANGED tables
  /\ UNCHANGED <<ltbl, it, file>>

(* All pairs are there, or the file ends before.                           *)
read_ends ==
  /\ reading # NoTable
  /\ \/ /\ reading.i = file.n
        /\ tbl' = reading.m /\ reading' = NoTable /\ Return("restored") /\ UNCHANGED tables
     \/ reading.i < file.n /\ reading.i = Len(file.es) /\ Deletes("NULL")
  /\ UNCHANGED <<ltbl, it, file>>

(* The insertion of a pair allocates when it doubles the table. Only       *)
(* std::bad_alloc is caught: what else it throws leaves the table behind.  *)
read_pair ==
  /\ reading # NoTable /\ reading.i < Len(file.es)
  /\ \E x \in {Insert(reading.m, file.es[reading.i + 1])} :
     \/ x.m.T.hp > reading.m.T.hp /\ Deletes("ENOMEM")
     \/ /\ x.r \notin Fatal
        /\ reading' = [m |-> x.m, i |-> reading.i + 1] /\ UNCHANGED <<tbl, tables, ret, dead>>
     \/ x.r \in Fatal /\ Returned(x.r) /\ reading' = NoTable /\ UNCHANGED <<tbl, tables>>
  /\ UNCHANGED <<ltbl, it, file>>
Reading == read \/ read_pair \/ read_ends

Unused == tbl # NoTable /\ ltbl = "none"
free ==
  /\ Unused /\ \A i \in Iterators : it[i] = None
  /\ tbl' = NoTable /\ tables' = tables - 1 /\ Return("")
  /\ UNCHANGED <<ltbl, it, file>>

(* Table operations, with every outcome of the C++ call; an insertion that *)
(* runs out of memory may have doubled the table before. The doubling or   *)
(* rebuilding that fails keeps the old buckets: elements of C types are    *)
(* copied to the new ones.                                                 *)
Usable == tbl # NoTable /\ ltbl # "active"
Becomes(x) == tbl' = x.m /\ Returned(x.r)
Keep == UNCHANGED <<tables, ltbl, file>>
Doubled(m, n) == WithTable(m, FoldSet(LAMBDA x, T : DoubleTable(T), m.T, 1..n))

\* Mutant: the table that was doubled last has not got its elements yet.
OutOfMemory_Loses(hp) ==
  \E n \in 0..hp - tbl.T.hp - 1 :
    tbl' = (IF n = 0 THEN tbl ELSE cuckoo_clear(Doubled(tbl, n))) /\ ENOMEM

OutOfMemory(hp) ==
  \E n \in 0..hp - tbl.T.hp - 1 : tbl' = Doubled(tbl, n) /\ ENOMEM

Inserts(x, y) == Becomes(y) \/ OutOfMemory(x.m.T.hp)
insert(k, v) ==
  /\ Usable
  /\ \E x \in {Insert(tbl, Elem(k, v))} : Inserts(x, x)
  /\ Keep /\ UNCHANGED it
(* upsert with a function that assigns, and insert_or_assign.              *)
insert_or_assign(k, v) ==
  /\ Usable
  /\ \E x \in {Insert(tbl, Elem(k, v))} :
       Inserts(x, [x EXCEPT !.m = IF x.r = "duplicate" THEN Update(@, Elem(k, v)).m ELSE @])
  /\ Keep /\ UNCHANGED it
update(k, v) ==
  /\ Usable
  /\ tbl' = Update(tbl, Elem(k, v)).m /\ Return("") /\ Keep /\ UNCHANGED it
erase(k) ==
  /\ Usable
  /\ tbl' = Erase(tbl, k).m /\ Return("") /\ Keep /\ UNCHANGED it
Resized(p) ==
  /\ \/ \E x \in Rehash(tbl, p) : Becomes(x)
     \/ p # tbl.T.hp /\ ENOMEM /\ UNCHANGED tbl
  /\ Keep
rehash(p) == Usable /\ Resized(p) /\ UNCHANGED it
reserve(n) == Usable /\ Resized(reserve_calc(n)) /\ UNCHANGED it
clear == Usable /\ tbl' = cuckoo_clear(tbl) /\ Return("") /\ Keep /\ UNCHANGED it

-----------------------------------------------------------------------------
(* The locked table.                                                       *)
lock_table ==
  /\ Unused
  /\ \/ ltbl' = "active" /\ Return("ltbl")
     \/ ENOMEM /\ UNCHANGED ltbl
  /\ UNCHANGED <<tbl, tables, it, file>>
lt_unlock ==
  /\ ltbl # "none"
  /\ ltbl' = "unlocked" /\ it' = AllStale /\ Return("")
  /\ UNCHANGED <<tbl, tables, file>>
lt_free ==
  /\ ltbl # "none"
  /\ ltbl' = "none" /\ it' = AllStale /\ Return("")
  /\ UNCHANGED <<tbl, tables, file>>

Locked == ltbl = "active"
Assign(i, p) == it' = [it EXCEPT ![i] = p]
lt_begin(i) ==
  /\ Locked /\ it[i] = None
  /\ \/ Assign(i, begin(tbl)) /\ Return("it")
     \/ ENOMEM /\ UNCHANGED it
  /\ UNCHANGED tbl /\ Keep
lt_end(i) ==
  /\ Locked /\ it[i] = None
  /\ \/ Assign(i, EndPos(tbl)) /\ Return("it")
     \/ ENOMEM /\ UNCHANGED it
  /\ UNCHANGED tbl /\ Keep
it_free(i) == it[i] # None /\ Assign(i, None) /\ Return("") /\ UNCHANGED tbl /\ Keep

Moves(i, p) == Assign(i, p) /\ Return("") /\ UNCHANGED tbl /\ Keep
Object(i) == Locked /\ it[i] # None
lt_find(k, i) == Object(i) /\ Moves(i, find(tbl, k))
lt_set(i) == Object(i) /\ \E p \in {begin(tbl), EndPos(tbl)} : Moves(i, p)
it_set(i, j) == Object(i) /\ Live(j) /\ Moves(i, it[j])
it_increment(i) == Locked /\ Live(i) /\ it[i] # EndPos(tbl) /\ Moves(i, increment(tbl, it[i]))
it_decrement(i) == Locked /\ Live(i) /\ Behind(tbl, it[i]) # {} /\ Moves(i, decrement(tbl, it[i]))
(* _mapped gives access to the value.                                      *)
it_mapped(i, v) ==
  /\ Locked /\ Live(i) /\ it[i] # EndPos(tbl)
  /\ tbl' = [tbl EXCEPT !.T = Put(@, it[i], Elem(At(@, it[i]).k, v))]
  /\ Return("") /\ Keep /\ UNCHANGED it

(* The iterator that is passed may be NULL: then I is empty.               *)
lt_insert(k, v, I) ==
  /\ Locked /\ \A i \in I : it[i] # None
  /\ \E x \in {Insert(tbl, Elem(k, v))} :
     \/ /\ Becomes(x)
        /\ it' = [i \in Iterators |-> IF i \in I /\ ~dead' THEN x.p ELSE AllStale[i]]
     \/ OutOfMemory(x.m.T.hp) /\ it' = AllStale
  /\ Keep
lt_erase_it(i, I) ==
  /\ Locked /\ Live(i) /\ it[i] # EndPos(tbl) /\ \A j \in I : it[j] # None
  /\ tbl' = del_from_bucket(tbl, it[i])
  /\ it' = [j \in Iterators |-> IF j \in I THEN iterator(tbl', it[i]) ELSE Staled({it[i]})[j]]
  /\ Return("") /\ Keep
lt_erase(k) ==
  /\ Locked
  /\ tbl' = Erase(tbl, k).m /\ it' = Staled(Found(tbl, k)) /\ Return("") /\ Keep
lt_clear == Locked /\ tbl' = cuckoo_clear(tbl) /\ it' = AllStale /\ Return("") /\ Keep

lt_rehash(p) == Locked /\ Resized(p) /\ it' = AllStale
lt_reserve(n) == Locked /\ Resized(reserve_calc(n)) /\ it' = AllStale

(* Writing stops where fwrite fails.                                       *)
write ==
  /\ Locked
  /\ \/ file' = [n |-> size(tbl), es |-> Listing(tbl)] /\ Return("written")
     \/ file' = NoFile /\ Return("false")
     \/ \E l \in 0..Len(Listing(tbl)) - 1 :
          file' = [n |-> size(tbl), es |-> SubSeq(Listing(tbl), 1, l)] /\ Return("false")
  /\ UNCHANGED <<tbl, tables, ltbl, it>>

-----------------------------------------------------------------------------
Tables ==
  \/ \E n \in Sizes : init(n) \/ rehash(n) \/ reserve(n)
  \/ \E k \in Keys, v \in Vals : insert(k, v) \/ insert_or_assign(k, v) \/ update(k, v)
  \/ \E k \in Keys : erase(k)
  \/ free \/ clear
LockedTables ==
  \/ lock_table \/ lt_unlock \/ lt_free \/ lt_clear \/ write
  \/ \E n \in Sizes : lt_rehash(n) \/ lt_reserve(n)
  \/ \E k \in Keys : lt_erase(k)
  \/ \E k \in Keys, v \in Vals, I \in {{}} \union {{i} : i \in Iterators} : lt_insert(k, v, I)
IteratorCalls ==
  \E i \in Iterators :
    \/ lt_begin(i) \/ lt_end(i) \/ it_free(i) \/ lt_set(i) \/ it_increment(i) \/ it_decrement(i)
    \/ \E k \in Keys : lt_find(k, i)
    \/ \E v \in Vals : it_mapped(i, v)
    \/ \E j \in Iterators : it_set(i, j)
    \/ \E I \in {{}} \union {{j} : j \in Iterators} : lt_erase_it(i, I)
(* Counters add up, but each may drift: elements move between locks.       *)
Bounded == tbl # NoTable =>
  \A l \in DOMAIN tbl.cnt : tbl.cnt[l] \in -Drift..Cardinality(Keys) + Drift
Calls == (Tables \/ LockedTables \/ IteratorCalls) /\ UNCHANGED reading
Next == ~dead /\ Bounded /\ (Calls \/ Reading)
Spec == Init /\ [][Next]_vars

-----------------------------------------------------------------------------
(* Every variable keeps to its type; a live iterator is at an element or   *)
(* at the end, whatever was erased through other iterators.                *)
TypeOK ==
  /\ tables \in Nat /\ ltbl \in {"none", "active", "unlocked"}
  /\ tbl = NoTable => ltbl = "none"
  /\ dead \in BOOLEAN
  /\ \A i \in Iterators : Live(i) => it[i] \in Elements(tbl.T) \union {EndPos(tbl)}

(* The heap holds the table of the program and the one that is being read, *)
(* and no other: a read deletes what it has built wherever it fails, when  *)
(* the file ends and when memory runs out (_read). After any other         *)
(* exception it does not: the table is lost, and the program ends.         *)
NoLeak ==
  ~dead => tables = (IF tbl = NoTable THEN 0 ELSE 1) + (IF reading = NoTable THEN 0 ELSE 1)

(* The table stays sound through every call: its counters are exact, also  *)
(* after a read, and every key is stored once, in one of its buckets.      *)
TableSound == tbl # NoTable => Sound(tbl)

(* A call that reports ENOMEM leaves the contents of the table as they     *)
(* were, even when it ran out of memory half-way.                          *)
FailureChangesNothing ==
  [][ret' = "ENOMEM" /\ tbl # NoTable => Contents(tbl') = Contents(tbl)]_vars

(* A table read from a file has exactly the elements the file was written  *)
(* from; a file that was cut short gives no table (_write, _read).         *)
FilesFaithful ==
  [][/\ ret' = "written" => ToSet(file'.es) = Contents(tbl) /\ Len(file'.es) = file'.n
     /\ tbl = NoTable /\ ret' = "restored" =>
          Len(file.es) = file.n /\ Contents(tbl') = ToSet(file.es)]_vars

(* "The only exception that could be thrown by the table is                *)
(* std::bad_alloc": no other exception leaves the interface.               *)
OnlyBadAlloc == ~dead
=============================================================================
