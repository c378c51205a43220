--------------------------- MODULE MCFilterBudget ---------------------------
(***************************************************************************)
(* The adaptive filter when each thread makes at most MaxCalls[t] calls:   *)
(* the concurrent instances, and the ones that ask whether calls return.   *)
(***************************************************************************)
EXTENDS MCFilter

CONSTANT MaxCalls

VARIABLE left   \* how many calls each thread may still make

budgetVars == <<vars, left>>

BudgetInit == Init /\ left = MaxCalls

BudgetBegin(t) ==
    /\ left[t] > 0
    /\ left' = [left EXCEPT ![t] = @ - 1]
    /\ Begin(t)

BudgetStep(t) == Step(t) /\ UNCHANGED left

BudgetNext == \E t \in Threads : BudgetBegin(t) \/ BudgetStep(t)

BudgetSpec == BudgetInit /\ [][BudgetNext]_budgetVars

\* Only the threads are scheduled fairly; no lock is.
FairBudgetSpec == BudgetSpec /\ \A t \in Threads : WF_budgetVars(BudgetStep(t))

\* Every call returns.
CallsReturn == \A t \in Threads : pc[t] # "idle" ~> pc[t] = "idle"

\* Bounds on the number of calls: enough for each thread to meet the other one
\* inside its second call, for the kick chain to fill the victim cache and for a
\* later call to find it there.
One      == [t \in Threads |-> 1]
Two      == [t \in Threads |-> 2]
ThreeTwo == (t1 :> 3) @@ (t2 :> 2)

\* Three of the four slots of two two-slot buckets hold a pair.
NearlyFull == (0 :> ((0 :> {<<k1, v1>>}) @@ (1 :> {<<k2, v1>>})))
           @@ (1 :> ((0 :> {<<k3, v1>>}) @@ (1 :> {})))

\* One thread writes, the other one reads, as in the multi-threaded benchmark.
ReaderCalls == (t1 :> (CallsOf({"insert", "erase"}, {k1, k3}, {v1}) \cup CallsOf({"update"}, {k2}, {v2})))
            @@ (t2 :> CallsOf({"find", "findinfilter"}, {k1, k2}, {v1}))

\* Only erases of two keys whose buckets mirror each other.
EraserCalls == (t1 :> {Call("erase", k1, v1)}) @@ (t2 :> {Call("erase", k3, v1)})

\* Finds only, whose false positives overlap in bucket 0, the first bucket of k2
\* and the second of k3; k4 can only be there.
FinderCalls == (t1 :> {Call("find", k2, v1)}) @@ (t2 :> {Call("find", k3, v1)})
FinderPreload == (0 :> ((0 :> {<<k1, v1>>}) @@ (1 :> {<<k2, v1>>}) @@ (2 :> {<<k4, v1>>})))
              @@ (1 :> ((0 :> {<<k1, v1>>}) @@ (1 :> {}) @@ (2 :> {})))

\* All four slots hold a pair; k3 was inserted twice.  One thread inserts k3
\* once more with another value, which kicks a pair out of bucket 0; the other
\* looks up k2, which nobody erases.
Full == (0 :> ((0 :> {<<k1, v1>>}) @@ (1 :> {<<k2, v1>>})))
     @@ (1 :> ((0 :> {<<k3, v1>>}) @@ (1 :> {<<k3, v1>>})))
KickingCalls == (t1 :> {Call("insert", k3, v2)}) @@ (t2 :> {Call("find", k2, v1)})

\* One thread looks up k2, the other erases k1, whose tag collides with it.
RevivingCalls == (t1 :> {Call("find", k2, v1)}) @@ (t2 :> {Call("erase", k1, v1)})

\* All keys hash to bucket 0 only; k1 is stored in slot 0, where k2 collides.
TwinIndex == [k \in Keys |-> 0]
TwinCalls == [t \in Threads |-> {Call("find", k2, v1), Call("erase", k1, v1)}]
TwinPreload == (0 :> ((0 :> {<<k1, v1>>}) @@ (1 :> {}))) @@ (1 :> ((0 :> {}) @@ (1 :> {})))
=============================================================================
