----------------------------- MODULE KeyValueBag -----------------------------
(***************************************************************************)
(* What the adaptive filter promises to its callers: an atomic collection  *)
(* of key-value pairs.  insert does not look for an existing pair with the *)
(* same key, so the collection is a bag; it may refuse.                    *)
(* A call starts, takes effect once, and then returns.                     *)
(***************************************************************************)
EXTENDS Naturals

CONSTANTS Threads, Keys, Vals, Calls, NoCall, NoReply

VARIABLES
    bag,    \* how many copies of each pair are stored
    call,   \* the call each thread is in
    reply   \* what that call will return, once it has taken effect

vars == <<bag, call, reply>>

Reply(found, val) == [found |-> found, val |-> val]

Present(key) == \E v \in Vals : bag[<<key, v>>] > 0

Init ==
    /\ bag \in [Keys \X Vals -> Nat]
    /\ call = [t \in Threads |-> NoCall]
    /\ reply = [t \in Threads |-> NoReply]

Start(t) ==
    /\ call[t] = NoCall
    /\ \E c \in Calls[t] : call' = [call EXCEPT ![t] = c]
    /\ UNCHANGED <<bag, reply>>

Answer(t, found, val) == reply' = [reply EXCEPT ![t] = Reply(found, val)]

InsertPair(t, c) ==
    \/ Answer(t, TRUE, c.val) /\ bag' = [bag EXCEPT ![<<c.key, c.val>>] = @ + 1]
    \/ Answer(t, FALSE, c.val) /\ UNCHANGED bag          \* refused

EraseKey(t, c) ==
    \/ \E v \in Vals :
          /\ bag[<<c.key, v>>] > 0
          /\ bag' = [bag EXCEPT ![<<c.key, v>>] = @ - 1]
          /\ Answer(t, TRUE, c.val)
    \/ ~Present(c.key) /\ Answer(t, FALSE, c.val) /\ UNCHANGED bag

UpdateKey(t, c) ==
    \/ \E v \in Vals :
          /\ bag[<<c.key, v>>] > 0
          /\ bag' = [p \in Keys \X Vals |->
                       bag[p] - (IF p = <<c.key, v>> THEN 1 ELSE 0)
                              + (IF p = <<c.key, c.val>> THEN 1 ELSE 0)]
          /\ Answer(t, TRUE, c.val)
    \/ ~Present(c.key) /\ InsertPair(t, c)

FindKey(t, c) ==
    /\ \/ \E v \in Vals : bag[<<c.key, v>>] > 0 /\ Answer(t, TRUE, v)
       \/ ~Present(c.key) /\ Answer(t, FALSE, c.val)
    /\ UNCHANGED bag

\* The filter alone may take another key for this one, never miss a key.
FindInFilter(t, c) ==
    /\ \/ Answer(t, TRUE, c.val)
       \/ ~Present(c.key) /\ Answer(t, FALSE, c.val)
    /\ UNCHANGED bag

TakeEffect(t) ==
    /\ call[t] # NoCall
    /\ reply[t] = NoReply
    /\ LET c == call[t]
       IN  \/ c.op = "insert" /\ InsertPair(t, c)
           \/ c.op = "erase" /\ EraseKey(t, c)
           \/ c.op = "update" /\ UpdateKey(t, c)
           \/ c.op = "find" /\ FindKey(t, c)
           \/ c.op = "findinfilter" /\ FindInFilter(t, c)
    /\ UNCHANGED call

End(t) ==
    /\ reply[t] # NoReply
    /\ call' = [call EXCEPT ![t] = NoCall]
    /\ reply' = [reply EXCEPT ![t] = NoReply]
    /\ UNCHANGED bag

Next == \E t \in Threads : Start(t) \/ TakeEffect(t) \/ End(t)

Spec == Init /\ [][Next]_vars
=============================================================================
