------------------------------ MODULE AtomicMap ------------------------------
(***************************************************************************)
(* What cuckoohash_map promises to its callers: a map in which every       *)
(* operation takes effect at one instant between its call and its return.  *)
(* An operation on a key that is there applies a function to its value,    *)
(* which may also ask for the element's removal; an inserting operation    *)
(* adds a key that is not there, or throws and changes nothing. Resizing   *)
(* changes nothing a caller can see.                                       *)
(***************************************************************************)
EXTENDS Integers

CONSTANTS Threads, Keys, Vals, Calls, NoCall, NoValue, NoAnswer

VARIABLES
  map,     \* the value of every key, NoValue for a key that is not there
  call,    \* the operation a thread is in
  answer   \* what it will return, once it has taken effect

vars == <<map, call, answer>>

Exceptions == {"load_factor_too_low", "maximum_hashpower_exceeded"}
Answer(r, v) == [r |-> r, v |-> v]

Init ==
  /\ map \in [Keys -> Vals \union {NoValue}]
  /\ call = [t \in Threads |-> NoCall]
  /\ answer = [t \in Threads |-> NoAnswer]

Invoke(t) ==
  /\ call[t] = NoCall
  /\ call' \in {[call EXCEPT ![t] = c] : c \in Calls}
  /\ UNCHANGED <<map, answer>>

Applied(c, old) ==
  CASE c.fn = "keep" -> old [] c.fn = "assign" -> c.v [] c.fn = "erase" -> NoValue

Effect(t) ==
  LET c == call[t] IN
  /\ c # NoCall /\ answer[t] = NoAnswer
  /\ UNCHANGED call
  /\ \/ /\ c.op \in {"apply", "uprase"} /\ map[c.k] # NoValue
        /\ map' = [map EXCEPT ![c.k] = Applied(c, map[c.k])]
        /\ answer' = [answer EXCEPT ![t] = Answer("found", map[c.k])]
     \/ /\ c.op = "apply" /\ map[c.k] = NoValue
        /\ answer' = [answer EXCEPT ![t] = Answer("absent", NoValue)]
        /\ UNCHANGED map
     \/ /\ c.op = "uprase" /\ map[c.k] = NoValue
        /\ map' = [map EXCEPT ![c.k] = c.v]
        /\ answer' = [answer EXCEPT ![t] = Answer("inserted", NoValue)]
     \/ /\ c.op \in {"uprase", "resize"}
        /\ \E e \in Exceptions : answer' = [answer EXCEPT ![t] = Answer(e, NoValue)]
        /\ UNCHANGED map
     \/ /\ c.op = "resize"
        /\ \E r \in {"resized", "unchanged"} : answer' = [answer EXCEPT ![t] = Answer(r, NoValue)]
        /\ UNCHANGED map
     \/ /\ c.op = "clear"
        /\ map' = [k \in Keys |-> NoValue]
        /\ answer' = [answer EXCEPT ![t] = Answer("cleared", NoValue)]
     \/ /\ c.op \in {"size", "limit"}
        /\ answer'[t].r = "number"
        /\ answer' = [answer EXCEPT ![t] = [r |-> "number", n |-> answer'[t].n]]
        /\ UNCHANGED map

Return(t) ==
  /\ answer[t] # NoAnswer
  /\ call' = [call EXCEPT ![t] = NoCall]
  /\ answer' = [answer EXCEPT ![t] = NoAnswer]
  /\ UNCHANGED map

Next == \E t \in Threads : Invoke(t) \/ Effect(t) \/ Return(t)
Spec == Init /\ [][Next]_vars
=============================================================================
