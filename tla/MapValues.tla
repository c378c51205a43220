------------------------------ MODULE MapValues ------------------------------
(***************************************************************************)
(* What constructors, assignments and swap of cuckoohash_map promise:      *)
(* every object holds a value of its own, a set of keys; copying leaves    *)
(* the source as it was; an object that was moved from, even by a          *)
(* constructor that throws, or whose assignment was cut short by an        *)
(* exception, holds an unspecified value until it is assigned again.       *)
(***************************************************************************)
CONSTANTS Objects, Keys, NoObject, Unspecified

VARIABLE value

Known == {o \in Objects : value[o] \notin {NoObject, Unspecified}}
Others(S) == \A o \in Objects \ S : value'[o] = value[o]

Init == value = [o \in Objects |-> NoObject]

Create(o) == value[o] = NoObject /\ value'[o] = {} /\ Others({o})
Copy(o, s) == s \in Known \ {o} /\ value'[o] = value[s] /\ Others({o})
Move(o, s) ==
  /\ s \in Known \ {o}
  /\ value'[o] = value[s] /\ value'[s] \in {Unspecified, {}}
  /\ Others({o, s})
Swap(o, s) ==
  /\ value[o] # NoObject /\ value[s] # NoObject
  /\ value'[o] = value[s] /\ value'[s] = value[o]
  /\ Others({o, s})
Fail(o, s) ==
  /\ value[o] # NoObject /\ s \in Known \ {o}
  /\ value'[o] = Unspecified /\ value'[s] \in {value[s], Unspecified}
  /\ Others({o, s})
LoseSource(o, s) ==
  /\ value[o] = NoObject /\ s \in Known \ {o}
  /\ value'[s] = Unspecified
  /\ Others({s})
Assign(o) == o \in Known /\ value'[o] \notin {NoObject, Unspecified} /\ Others({o})
Destroy(o) == value[o] # NoObject /\ value'[o] = NoObject /\ Others({o})

Next ==
  \/ \E o \in Objects : Create(o) \/ Assign(o) \/ Destroy(o)
  \/ \E o, s \in Objects : Copy(o, s) \/ Move(o, s) \/ Swap(o, s) \/ Fail(o, s) \/ LoseSource(o, s)
Step == [Next]_value
Spec == Init /\ [][Next]_value
=============================================================================
