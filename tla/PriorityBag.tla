------------------------------ MODULE PriorityBag ------------------------------
(***************************************************************************)
(* What a priority queue promises: a bag that gives back, of the elements  *)
(* it holds, one that no other is to be popped before.                     *)
(***************************************************************************)
EXTENDS Integers, Sequences

CONSTANTS
    Element,
    comparator(_, _)   \* comparator(l, r): r is to be popped before l

VARIABLES
    bag,      \* how often each element is in the bag
    result    \* what the last call returned, as a sequence of length 0 or 1

vars == <<bag, result>>

First(e) == bag[e] > 0 /\ \A other \in Element : bag[other] > 0 => ~comparator(e, other)

Init == bag = [e \in Element |-> 0] /\ result = <<>>

Insert(e) ==
    /\ bag' = [bag EXCEPT ![e] = @ + 1]
    /\ result' = <<>>

Extract(e) ==
    /\ First(e)
    /\ bag' = [bag EXCEPT ![e] = @ - 1]
    /\ result' = <<e>>

Peek(e) ==
    /\ First(e)
    /\ result' = <<e>>
    /\ UNCHANGED bag

Next == \E e \in Element : Insert(e) \/ Extract(e) \/ Peek(e)

Spec == Init /\ [][Next]_vars
===============================================================================
