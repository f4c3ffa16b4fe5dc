----------------------------- MODULE PriorityQueue -----------------------------
(***************************************************************************)
(* smpp::priority_queue as an object of its own, under any sequence of     *)
(* calls a caller may make.                                                *)
(***************************************************************************)
EXTENDS VectorHeap, FiniteSets

CONSTANTS
    Element,   \* what is queued
    MaxSize    \* bound of the model on the size of the queue

\* The standard library asks for a strict weak order.  later_first compares two
\* doubles by >, which is one as long as none of them is NaN.
ASSUME ComparatorAssumption ==
    /\ \A a \in Element : ~comparator(a, a)
    /\ \A a, b, c \in Element : comparator(a, c) => comparator(a, b) \/ comparator(b, c)

VARIABLES
    container,   \* the vector; its front is what is popped next
    result       \* what the last call returned, as a sequence of length 0 or 1

vars == <<container, result>>
-------------------------------------------------------------------------------
Init == container = <<>> /\ result = <<>>

Emplace(e) ==
    /\ Len(container) < MaxSize
    /\ container' \in Emplaced(container, e)
    /\ result' = <<>>

\* The callers ask empty() first: an empty vector has no back().
Pop ==
    /\ container # <<>>
    /\ \E p \in AfterPop(container) :
        /\ container' = p.rest
        /\ result' = <<p.value>>

Top ==
    /\ container # <<>>
    /\ result' = <<container[1]>>
    /\ UNCHANGED container

Next == Pop \/ Top \/ \E e \in Element : Emplace(e)

Spec == Init /\ [][Next]_vars
-------------------------------------------------------------------------------
\* The vector is a heap between any two calls: every call finds the library's
\* precondition met, whatever the calls before it were.
AlwaysHeap == IsHeap(container)

\* As seen from outside, the vector is a bag from which pop() takes an element
\* that none is to be popped before, though a heap orders only parents and
\* children; no call loses or duplicates an element.
Bag == INSTANCE PriorityBag WITH
    bag <- [e \in Element |-> Cardinality({k \in DOMAIN container : container[k] = e})]

ImplementsBag == Bag!Spec
===============================================================================
