------------------------------ MODULE VectorHeap -------------------------------
(***************************************************************************)
(* What smpp::priority_queue does to its vector, which it keeps as a heap  *)
(* with the heap functions of the standard library.  Only what those       *)
(* functions promise is modelled: on a heap they may return any heap with  *)
(* the right elements, on a vector that is none they may leave anything    *)
(* behind.                                                                 *)
(***************************************************************************)
EXTENDS Integers, Sequences, Functions

CONSTANT comparator(_, _)   \* comparator(l, r): r is to be popped before l

S == INSTANCE SequencesExt

Arrangements(s) == {[k \in DOMAIN s |-> s[f[k]]] : f \in Bijection(DOMAIN s, DOMAIN s)}

\* No element is to be popped before its parent.
IsHeap(s) == \A k \in DOMAIN s : k > 1 => ~comparator(s[k \div 2], s[k])

\* std::push_heap: all but the last element are a heap; so is everything after.
PushHeap(s) ==
    {t \in Arrangements(s) : IsHeap(S!Front(s)) => IsHeap(t)}

\* std::pop_heap: the first element goes to the end, the rest is a heap.
PopHeap(s) ==
    {t \in Arrangements(s) :
        IsHeap(s) => t[Len(t)] = s[1] /\ IsHeap(S!Front(t))}

\* Faulty variants of Emplaced and AfterPop: the heap is not restored after
\* push_back, or the vector is shortened without pop_heap.
EmplacedAtEnd(s, e) == {Append(s, e)}
AfterPopBack(s) == {[rest |-> S!Front(s), value |-> s[Len(s)]]}

\* The vector after push(e) and emplace(args of e).
Emplaced(s, e) == PushHeap(Append(s, e))

\* The vector after pop(), and what it returns.
AfterPop(s) == {[rest |-> S!Front(t), value |-> t[Len(t)]] : t \in PopHeap(s)}
===============================================================================
