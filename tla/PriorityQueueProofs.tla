-------------------------- MODULE PriorityQueueProofs --------------------------
(***************************************************************************)
(* Proofs about PriorityQueue, for every set of elements and every strict  *)
(* weak order on them.  First what the heap operations do to a vector, for *)
(* elements that the comparator orders as the standard library asks.       *)
(***************************************************************************)
EXTENDS PriorityQueue, SumProofs, FiniteSetTheorems

\* The library's Compare requirement: a strict weak order on the elements.
StrictWeakOrder(E) ==
    /\ \A a \in E : ~comparator(a, a)
    /\ \A a, b, c \in E : comparator(a, c) => comparator(a, b) \/ comparator(b, c)

\* How often x is in the vector.
Places(s, x) == {k \in DOMAIN s : s[k] = x}

(***************************************************************************)
(* Rearranging a vector: it stays a vector of the same length and elements,*)
(* each as often as before, and equal elements come from equal ones.       *)
(***************************************************************************)
LEMMA ArrangedBy ==
    ASSUME NEW E, NEW s \in Seq(E), NEW t \in Arrangements(s)
    PROVE  \E f \in Bijection(DOMAIN s, DOMAIN s) : t = [k \in DOMAIN s |-> s[f[k]]]
  BY DEF Arrangements

LEMMA ArrangementType ==
    ASSUME NEW E, NEW s \in Seq(E), NEW t \in Arrangements(s)
    PROVE  /\ t \in Seq(E)
           /\ Len(t) = Len(s) /\ DOMAIN t = DOMAIN s
           /\ Range(t) = Range(s)
<1>1. PICK f \in Bijection(DOMAIN s, DOMAIN s) : t = [k \in DOMAIN s |-> s[f[k]]]
  BY ArrangedBy
<1>2. /\ f \in [DOMAIN s -> DOMAIN s]
      /\ \A m \in DOMAIN s : \E k \in DOMAIN s : f[k] = m
  BY <1>1 DEF Bijection, Injection, Surjection
<1>3. DOMAIN s = 1..Len(s) /\ Len(s) \in Nat
  OBVIOUS
<1>4. t \in [1..Len(s) -> E]
  BY <1>1, <1>2, <1>3
<1>5. t \in Seq(E) /\ Len(t) = Len(s) /\ DOMAIN t = DOMAIN s
  BY <1>3, <1>4
<1>6. Range(t) = Range(s)
  BY <1>1, <1>2, <1>5 DEF Range
<1> QED
  BY <1>5, <1>6

LEMMA ArrangementDistinct ==
    ASSUME NEW E, NEW s \in Seq(E), NEW t \in Arrangements(s)
    PROVE  \A x, y \in DOMAIN t : x # y =>
              \E k, l \in DOMAIN s : k # l /\ t[x] = s[k] /\ t[y] = s[l]
<1> SUFFICES ASSUME NEW x \in DOMAIN t, NEW y \in DOMAIN t, x # y
             PROVE  \E k, l \in DOMAIN s : k # l /\ t[x] = s[k] /\ t[y] = s[l]
  OBVIOUS
<1>1. PICK f \in Bijection(DOMAIN s, DOMAIN s) : t = [k \in DOMAIN s |-> s[f[k]]]
  BY ArrangedBy
<1>2. /\ f \in [DOMAIN s -> DOMAIN s]
      /\ \A k, l \in DOMAIN s : f[k] = f[l] => k = l
  BY <1>1 DEF Bijection, Injection, IsInjective
<1>3. x \in DOMAIN s /\ y \in DOMAIN s
  BY <1>1
<1>4. f[x] # f[y] /\ t[x] = s[f[x]] /\ t[y] = s[f[y]]
  BY <1>1, <1>2, <1>3
<1>5. f[x] \in DOMAIN s /\ f[y] \in DOMAIN s
  BY <1>2, <1>3
<1> QED
  BY <1>4, <1>5

LEMMA PlacesFinite ==
    ASSUME NEW E, NEW s \in Seq(E), NEW x
    PROVE  IsFiniteSet(Places(s, x)) /\ Cardinality(Places(s, x)) \in Nat
<1>1. DOMAIN s = 1..Len(s) /\ Len(s) \in Int /\ 1 \in Int
  OBVIOUS
<1>2. IsFiniteSet(DOMAIN s)
  BY <1>1, FS_Interval
<1>3. Places(s, x) \in SUBSET DOMAIN s
  BY DEF Places
<1>4. IsFiniteSet(Places(s, x))
  BY <1>2, <1>3, FS_Subset
<1> QED
  BY <1>4, FS_CardinalityType

LEMMA ArrangementPlaces ==
    ASSUME NEW E, NEW s \in Seq(E), NEW t \in Arrangements(s), NEW x
    PROVE  Cardinality(Places(t, x)) = Cardinality(Places(s, x))
<1>1. PICK f \in Bijection(DOMAIN s, DOMAIN s) : t = [k \in DOMAIN s |-> s[f[k]]]
  BY ArrangedBy
<1>2. /\ f \in [DOMAIN s -> DOMAIN s]
      /\ \A k, l \in DOMAIN s : f[k] = f[l] => k = l
      /\ \A m \in DOMAIN s : \E k \in DOMAIN s : f[k] = m
  BY <1>1 DEF Bijection, Injection, Surjection, IsInjective
<1> DEFINE g == [k \in Places(t, x) |-> f[k]]
<1>3. Places(t, x) = {k \in DOMAIN s : s[f[k]] = x}
  BY <1>1 DEF Places
<1>4. g \in [Places(t, x) -> Places(s, x)]
  BY <1>2, <1>3 DEF Places
<1>5. \A k, l \in Places(t, x) : g[k] = g[l] => k = l
  BY <1>2, <1>3
<1>6. \A m \in Places(s, x) : \E k \in Places(t, x) : g[k] = m
  BY <1>2, <1>3 DEF Places
<1> HIDE DEF g
<1>7. g \in Bijection(Places(t, x), Places(s, x))
  BY <1>4, <1>5, <1>6 DEF Bijection, Injection, Surjection, IsInjective
<1>8. t \in Seq(E)
  BY ArrangementType
<1>9. IsFiniteSet(Places(t, x))
  BY <1>8, PlacesFinite
<1> QED
  BY <1>7, <1>9, FS_Bijection DEF ExistsBijection

(***************************************************************************)
(* The ends of a vector.                                                   *)
(***************************************************************************)
LEMMA FrontOf ==
    ASSUME NEW E, NEW s \in Seq(E), s # <<>>
    PROVE  /\ S!Front(s) \in Seq(E)
           /\ Len(S!Front(s)) = Len(s) - 1
           /\ DOMAIN S!Front(s) = 1..(Len(s) - 1)
           /\ \A k \in 1..(Len(s) - 1) : S!Front(s)[k] = s[k]
           /\ Len(s) \in Nat \ {0} /\ DOMAIN s = 1..Len(s)
<1>1. Len(s) \in Nat \ {0} /\ DOMAIN s = 1..Len(s)
  OBVIOUS
<1>2. \A k \in 1..(Len(s) - 1) : s[k] \in E
  BY <1>1
<1>3. SubSeq(s, 1, Len(s) - 1) = [k \in 1..(Len(s) - 1) |-> s[k]]
  BY <1>1
<1>4. [k \in 1..(Len(s) - 1) |-> s[k]] \in Seq(E)
  BY <1>1, <1>2
<1> QED
  BY <1>1, <1>3, <1>4 DEF S!Front

LEMMA FrontOfAppend ==
    ASSUME NEW E, NEW s \in Seq(E), NEW e \in E
    PROVE  S!Front(Append(s, e)) = s
  BY DEF S!Front

LEMMA PlacesOfAppend ==
    ASSUME NEW E, NEW s \in Seq(E), NEW e \in E, NEW x
    PROVE  Cardinality(Places(Append(s, e), x))
             = Cardinality(Places(s, x)) + IF x = e THEN 1 ELSE 0
<1> DEFINE new == Len(s) + 1
<1>1. Places(Append(s, e), x) = IF x = e THEN Places(s, x) \cup {new} ELSE Places(s, x)
  BY DEF Places
<1>2. new \notin Places(s, x)
  BY DEF Places
<1>3. IsFiniteSet(Places(s, x)) /\ Cardinality(Places(s, x)) \in Nat
  BY PlacesFinite
<1>4. Cardinality(Places(s, x) \cup {new}) = Cardinality(Places(s, x)) + 1
  BY <1>2, <1>3, FS_AddElement
<1> QED
  BY <1>1, <1>3, <1>4

LEMMA PlacesOfFront ==
    ASSUME NEW E, NEW s \in Seq(E), s # <<>>, NEW x
    PROVE  Cardinality(Places(S!Front(s), x))
             = Cardinality(Places(s, x)) - IF x = s[Len(s)] THEN 1 ELSE 0
<1>1. Places(S!Front(s), x)
        = IF x = s[Len(s)] THEN Places(s, x) \ {Len(s)} ELSE Places(s, x)
  BY FrontOf DEF Places
<1>2. x = s[Len(s)] => Len(s) \in Places(s, x)
  BY DEF Places
<1>3. IsFiniteSet(Places(s, x)) /\ Cardinality(Places(s, x)) \in Nat
  BY PlacesFinite
<1>4. x = s[Len(s)] =>
          Cardinality(Places(s, x) \ {Len(s)}) = Cardinality(Places(s, x)) - 1
  BY <1>2, <1>3, FS_RemoveElement
<1> QED
  BY <1>1, <1>3, <1>4

\* What a vector holds is what has a place in it.
LEMMA PlacedIsHeld ==
    ASSUME NEW E, NEW s \in Seq(E), NEW x
    PROVE  Cardinality(Places(s, x)) > 0 <=> x \in Range(s)
<1>1. x \in Range(s) <=> Places(s, x) # {}
  BY DEF Range, Places
<1>2. Cardinality(Places(s, x)) = 0 <=> Places(s, x) = {}
  BY PlacesFinite, FS_EmptySet
<1> QED
  BY <1>1, <1>2, PlacesFinite
-------------------------------------------------------------------------------
(***************************************************************************)
(* A heap orders only parents and children, but none of its elements is to *)
(* be popped before the front: the first that were would have a parent     *)
(* that is not, and the order would not be a weak one.                     *)
(***************************************************************************)
LEMMA FrontIsFirst ==
    ASSUME NEW E, StrictWeakOrder(E), NEW s \in Seq(E), IsHeap(s), NEW k \in DOMAIN s
    PROVE  ~comparator(s[1], s[k])
<1> DEFINE A == {n \in DOMAIN s : comparator(s[1], s[n])}
<1>1. SUFFICES ASSUME A # {} PROVE FALSE
  OBVIOUS
<1>2. DOMAIN s = 1..Len(s) /\ Len(s) \in Nat /\ \A n \in DOMAIN s : s[n] \in E
  OBVIOUS
<1>3. A \in SUBSET Nat
  BY <1>2
<1>4. PICK m \in A : \A n \in A : m <= n
  BY <1>1, <1>3, LeastNumber
<1>5. m \in 1..Len(s) /\ comparator(s[1], s[m])
  BY <1>2, <1>4
<1>6. m # 1
  BY <1>2, <1>5 DEF StrictWeakOrder
<1> DEFINE p == m \div 2
<1>7. p \in 1..Len(s) /\ p < m /\ m > 1
  BY <1>5, <1>6
<1>8. p \notin A
  BY <1>4, <1>7
<1>9. ~comparator(s[1], s[p])
  BY <1>2, <1>7, <1>8
<1>10. ~comparator(s[p], s[m])
  BY <1>2, <1>5, <1>7 DEF IsHeap
<1> QED
  BY <1>2, <1>5, <1>7, <1>9, <1>10 DEF StrictWeakOrder

(***************************************************************************)
(* The two operations of the queue, seen from outside.                     *)
(***************************************************************************)
\* push and emplace: a heap again, with the new element beside the old ones.
LEMMA EmplacedIsHeap ==
    ASSUME NEW E, NEW s \in Seq(E), IsHeap(s), NEW e \in E, NEW t \in Emplaced(s, e)
    PROVE  /\ t \in Arrangements(Append(s, e))
           /\ t \in Seq(E) /\ Len(t) = Len(s) + 1
           /\ IsHeap(t)
           /\ Range(t) = Range(s) \cup {e}
           /\ \A x : Cardinality(Places(t, x))
                        = Cardinality(Places(s, x)) + IF x = e THEN 1 ELSE 0
<1>1. Append(s, e) \in Seq(E) /\ Len(Append(s, e)) = Len(s) + 1
  OBVIOUS
<1>2. t \in Arrangements(Append(s, e)) /\ (IsHeap(S!Front(Append(s, e))) => IsHeap(t))
  BY DEF Emplaced, PushHeap
<1>3. IsHeap(t)
  BY <1>2, FrontOfAppend
<1>4. /\ t \in Seq(E) /\ Len(t) = Len(s) + 1
      /\ Range(t) = Range(Append(s, e))
  BY <1>1, <1>2, ArrangementType
<1>5. Range(Append(s, e)) = Range(s) \cup {e}
  <2> DEFINE t1 == Append(s, e)
  <2>1. /\ DOMAIN t1 = DOMAIN s \cup {Len(s) + 1}
        /\ \A k \in DOMAIN s : t1[k] = s[k]
        /\ t1[Len(s) + 1] = e
    OBVIOUS
  <2> HIDE DEF t1
  <2>2. Range(t1) = Range(s) \cup {e}
    BY <2>1 DEF Range
  <2> QED
    BY <2>2 DEF t1
<1>6. ASSUME NEW x
      PROVE  Cardinality(Places(t, x)) = Cardinality(Places(s, x)) + IF x = e THEN 1 ELSE 0
  <2>1. Cardinality(Places(t, x)) = Cardinality(Places(Append(s, e), x))
    BY <1>1, <1>2, ArrangementPlaces
  <2> QED
    BY <2>1, PlacesOfAppend
<1> QED
  BY <1>2, <1>3, <1>4, <1>5, <1>6

\* pop: it gives the front, and leaves a heap of the others.
LEMMA PoppedIsFront ==
    ASSUME NEW E, NEW s \in Seq(E), IsHeap(s), s # <<>>, NEW p \in AfterPop(s)
    PROVE  \E t \in Arrangements(s) :
              /\ p = [rest |-> S!Front(t), value |-> t[Len(t)]]
              /\ t \in Seq(E) /\ Len(t) = Len(s) /\ t # <<>>
              /\ p.value = s[1] /\ IsHeap(p.rest)
<1>1. PICK t \in PopHeap(s) : p = [rest |-> S!Front(t), value |-> t[Len(t)]]
  BY DEF AfterPop
<1>2. t \in Arrangements(s) /\ t[Len(t)] = s[1] /\ IsHeap(S!Front(t))
  BY <1>1 DEF PopHeap
<1>3. t \in Seq(E) /\ Len(t) = Len(s)
  BY <1>2, ArrangementType
<1> QED
  BY <1>1, <1>2, <1>3

LEMMA PopPlaces ==
    ASSUME NEW E, NEW s \in Seq(E), IsHeap(s), s # <<>>, NEW p \in AfterPop(s)
    PROVE  /\ p.value = s[1] /\ p.value \in E
           /\ p.rest \in Seq(E) /\ Len(p.rest) = Len(s) - 1
           /\ IsHeap(p.rest)
           /\ \A x : Cardinality(Places(p.rest, x))
                        = Cardinality(Places(s, x)) - IF x = p.value THEN 1 ELSE 0
<1>1. PICK t \in Arrangements(s) :
          /\ p = [rest |-> S!Front(t), value |-> t[Len(t)]]
          /\ t \in Seq(E) /\ Len(t) = Len(s) /\ t # <<>>
          /\ p.value = s[1] /\ IsHeap(p.rest)
  BY PoppedIsFront
<1>2. p.rest = S!Front(t) /\ p.value = t[Len(t)]
  BY <1>1
<1>3. p.rest \in Seq(E) /\ Len(p.rest) = Len(s) - 1
  BY <1>1, <1>2, FrontOf
<1>4. ASSUME NEW x
      PROVE  Cardinality(Places(p.rest, x))
               = Cardinality(Places(s, x)) - IF x = p.value THEN 1 ELSE 0
  BY <1>1, <1>2, PlacesOfFront, ArrangementPlaces
<1>5. s[1] \in E
  OBVIOUS
<1> QED
  BY <1>1, <1>3, <1>4, <1>5

\* When no two places hold the same element, pop takes that element away.
LEMMA PopRange ==
    ASSUME NEW E, NEW s \in Seq(E), IsHeap(s), s # <<>>, NEW p \in AfterPop(s),
           \A k, l \in DOMAIN s : s[k] = s[l] => k = l
    PROVE  Range(p.rest) = Range(s) \ {p.value}
<1>1. PICK t \in Arrangements(s) :
          /\ p = [rest |-> S!Front(t), value |-> t[Len(t)]]
          /\ t \in Seq(E) /\ Len(t) = Len(s) /\ t # <<>>
          /\ p.value = s[1] /\ IsHeap(p.rest)
  BY PoppedIsFront
<1>2. p.rest = S!Front(t) /\ p.value = t[Len(t)]
  BY <1>1
<1>3. ASSUME NEW k \in DOMAIN t, NEW l \in DOMAIN t, t[k] = t[l]
      PROVE  k = l
  <2>1. SUFFICES ASSUME k # l PROVE FALSE
    OBVIOUS
  <2>2. PICK m, n \in DOMAIN s : m # n /\ t[k] = s[m] /\ t[l] = s[n]
    BY <2>1, ArrangementDistinct
  <2> QED
    BY <1>3, <2>2
<1>4. Range(S!Front(t)) = Range(t) \ {t[Len(t)]}
  <2> DEFINE f == S!Front(t)
  <2>1. /\ DOMAIN f = 1..(Len(t) - 1)
        /\ \A k \in 1..(Len(t) - 1) : f[k] = t[k]
        /\ Len(t) \in Nat \ {0} /\ DOMAIN t = 1..Len(t)
    BY <1>1, FrontOf
  <2>2. DOMAIN t = DOMAIN f \cup {Len(t)} /\ Len(t) \notin DOMAIN f
    BY <2>1
  <2> HIDE DEF f
  <2>3. Range(f) = Range(t) \ {t[Len(t)]}
    BY <1>3, <2>1, <2>2 DEF Range
  <2> QED
    BY <2>3 DEF f
<1>5. Range(t) = Range(s)
  BY ArrangementType
<1> QED
  BY <1>2, <1>4, <1>5
-------------------------------------------------------------------------------
TypeOK == container \in Seq(Element) /\ result \in Seq(Element)

LEMMA ElementsOrdered == StrictWeakOrder(Element)
  BY ComparatorAssumption DEF StrictWeakOrder

(***************************************************************************)
(* The vector is a heap: nothing but its type is needed for that, as every *)
(* operation leaves a heap where it finds one.                             *)
(***************************************************************************)
LEMMA InitHeap == Init => TypeOK /\ AlwaysHeap
  BY DEF Init, TypeOK, AlwaysHeap, IsHeap

LEMMA StepHeap == TypeOK /\ AlwaysHeap /\ [Next]_vars => TypeOK' /\ AlwaysHeap'
<1> SUFFICES ASSUME TypeOK, AlwaysHeap, [Next]_vars
             PROVE  TypeOK' /\ AlwaysHeap'
  OBVIOUS
<1>1. container \in Seq(Element) /\ IsHeap(container)
  BY DEF TypeOK, AlwaysHeap
<1>2. ASSUME NEW e \in Element, Emplace(e)
      PROVE  TypeOK' /\ AlwaysHeap'
  <2>1. container' \in Emplaced(container, e) /\ result' = <<>>
    BY <1>2 DEF Emplace
  <2>2. container' \in Seq(Element) /\ IsHeap(container')
    BY <1>1, <2>1, EmplacedIsHeap
  <2> QED
    BY <2>1, <2>2 DEF TypeOK, AlwaysHeap, IsHeap
<1>3. CASE Pop
  <2>1. PICK p \in AfterPop(container) : container' = p.rest /\ result' = <<p.value>>
    BY <1>3 DEF Pop
  <2>2. container # <<>>
    BY <1>3 DEF Pop
  <2>3. p.value \in Element /\ p.rest \in Seq(Element) /\ IsHeap(p.rest)
    BY <1>1, <2>2, PopPlaces
  <2> QED
    BY <2>1, <2>3 DEF TypeOK, AlwaysHeap, IsHeap
<1>4. CASE Top
  <2>1. container # <<>> /\ result' = <<container[1]>> /\ container' = container
    BY <1>4 DEF Top
  <2>2. container[1] \in Element
    BY <1>1, <2>1
  <2> QED
    BY <1>1, <2>1, <2>2 DEF TypeOK, AlwaysHeap, IsHeap
<1>5. CASE UNCHANGED vars
  BY <1>1, <1>5 DEF vars, TypeOK, AlwaysHeap, IsHeap
<1> QED
  BY <1>2, <1>3, <1>4, <1>5 DEF Next

\* Between any two calls the vector holds elements.
THEOREM TypeCorrect == Spec => []TypeOK
  BY InitHeap, StepHeap, PTL DEF Spec

\* Between any two calls the vector is a heap, so that push_heap and pop_heap
\* never meet a vector that is none.
THEOREM HeapBetweenCalls == Spec => []AlwaysHeap
  BY InitHeap, StepHeap, PTL DEF Spec
-------------------------------------------------------------------------------
(***************************************************************************)
(* The bag: how often each element is in the vector.                       *)
(***************************************************************************)
BagOf(s) == [e \in Element |-> Cardinality(Places(s, e))]

LEMMA BagType ==
    ASSUME NEW s \in Seq(Element)
    PROVE  /\ BagOf(s) \in [Element -> Nat]
           /\ \A e \in Element : BagOf(s)[e] > 0 <=> e \in Range(s)
  BY PlacesFinite, PlacedIsHeld DEF BagOf

\* The front of a heap is in the bag, and nothing is to be popped before it.
LEMMA FrontIsFirstOfBag ==
    ASSUME NEW s \in Seq(Element), IsHeap(s), s # <<>>
    PROVE  /\ s[1] \in Element
           /\ BagOf(s)[s[1]] > 0
           /\ \A other \in Element : BagOf(s)[other] > 0 => ~comparator(s[1], other)
<1>1. s[1] \in Element /\ s[1] \in Range(s)
  BY DEF Range
<1>2. ASSUME NEW other \in Element, BagOf(s)[other] > 0
      PROVE  ~comparator(s[1], other)
  <2>1. PICK k \in DOMAIN s : s[k] = other
    BY <1>2, BagType DEF Range
  <2> QED
    BY <2>1, ElementsOrdered, FrontIsFirst
<1> QED
  BY <1>1, <1>2, BagType

LEMMA BagInit == Init => Bag!Init
<1> SUFFICES ASSUME Init PROVE Bag!Init
  OBVIOUS
<1>1. \A e \in Element : {k \in DOMAIN container : container[k] = e} = {}
  BY DEF Init
<1>2. Cardinality({}) = 0
  BY FS_EmptySet
<1> QED
  BY <1>1, <1>2 DEF Bag!Init, Init

LEMMA BagStep == TypeOK /\ AlwaysHeap /\ [Next]_vars => [Bag!Next]_(Bag!vars)
<1> SUFFICES ASSUME TypeOK, AlwaysHeap, [Next]_vars
             PROVE  [Bag!Next]_(Bag!vars)
  OBVIOUS
<1> DEFINE bag == BagOf(container)
           bag2 == BagOf(container')
<1>1. container \in Seq(Element) /\ IsHeap(container)
  BY DEF TypeOK, AlwaysHeap
<1>2. ASSUME NEW e \in Element, Emplace(e)
      PROVE  Bag!Insert(e)
  <2>1. container' \in Emplaced(container, e) /\ result' = <<>>
    BY <1>2 DEF Emplace
  <2>2. \A x : Cardinality(Places(container', x))
                 = Cardinality(Places(container, x)) + IF x = e THEN 1 ELSE 0
    BY <1>1, <2>1, EmplacedIsHeap
  <2>3. \A x \in Element : Cardinality(Places(container, x)) \in Nat
    BY <1>1, PlacesFinite
  <2>4. \A x \in Element :
            Cardinality(Places(container', x))
              = IF x = e THEN Cardinality(Places(container, x)) + 1
                ELSE Cardinality(Places(container, x))
    BY <2>2, <2>3
  <2>5. bag2 = [bag EXCEPT ![e] = @ + 1]
    BY <2>4 DEF BagOf
  <2> QED
    BY <2>1, <2>5 DEF Bag!Insert, BagOf, Places
<1>3. ASSUME Pop
      PROVE  \E e \in Element : Bag!Extract(e)
  <2>1. PICK p \in AfterPop(container) : container' = p.rest /\ result' = <<p.value>>
    BY <1>3 DEF Pop
  <2>2. container # <<>>
    BY <1>3 DEF Pop
  <2>3. /\ p.value = container[1] /\ p.value \in Element
        /\ \A x : Cardinality(Places(p.rest, x))
                    = Cardinality(Places(container, x)) - IF x = p.value THEN 1 ELSE 0
    BY <1>1, <2>2, PopPlaces
  <2>4. \A x \in Element : Cardinality(Places(container, x)) \in Nat
    BY <1>1, PlacesFinite
  <2>5. bag2 = [bag EXCEPT ![p.value] = @ - 1]
    BY <2>1, <2>3, <2>4 DEF BagOf
  <2>6. /\ bag[p.value] > 0
        /\ \A other \in Element : bag[other] > 0 => ~comparator(p.value, other)
    BY <1>1, <2>2, <2>3, FrontIsFirstOfBag
  <2>7. Bag!Extract(p.value)
    BY <2>1, <2>5, <2>6 DEF Bag!Extract, Bag!First, BagOf, Places
  <2> QED
    BY <2>3, <2>7
<1>4. ASSUME Top
      PROVE  \E e \in Element : Bag!Peek(e)
  <2>1. container # <<>> /\ result' = <<container[1]>> /\ container' = container
    BY <1>4 DEF Top
  <2>2. /\ container[1] \in Element
        /\ bag[container[1]] > 0
        /\ \A other \in Element : bag[other] > 0 => ~comparator(container[1], other)
    BY <1>1, <2>1, FrontIsFirstOfBag
  <2>3. Bag!Peek(container[1])
    BY <2>1, <2>2 DEF Bag!Peek, Bag!First, BagOf, Places
  <2> QED
    BY <2>2, <2>3
<1>5. CASE UNCHANGED vars
  BY <1>5 DEF vars, Bag!vars
<1> QED
  BY <1>2, <1>3, <1>4, <1>5 DEF Next, Bag!Next

\* Whatever calls are made in whatever order, the vector behaves as a bag that
\* gives back an element none is to be popped before: the heap loses nothing,
\* duplicates nothing, and its front is a first element of all.
THEOREM QueueImplementsBag == Spec => ImplementsBag
<1>1. Init => Bag!Init
  BY BagInit
<1>2. TypeOK /\ AlwaysHeap /\ [Next]_vars => [Bag!Next]_(Bag!vars)
  BY BagStep
<1> QED
  BY <1>1, <1>2, TypeCorrect, HeapBetweenCalls, PTL DEF Spec, ImplementsBag, Bag!Spec
===============================================================================
