------------------------------- MODULE SumProofs -------------------------------
(***************************************************************************)
(* Induction, and sums of lists of any length.                             *)
(*                                                                         *)
(* Induction is on sets of natural numbers: LeastNumber says that such a   *)
(* set, if not empty, has a least element; Induction and Recursion follow. *)
(***************************************************************************)
EXTENDS Sums, WellFoundedInduction, TLAPS

LEMMA LeastNumber ==
    ASSUME NEW A \in SUBSET Nat, A # {}
    PROVE  \E m \in A : \A n \in A : m <= n
<1> DEFINE R == OpToRel(<, Nat)
<1>1. IsWellFoundedOn(R, Nat)
  BY NatLessThanWellFounded
<1>2. \A x, y \in Nat : x < y => <<x, y>> \in R
  BY DEF OpToRel
<1> HIDE DEF R
<1>3. \E m \in A : \A n \in A : ~(<<n, m>> \in R)
  BY <1>1, WFMin
<1>4. PICK m \in A : \A n \in A : ~(<<n, m>> \in R)
  BY <1>3
<1>5. ASSUME NEW n \in A PROVE m <= n
  <2>1. m \in Nat /\ n \in Nat
    OBVIOUS
  <2>2. ~(n < m)
    BY <1>2, <1>4, <2>1
  <2> QED
    BY <2>1, <2>2
<1> QED
  BY <1>5

LEMMA Induction ==
    ASSUME NEW A, 0 \in A, \A n \in Nat : n \in A => n + 1 \in A
    PROVE  \A n \in Nat : n \in A
<1> SUFFICES ASSUME Nat \ A # {}
             PROVE  FALSE
  OBVIOUS
<1>1. PICK m \in Nat \ A : \A n \in Nat \ A : m <= n
  BY LeastNumber
<1>2. m - 1 \in Nat /\ m - 1 \notin Nat \ A
  BY <1>1
<1>3. (m - 1) + 1 \in A
  BY <1>2
<1> QED
  BY <1>1, <1>3

\* A value carried along by one function after the other, up to the n-th.
Carries(f, n, base, g) == f[0] = base /\ \A k \in 1..n : f[k] = g[k][f[k - 1]]

LEMMA Recursion ==
    \A V, base, g : base \in V /\ g \in [Nat \ {0} -> [V -> V]] =>
        \A n \in Nat : \E f \in [0..n -> V] : Carries(f, n, base, g)
<1> SUFFICES ASSUME NEW V, NEW base \in V, NEW g \in [Nat \ {0} -> [V -> V]]
             PROVE  \A n \in Nat : \E f \in [0..n -> V] : Carries(f, n, base, g)
  OBVIOUS
<1> DEFINE A == {n \in Nat : \E f \in [0..n -> V] : Carries(f, n, base, g)}
<1>1. 0 \in A
  <2> DEFINE f == [k \in 0..0 |-> base]
  <2>1. f \in [0..0 -> V] /\ f[0] = base
    OBVIOUS
  <2>2. \A k \in 1..0 : f[k] = g[k][f[k - 1]]
    OBVIOUS
  <2> HIDE DEF f
  <2> QED
    BY <2>1, <2>2 DEF Carries
<1>2. ASSUME NEW n \in Nat, n \in A
      PROVE  n + 1 \in A
  <2>1. PICK f \in [0..n -> V] : f[0] = base /\ \A k \in 1..n : f[k] = g[k][f[k - 1]]
    BY <1>2 DEF Carries
  <2> DEFINE h == [k \in 0..(n + 1) |-> IF k = n + 1 THEN g[n + 1][f[n]] ELSE f[k]]
  <2>2. h \in [0..(n + 1) -> V]
    BY <2>1
  <2>3. ASSUME NEW k \in 1..(n + 1)
        PROVE  h[k] = g[k][h[k - 1]]
    <3>1. CASE k = n + 1
      BY <3>1
    <3>2. CASE k \in 1..n
      BY <2>1, <3>2
    <3> QED
      BY <3>1, <3>2
  <2>4. h[0] = base
    BY <2>1
  <2> HIDE DEF h
  <2> QED
    BY <2>2, <2>3, <2>4 DEF Carries
<1> HIDE DEF A
<1>3. \A n \in Nat : n \in A
  BY <1>1, <1>2, Induction
<1> QED
  BY <1>3 DEF A
-------------------------------------------------------------------------------
(***************************************************************************)
(* Sums of lists of numbers.                                               *)
(***************************************************************************)
LEMMA LengthOf ==
    ASSUME NEW E, NEW s \in Seq(E)
    PROVE  Len(s) \in Nat /\ DOMAIN s = 1..Len(s) /\ \A n \in 1..Len(s) : s[n] \in E
  OBVIOUS

LEMMA PartialSumsStep ==
    ASSUME NEW s \in Seq(Int)
    PROVE  /\ PartialSums(s) \in [0..Len(s) -> Int]
           /\ PartialSums(s)[0] = 0
           /\ \A n \in 1..Len(s) : PartialSums(s)[n] = PartialSums(s)[n - 1] + s[n]
<1>1. Len(s) \in Nat /\ \A n \in 1..Len(s) : s[n] \in Int
  OBVIOUS
<1>2. \E f : f = [n \in 0..Len(s) |-> IF n = 0 THEN 0 ELSE f[n - 1] + s[n]]
  <2> DEFINE g == [k \in Nat \ {0} |-> [v \in Int |-> IF k \in 1..Len(s) THEN v + s[k] ELSE v]]
  <2>1. g \in [Nat \ {0} -> [Int -> Int]]
    BY <1>1
  <2>2. \A k \in 1..Len(s), v \in Int : g[k][v] = v + s[k]
    BY <1>1
  <2> HIDE DEF g
  <2>3. \A n \in Nat : \E f \in [0..n -> Int] : Carries(f, n, 0, g)
    <3>1. 0 \in Int
      OBVIOUS
    <3> QED
      BY <2>1, <3>1, Recursion
  <2>6. PICK f \in [0..Len(s) -> Int] : f[0] = 0 /\ \A k \in 1..Len(s) : f[k] = g[k][f[k - 1]]
    BY <1>1, <2>3 DEF Carries
  <2>4. ASSUME NEW k \in 1..Len(s)
        PROVE  f[k] = f[k - 1] + s[k]
    <3>1. f[k - 1] \in Int
      BY <1>1
    <3> QED
      BY <2>2, <2>6, <3>1
  <2>5. f = [n \in 0..Len(s) |-> IF n = 0 THEN 0 ELSE f[n - 1] + s[n]]
    BY <1>1, <2>6, <2>4
  <2> QED
    BY <2>5
<1> DEFINE P == PartialSums(s)
<1>3. P = [n \in 0..Len(s) |-> IF n = 0 THEN 0 ELSE P[n - 1] + s[n]]
  BY <1>2 DEF PartialSums
<1> HIDE DEF P
<1>4. P[0] = 0 /\ \A n \in 1..Len(s) : P[n] = P[n - 1] + s[n]
  <2>1. 0 \in 0..Len(s) /\ \A n \in 1..Len(s) : n \in 0..Len(s) /\ n # 0
    BY <1>1
  <2>2. \A n \in 0..Len(s) : P[n] = IF n = 0 THEN 0 ELSE P[n - 1] + s[n]
    BY <1>3, Zenon
  <2> QED
    BY <2>1, <2>2, Zenon
<1> DEFINE A == {n \in Nat : n <= Len(s) => P[n] \in Int}
<1>5. 0 \in A
  BY <1>4
<1>6. ASSUME NEW n \in Nat, n \in A
      PROVE  n + 1 \in A
  <2>1. n + 1 <= Len(s) => n + 1 \in 1..Len(s) /\ (n + 1) - 1 = n
    BY <1>1
  <2>2. n + 1 <= Len(s) => P[n + 1] = P[n] + s[n + 1] /\ s[n + 1] \in Int
    BY <1>1, <1>4, <2>1
  <2> QED
    BY <1>1, <1>6, <2>2
<1> HIDE DEF A
<1>7. \A n \in Nat : n \in A
  BY <1>5, <1>6, Induction
<1>8. \A n \in 0..Len(s) : P[n] \in Int
  BY <1>1, <1>7 DEF A
<1>9. P \in [0..Len(s) -> Int]
  BY <1>3, <1>8
<1> QED
  BY <1>4, <1>9 DEF P

LEMMA TotalType ==
    ASSUME NEW s \in Seq(Int)
    PROVE  Total(s) \in Int
  BY PartialSumsStep DEF Total

\* Two lists that begin alike have the same sums there.
LEMMA TotalConcat ==
    ASSUME NEW s \in Seq(Int), NEW t \in Seq(Int)
    PROVE  Total(s \o t) = Total(s) + Total(t)
<1> DEFINE u == s \o t
<1>1. /\ u \in Seq(Int) /\ Len(u) = Len(s) + Len(t)
      /\ Len(s) \in Nat /\ Len(t) \in Nat
      /\ \A n \in 1..Len(s) : u[n] = s[n] /\ s[n] \in Int
      /\ \A n \in 1..Len(t) : u[Len(s) + n] = t[n] /\ t[n] \in Int
  OBVIOUS
<1> HIDE DEF u
<1> DEFINE P(w) == PartialSums(w)
<1>2. /\ P(s) \in [0..Len(s) -> Int] /\ P(t) \in [0..Len(t) -> Int]
      /\ P(u) \in [0..(Len(s) + Len(t)) -> Int]
      /\ P(s)[0] = 0 /\ P(t)[0] = 0 /\ P(u)[0] = 0
      /\ \A n \in 1..Len(s) : P(s)[n] = P(s)[n - 1] + s[n]
      /\ \A n \in 1..Len(t) : P(t)[n] = P(t)[n - 1] + t[n]
      /\ \A n \in 1..(Len(s) + Len(t)) : P(u)[n] = P(u)[n - 1] + u[n]
  BY <1>1, PartialSumsStep
<1> HIDE DEF P
<1> DEFINE A == {n \in Nat : n <= Len(s) => P(u)[n] = P(s)[n]}
<1>3. \A n \in Nat : n \in A
  <2>1. 0 \in A
    BY <1>2
  <2>2. ASSUME NEW n \in Nat, n \in A
        PROVE  n + 1 \in A
    <3>1. SUFFICES ASSUME n + 1 <= Len(s)
                   PROVE  P(u)[n + 1] = P(s)[n + 1]
      OBVIOUS
    <3>2. /\ n + 1 \in 1..Len(s) /\ n + 1 \in 1..(Len(s) + Len(t)) /\ (n + 1) - 1 = n
          /\ n <= Len(s)
      BY <1>1, <3>1
    <3>3. P(u)[n + 1] = P(u)[n] + u[n + 1] /\ P(s)[n + 1] = P(s)[n] + s[n + 1]
      BY <1>2, <3>2
    <3> QED
      BY <1>1, <2>2, <3>2, <3>3
  <2> HIDE DEF A
  <2> QED
    BY <2>1, <2>2, Induction
<1>4. P(u)[Len(s)] = P(s)[Len(s)]
  BY <1>1, <1>3
<1> DEFINE B == {n \in Nat : n <= Len(t) => P(u)[Len(s) + n] = P(s)[Len(s)] + P(t)[n]}
<1>5. \A n \in Nat : n \in B
  <2>1. 0 \in B
    <3>1. Len(s) + 0 = Len(s) /\ Len(s) \in 0..Len(s)
      BY <1>1
    <3>2. P(s)[Len(s)] \in Int
      BY <1>2, <3>1
    <3> QED
      BY <1>2, <1>4, <3>1, <3>2
  <2>2. ASSUME NEW n \in Nat, n \in B
        PROVE  n + 1 \in B
    <3>1. SUFFICES ASSUME n + 1 <= Len(t)
                   PROVE  P(u)[Len(s) + (n + 1)] = P(s)[Len(s)] + P(t)[n + 1]
      OBVIOUS
    <3>2. /\ n + 1 \in 1..Len(t) /\ (n + 1) - 1 = n /\ n <= Len(t) /\ n \in 0..Len(t)
          /\ Len(s) + (n + 1) \in 1..(Len(s) + Len(t))
          /\ (Len(s) + (n + 1)) - 1 = Len(s) + n
          /\ Len(s) \in 0..Len(s)
      BY <1>1, <3>1
    <3>3. /\ P(u)[Len(s) + (n + 1)] = P(u)[Len(s) + n] + u[Len(s) + (n + 1)]
          /\ P(t)[n + 1] = P(t)[n] + t[n + 1]
      BY <1>2, <3>2
    <3>4. P(s)[Len(s)] \in Int /\ P(t)[n] \in Int /\ t[n + 1] \in Int
      BY <1>1, <1>2, <3>2
    <3>5. u[Len(s) + (n + 1)] = t[n + 1]
      BY <1>1, <3>2
    <3>6. P(u)[Len(s) + n] = P(s)[Len(s)] + P(t)[n]
      BY <2>2, <3>2
    <3> QED
      BY <3>3, <3>4, <3>5, <3>6
  <2> HIDE DEF B
  <2> QED
    BY <2>1, <2>2, Induction
<1>6. P(u)[Len(s) + Len(t)] = P(s)[Len(s)] + P(t)[Len(t)]
  BY <1>1, <1>5
<1> QED
  BY <1>1, <1>6 DEF Total, P, u

LEMMA TotalOne ==
    ASSUME NEW x \in Int
    PROVE  Total(<<x>>) = x
<1>1. <<x>> \in Seq(Int) /\ Len(<<x>>) = 1 /\ <<x>>[1] = x
  OBVIOUS
<1>2. /\ PartialSums(<<x>>)[0] = 0
      /\ PartialSums(<<x>>)[1] = PartialSums(<<x>>)[0] + x
  <2> DEFINE s == <<x>>
  <2>1. s \in Seq(Int) /\ Len(s) = 1 /\ s[1] = x
    OBVIOUS
  <2> HIDE DEF s
  <2>2. /\ PartialSums(s)[0] = 0
        /\ \A n \in 1..1 : PartialSums(s)[n] = PartialSums(s)[n - 1] + s[n]
    BY <2>1, PartialSumsStep
  <2>3. PartialSums(s)[1] = PartialSums(s)[1 - 1] + x
    BY <2>1, <2>2
  <2> QED
    BY <2>2, <2>3 DEF s
<1> QED
  BY <1>1, <1>2 DEF Total

\* Only one number of the list is not 0.
LEMMA TotalOnly ==
    ASSUME NEW s \in Seq(Int), NEW m \in 1..Len(s), \A n \in 1..Len(s) : n # m => s[n] = 0
    PROVE  Total(s) = s[m]
<1> DEFINE P == PartialSums(s)
<1>1. /\ Len(s) \in Nat /\ s[m] \in Int /\ m \in Nat /\ 1 <= m /\ m <= Len(s)
      /\ P[0] = 0 /\ \A n \in 1..Len(s) : P[n] = P[n - 1] + s[n]
  BY PartialSumsStep
<1> HIDE DEF P
<1> DEFINE A == {n \in Nat : n <= Len(s) => P[n] = IF n < m THEN 0 ELSE s[m]}
<1>2. 0 \in A
  BY <1>1
<1>3. ASSUME NEW n \in Nat, n \in A
      PROVE  n + 1 \in A
  <2>1. SUFFICES ASSUME n + 1 <= Len(s)
                 PROVE  P[n + 1] = IF n + 1 < m THEN 0 ELSE s[m]
    OBVIOUS
  <2>2. n + 1 \in 1..Len(s) /\ (n + 1) - 1 = n /\ n <= Len(s)
    BY <1>1, <2>1
  <2>3. P[n + 1] = P[n] + s[n + 1]
    BY <1>1, <2>2
  <2>4. P[n] = IF n < m THEN 0 ELSE s[m]
    BY <1>3, <2>2
  <2>5. n + 1 # m => s[n + 1] = 0
    BY <2>2
  <2>6. m \in Nat /\ s[m] \in Int
    BY <1>1
  <2>7. CASE n + 1 < m
    <3>1. P[n] = 0 /\ s[n + 1] = 0
      BY <2>4, <2>5, <2>6, <2>7
    <3> QED
      BY <2>3, <2>7, <3>1
  <2>8. CASE n + 1 = m
    <3>1. P[n] = 0
      BY <2>4, <2>6, <2>8
    <3>2. P[n + 1] = s[m]
      BY <2>3, <2>6, <2>8, <3>1
    <3> QED
      BY <2>6, <2>8, <3>2
  <2>9. CASE n + 1 > m
    <3>1. P[n] = s[m] /\ s[n + 1] = 0
      BY <2>4, <2>5, <2>6, <2>9
    <3>2. P[n + 1] = s[m]
      BY <2>3, <2>6, <3>1
    <3> QED
      BY <2>6, <2>9, <3>2
  <2> QED
    BY <2>6, <2>7, <2>8, <2>9
<1> HIDE DEF A
<1>4. \A n \in Nat : n \in A
  BY <1>2, <1>3, Induction
<1>5. P[Len(s)] = s[m]
  <2>1. Len(s) \in A /\ ~(Len(s) < m) /\ Len(s) <= Len(s)
    BY <1>1, <1>4
  <2>2. P[Len(s)] = IF Len(s) < m THEN 0 ELSE s[m]
    BY <2>1, Zenon DEF A
  <2> QED
    BY <2>1, <2>2, Zenon
<1> QED
  BY <1>5 DEF Total, P

\* Of numbers that are at least x the sum is at least so many times x.
LEMMA TotalAtLeast ==
    ASSUME NEW s \in Seq(Int), NEW x \in Int, \A n \in 1..Len(s) : x <= s[n]
    PROVE  Len(s) * x <= Total(s)
<1> DEFINE P == PartialSums(s)
<1>1. /\ Len(s) \in Nat /\ P \in [0..Len(s) -> Int] /\ \A n \in 1..Len(s) : s[n] \in Int
      /\ P[0] = 0 /\ \A n \in 1..Len(s) : P[n] = P[n - 1] + s[n]
  BY PartialSumsStep
<1> HIDE DEF P
<1> DEFINE A == {n \in Nat : n <= Len(s) => n * x <= P[n]}
<1>2. 0 \in A
  BY <1>1
<1>3. ASSUME NEW n \in Nat, n \in A
      PROVE  n + 1 \in A
  <2>1. SUFFICES ASSUME n + 1 <= Len(s)
                 PROVE  (n + 1) * x <= P[n + 1]
    OBVIOUS
  <2>2. n + 1 \in 1..Len(s) /\ (n + 1) - 1 = n /\ n \in 0..Len(s)
    BY <1>1, <2>1
  <2>3. P[n + 1] = P[n] + s[n + 1] /\ x <= s[n + 1] /\ n * x <= P[n]
    BY <1>1, <1>3, <2>2
  <2>4. P[n] \in Int /\ s[n + 1] \in Int
    BY <1>1, <2>2
  <2>5. (n + 1) * x = n * x + x /\ n * x \in Int
    OBVIOUS
  <2> QED
    BY <2>3, <2>4, <2>5
<1> HIDE DEF A
<1>4. \A n \in Nat : n \in A
  BY <1>2, <1>3, Induction
<1> QED
  BY <1>1, <1>4 DEF A, P, Total

\* One number of the list is exchanged for another.
LEMMA TotalChanged ==
    ASSUME NEW s \in Seq(Int), NEW t \in Seq(Int), Len(s) = Len(t), NEW m \in 1..Len(s),
           \A n \in 1..Len(s) : n # m => t[n] = s[n]
    PROVE  Total(t) = Total(s) - s[m] + t[m]
<1> DEFINE P == PartialSums(s)
           Q == PartialSums(t)
<1>1. /\ Len(s) \in Nat /\ m \in Nat /\ 1 <= m /\ m <= Len(s)
      /\ \A n \in 1..Len(s) : s[n] \in Int /\ t[n] \in Int
      /\ P \in [0..Len(s) -> Int] /\ Q \in [0..Len(s) -> Int]
      /\ P[0] = 0 /\ \A n \in 1..Len(s) : P[n] = P[n - 1] + s[n]
      /\ Q[0] = 0 /\ \A n \in 1..Len(s) : Q[n] = Q[n - 1] + t[n]
  <2>1. Len(s) \in Nat /\ \A n \in 1..Len(s) : s[n] \in Int /\ t[n] \in Int
    OBVIOUS
  <2>2. /\ P \in [0..Len(s) -> Int] /\ P[0] = 0
        /\ \A n \in 1..Len(s) : P[n] = P[n - 1] + s[n]
    BY PartialSumsStep
  <2>3. /\ Q \in [0..Len(t) -> Int] /\ Q[0] = 0
        /\ \A n \in 1..Len(t) : Q[n] = Q[n - 1] + t[n]
    BY PartialSumsStep
  <2> QED
    BY <2>1, <2>2, <2>3
<1> HIDE DEF P, Q
<1> DEFINE d == t[m] - s[m]
<1>2. d \in Int /\ t[m] = s[m] + d /\ \A x \in Int : x + d = x - s[m] + t[m]
  BY <1>1
<1> HIDE DEF d
<1> DEFINE A == {n \in Nat : n <= Len(s) => Q[n] = IF n < m THEN P[n] ELSE P[n] + d}
<1>3. 0 \in A
  BY <1>1
<1>4. ASSUME NEW n \in Nat, n \in A
      PROVE  n + 1 \in A
  <2>1. SUFFICES ASSUME n + 1 <= Len(s)
                 PROVE  Q[n + 1] = IF n + 1 < m THEN P[n + 1] ELSE P[n + 1] + d
    OBVIOUS
  <2>2. n + 1 \in 1..Len(s) /\ (n + 1) - 1 = n /\ n \in 0..Len(s)
    BY <1>1, <2>1
  <2>3. /\ P[n + 1] = P[n] + s[n + 1] /\ Q[n + 1] = Q[n] + t[n + 1]
        /\ P[n] \in Int /\ s[n + 1] \in Int
    BY <1>1, <2>2, Zenon
  <2>4. Q[n] = IF n < m THEN P[n] ELSE P[n] + d
    BY <1>4, <2>2
  <2>5. n + 1 # m => t[n + 1] = s[n + 1]
    BY <2>2
  <2>6. \A x, y, z \in Int : x + (y + z) = (x + y) + z /\ (x + z) + y = (x + y) + z
    OBVIOUS
  <2>7. CASE n + 1 < m
    <3>1. n < m /\ n + 1 # m
      BY <1>1, <2>7
    <3>2. Q[n] = P[n] /\ t[n + 1] = s[n + 1]
      BY <2>4, <2>5, <3>1, Zenon
    <3> QED
      BY <2>3, <2>7, <3>2, Zenon
  <2>8. CASE n + 1 = m
    <3>1. n < m /\ ~(n + 1 < m)
      BY <1>1, <2>8
    <3>2. Q[n] = P[n] /\ t[n + 1] = s[n + 1] + d
      BY <1>2, <2>4, <2>8, <3>1, Zenon
    <3>3. P[n] + (s[n + 1] + d) = (P[n] + s[n + 1]) + d
      BY <1>2, <2>3, <2>6, Zenon
    <3> QED
      BY <2>3, <3>1, <3>2, <3>3, Zenon
  <2>9. CASE n + 1 > m
    <3>1. ~(n < m) /\ ~(n + 1 < m) /\ n + 1 # m
      BY <1>1, <2>9
    <3>2. Q[n] = P[n] + d /\ t[n + 1] = s[n + 1]
      BY <2>4, <2>5, <3>1, Zenon
    <3>3. (P[n] + d) + s[n + 1] = (P[n] + s[n + 1]) + d
      BY <1>2, <2>3, <2>6, Zenon
    <3> QED
      BY <2>3, <3>1, <3>2, <3>3, Zenon
  <2>10. n + 1 < m \/ n + 1 = m \/ n + 1 > m
    BY <1>1
  <2> QED
    BY <2>7, <2>8, <2>9, <2>10
<1> HIDE DEF A
<1>5. \A n \in Nat : n \in A
  BY <1>3, <1>4, Induction
<1>6. Q[Len(s)] = P[Len(s)] + d /\ P[Len(s)] \in Int
  <2>1. Len(s) \in A /\ ~(Len(s) < m) /\ Len(s) <= Len(s)
    BY <1>1, <1>5
  <2>2. P[Len(s)] \in Int
    BY <1>1
  <2> QED
    BY <2>1, <2>2, Zenon DEF A
<1>7. Q[Len(s)] = P[Len(s)] - s[m] + t[m]
  BY <1>2, <1>6
<1> QED
  BY <1>7 DEF P, Q, Total

LEMMA TotalConstant ==
    ASSUME NEW s \in Seq(Int), NEW x \in Int, \A n \in 1..Len(s) : s[n] = x
    PROVE  Total(s) = Len(s) * x
<1> DEFINE P == PartialSums(s)
<1>1. /\ Len(s) \in Nat /\ P[0] = 0
      /\ \A n \in 1..Len(s) : P[n] = P[n - 1] + s[n]
  BY PartialSumsStep
<1> HIDE DEF P
<1> DEFINE A == {n \in Nat : n <= Len(s) => P[n] = n * x}
<1>2. 0 \in A
  BY <1>1
<1>3. ASSUME NEW n \in Nat, n \in A
      PROVE  n + 1 \in A
  <2>1. SUFFICES ASSUME n + 1 <= Len(s)
                 PROVE  P[n + 1] = (n + 1) * x
    OBVIOUS
  <2>2. n + 1 \in 1..Len(s) /\ (n + 1) - 1 = n /\ n <= Len(s)
    BY <1>1, <2>1
  <2>3. P[n + 1] = n * x + x
    BY <1>1, <1>3, <2>2
  <2>4. (n + 1) * x = n * x + x
    OBVIOUS
  <2> QED
    BY <2>3, <2>4
<1> HIDE DEF A
<1>4. \A n \in Nat : n \in A
  BY <1>2, <1>3, Induction
<1> QED
  BY <1>1, <1>4 DEF A, P, Total

\* Smaller numbers have a smaller sum.
LEMMA TotalMonotone ==
    ASSUME NEW s \in Seq(Int), NEW t \in Seq(Int), Len(s) = Len(t),
           \A n \in 1..Len(s) : s[n] <= t[n]
    PROVE  Total(s) <= Total(t)
<1> DEFINE P == PartialSums(s)
           Q == PartialSums(t)
<1>1. /\ Len(s) \in Nat /\ \A n \in 1..Len(s) : s[n] \in Int /\ t[n] \in Int
      /\ P \in [0..Len(s) -> Int] /\ P[0] = 0
      /\ \A n \in 1..Len(s) : P[n] = P[n - 1] + s[n]
  <2>1. Len(s) \in Nat /\ \A n \in 1..Len(s) : s[n] \in Int /\ t[n] \in Int
    OBVIOUS
  <2>2. /\ P \in [0..Len(s) -> Int] /\ P[0] = 0
        /\ \A n \in 1..Len(s) : P[n] = P[n - 1] + s[n]
    BY PartialSumsStep
  <2> QED
    BY <2>1, <2>2
<1>2. /\ Q \in [0..Len(s) -> Int] /\ Q[0] = 0
      /\ \A n \in 1..Len(s) : Q[n] = Q[n - 1] + t[n]
  <2>1. /\ Q \in [0..Len(t) -> Int] /\ Q[0] = 0
        /\ \A n \in 1..Len(t) : Q[n] = Q[n - 1] + t[n]
    BY PartialSumsStep
  <2> QED
    BY <2>1
<1> HIDE DEF P, Q
<1> DEFINE A == {n \in Nat : n <= Len(s) => P[n] <= Q[n]}
<1>3. 0 \in A
  BY <1>1, <1>2
<1>4. ASSUME NEW n \in Nat, n \in A
      PROVE  n + 1 \in A
  <2>1. SUFFICES ASSUME n + 1 <= Len(s)
                 PROVE  P[n + 1] <= Q[n + 1]
    OBVIOUS
  <2>2. n + 1 \in 1..Len(s) /\ (n + 1) - 1 = n /\ n \in 0..Len(s)
    BY <1>1, <2>1
  <2>3. P[n + 1] = P[n] + s[n + 1] /\ P[n] \in Int /\ s[n + 1] \in Int
    BY <1>1, <2>2, Zenon
  <2>4. Q[n + 1] = Q[n] + t[n + 1] /\ Q[n] \in Int /\ t[n + 1] \in Int
    BY <1>1, <1>2, <2>2, Zenon
  <2>5. P[n] <= Q[n] /\ s[n + 1] <= t[n + 1]
    BY <1>4, <2>2
  <2>6. \A w, x, y, z \in Int : w <= x /\ y <= z => w + y <= x + z
    OBVIOUS
  <2>7. P[n] + s[n + 1] <= Q[n] + t[n + 1]
    BY <2>3, <2>4, <2>5, <2>6, Zenon
  <2> QED
    BY <2>3, <2>4, <2>7, Zenon
<1> HIDE DEF A
<1>5. \A n \in Nat : n \in A
  BY <1>3, <1>4, Induction
<1>6. Len(s) \in A /\ Len(s) <= Len(s)
  BY <1>1, <1>5
<1>7. P[Len(s)] <= Q[Len(t)]
  BY <1>6, Zenon DEF A
<1> QED
  BY <1>7, Zenon DEF P, Q, Total

\* A number times all members is the number times the sum.
LEMMA TotalScaled ==
    ASSUME NEW s \in Seq(Int), NEW u \in Seq(Int), Len(u) = Len(s), NEW a \in Int,
           \A n \in 1..Len(s) : u[n] = a * s[n]
    PROVE  Total(u) = a * Total(s)
<1> DEFINE P == PartialSums(s)
           R == PartialSums(u)
<1>1. /\ Len(s) \in Nat /\ \A n \in 1..Len(s) : s[n] \in Int
      /\ P \in [0..Len(s) -> Int] /\ P[0] = 0
      /\ \A n \in 1..Len(s) : P[n] = P[n - 1] + s[n]
  <2>1. Len(s) \in Nat /\ \A n \in 1..Len(s) : s[n] \in Int
    OBVIOUS
  <2>2. /\ P \in [0..Len(s) -> Int] /\ P[0] = 0
        /\ \A n \in 1..Len(s) : P[n] = P[n - 1] + s[n]
    BY PartialSumsStep
  <2> QED
    BY <2>1, <2>2
<1>2. R[0] = 0 /\ \A n \in 1..Len(s) : R[n] = R[n - 1] + u[n]
  <2>1. R[0] = 0 /\ \A n \in 1..Len(u) : R[n] = R[n - 1] + u[n]
    BY PartialSumsStep
  <2> QED
    BY <2>1
<1> HIDE DEF P, R
<1> DEFINE A == {n \in Nat : n <= Len(s) => R[n] = a * P[n]}
<1>3. 0 \in A
  <2>1. a * 0 = 0
    OBVIOUS
  <2> QED
    BY <1>1, <1>2, <2>1
<1>4. ASSUME NEW n \in Nat, n \in A
      PROVE  n + 1 \in A
  <2>1. SUFFICES ASSUME n + 1 <= Len(s)
                 PROVE  R[n + 1] = a * P[n + 1]
    OBVIOUS
  <2>2. n + 1 \in 1..Len(s) /\ (n + 1) - 1 = n /\ n \in 0..Len(s) /\ n <= Len(s)
    BY <1>1, <2>1
  <2>3. P[n + 1] = P[n] + s[n + 1]
    BY <1>1, <2>2
  <2>4. P[n] \in Int /\ s[n + 1] \in Int
    BY <1>1, <2>2
  <2>5. R[n + 1] = R[n] + u[n + 1]
    BY <1>2, <2>2
  <2>6. R[n] = a * P[n] /\ u[n + 1] = a * s[n + 1]
    BY <1>4, <2>2
  <2>7. \A x, y \in Int : a * x + a * y = a * (x + y)
    OBVIOUS
  <2>8. R[n + 1] = a * P[n] + a * s[n + 1]
    BY <2>5, <2>6, Zenon
  <2>9. a * P[n] + a * s[n + 1] = a * (P[n] + s[n + 1])
    BY <2>4, <2>7, Zenon
  <2> QED
    BY <2>3, <2>8, <2>9, Zenon
<1> HIDE DEF A
<1>5. \A n \in Nat : n \in A
  BY <1>3, <1>4, Induction
<1>6. R[Len(s)] = a * P[Len(s)]
  BY <1>1, <1>5 DEF A
<1>7. Total(u) = R[Len(s)] /\ Total(s) = P[Len(s)]
  BY DEF P, R, Total
<1> QED
  BY <1>6, <1>7, Zenon

\* Of numbers that are not negative, a beginning has no greater sum than the whole.
LEMMA TotalOfBeginning ==
    ASSUME NEW s \in Seq(Int), \A n \in 1..Len(s) : 0 <= s[n]
    PROVE  \A m \in 0..Len(s) : PartialSums(s)[m] <= Total(s)
<1> DEFINE P == PartialSums(s)
<1>1. /\ Len(s) \in Nat /\ P \in [0..Len(s) -> Int] /\ \A n \in 1..Len(s) : s[n] \in Int
      /\ \A n \in 1..Len(s) : P[n] = P[n - 1] + s[n]
  BY PartialSumsStep
<1> HIDE DEF P
<1> DEFINE A == {n \in Nat : n <= Len(s) => \A m \in 0..n : P[m] <= P[n]}
<1>2. 0 \in A
  BY <1>1
<1>3. ASSUME NEW n \in Nat, n \in A
      PROVE  n + 1 \in A
  <2>1. SUFFICES ASSUME n + 1 <= Len(s), NEW m \in 0..(n + 1)
                 PROVE  P[m] <= P[n + 1]
    OBVIOUS
  <2>2. n + 1 \in 1..Len(s) /\ (n + 1) - 1 = n /\ n <= Len(s) /\ n \in 0..Len(s)
    BY <1>1, <2>1
  <2>3. /\ P[n + 1] = P[n] + s[n + 1] /\ P[n] \in Int /\ s[n + 1] \in Int
        /\ 0 <= s[n + 1] /\ P[n + 1] \in Int
    BY <1>1, <2>2
  <2>4. CASE m \in 0..n
    <3>1. P[m] <= P[n] /\ P[m] \in Int
      BY <1>1, <1>3, <2>2, <2>4
    <3> QED
      BY <2>3, <3>1
  <2>5. CASE m = n + 1
    BY <2>3, <2>5
  <2> QED
    BY <2>4, <2>5
<1> HIDE DEF A
<1>4. \A n \in Nat : n \in A
  BY <1>2, <1>3, Induction
<1> QED
  BY <1>1, <1>4 DEF A, P, Total

LEMMA TotalFront ==
    ASSUME NEW n \in Nat, NEW s \in Seq(Int), Len(s) = n + 1
    PROVE  LET front == [k \in 1..n |-> s[k]]
           IN  /\ front \in Seq(Int) /\ Len(front) = n /\ s[n + 1] \in Int
               /\ Total(s) = Total(front) + s[n + 1]
<1> DEFINE front == [k \in 1..n |-> s[k]]
           last == <<s[n + 1]>>
<1>1. front \in Seq(Int) /\ Len(front) = n /\ s[n + 1] \in Int
  OBVIOUS
<1>2. last \in Seq(Int) /\ Len(last) = 1 /\ last[1] = s[n + 1]
  BY <1>1
<1>3. front \o last = s
  <2>1. front \o last \in Seq(Int) /\ Len(front \o last) = Len(s)
    BY <1>1, <1>2
  <2>2. \A k \in 1..(n + 1) : (front \o last)[k] = s[k]
    <3> SUFFICES ASSUME NEW k \in 1..(n + 1) PROVE (front \o last)[k] = s[k]
      OBVIOUS
    <3>1. CASE k <= n
      BY <1>1, <1>2, <3>1
    <3>2. CASE k = n + 1
      BY <1>1, <1>2, <3>2
    <3> QED
      BY <3>1, <3>2
  <2> QED
    BY <2>1, <2>2
<1>4. Total(last) = s[n + 1]
  BY <1>1, TotalOne
<1> QED
  BY <1>1, <1>2, <1>3, <1>4, TotalConcat

\* The order of the numbers does not matter.
Permutes(f, n) ==
    /\ f \in [1..n -> 1..n]
    /\ \A j, k \in 1..n : f[j] = f[k] => j = k
    /\ \A m \in 1..n : \E k \in 1..n : f[k] = m

LEMMA TotalPermuted ==
    \A n \in Nat : \A s, t \in Seq(Int) : \A f :
        Len(s) = n /\ Len(t) = n /\ Permutes(f, n) /\ (\A k \in 1..n : t[k] = s[f[k]])
            => Total(t) = Total(s)
<1> DEFINE Same(n) ==
        \A s, t \in Seq(Int) : \A f :
            Len(s) = n /\ Len(t) = n /\ Permutes(f, n) /\ (\A k \in 1..n : t[k] = s[f[k]])
                => Total(t) = Total(s)
           A == {n \in Nat : Same(n)}
<1>1. 0 \in A
  <2>1. \A s, t \in Seq(Int) : Len(s) = 0 /\ Len(t) = 0 => s = t
    OBVIOUS
  <2> QED
    BY <2>1
<1>2. ASSUME NEW n \in Nat, n \in A
      PROVE  n + 1 \in A
  <2> SUFFICES ASSUME NEW s \in Seq(Int), NEW t \in Seq(Int), NEW f,
                      Len(s) = n + 1, Len(t) = n + 1, Permutes(f, n + 1),
                      \A k \in 1..(n + 1) : t[k] = s[f[k]]
               PROVE  Total(t) = Total(s)
    OBVIOUS
  <2>1. /\ f \in [1..(n + 1) -> 1..(n + 1)]
        /\ \A j, k \in 1..(n + 1) : f[j] = f[k] => j = k
        /\ \A m \in 1..(n + 1) : \E k \in 1..(n + 1) : f[k] = m
    BY DEF Permutes
  <2>2. PICK l \in 1..(n + 1) : f[l] = n + 1
    BY <2>1
  <2> DEFINE g == [k \in 1..n |-> IF k = l THEN f[n + 1] ELSE f[k]]
             u == [k \in 1..n |-> s[k]]
             v == [k \in 1..n |-> s[g[k]]]
             w == [k \in 1..n |-> t[k]]
  <2>3. Permutes(g, n)
    <3>1. ASSUME NEW k \in 1..(n + 1), k # l
          PROVE  f[k] \in 1..n
      <4>1. f[k] \in 1..(n + 1) /\ f[k] # f[l]
        BY <2>1, <3>1
      <4> QED
        BY <2>2, <4>1
    <3>2. \A k \in 1..n : k \in 1..(n + 1) /\ k # n + 1 /\ n + 1 \in 1..(n + 1)
      OBVIOUS
    <3>3. g \in [1..n -> 1..n]
      BY <3>1, <3>2
    <3>4. ASSUME NEW j \in 1..n, NEW k \in 1..n, g[j] = g[k]
          PROVE  j = k
      <4>1. CASE j = l /\ k # l
        <5>1. f[n + 1] = f[k]
          BY <3>4, <4>1
        <5> QED
          BY <2>1, <3>2, <5>1
      <4>2. CASE j # l /\ k = l
        <5>1. f[j] = f[n + 1]
          BY <3>4, <4>2
        <5> QED
          BY <2>1, <3>2, <5>1
      <4>3. CASE j # l /\ k # l
        <5>1. f[j] = f[k]
          BY <3>4, <4>3
        <5> QED
          BY <2>1, <3>2, <5>1
      <4> QED
        BY <4>1, <4>2, <4>3
    <3>5. ASSUME NEW m \in 1..n
          PROVE  \E k \in 1..n : g[k] = m
      <4>1. PICK k \in 1..(n + 1) : f[k] = m
        <5>1. m \in 1..(n + 1)
          OBVIOUS
        <5> QED
          BY <2>1, <5>1
      <4>2. k # l
        BY <2>2, <4>1
      <4>3. CASE k \in 1..n
        <5>1. g[k] = m
          BY <4>1, <4>2, <4>3
        <5> QED
          BY <4>3, <5>1
      <4>4. CASE k = n + 1
        <5>1. l \in 1..n
          BY <4>2, <4>4
        <5>2. g[l] = m
          BY <4>1, <4>4, <5>1
        <5> QED
          BY <5>1, <5>2
      <4> QED
        BY <4>3, <4>4
    <3> HIDE DEF g
    <3> QED
      BY <3>3, <3>4, <3>5 DEF Permutes
  <2>4. /\ u \in Seq(Int) /\ Len(u) = n /\ s[n + 1] \in Int
        /\ Total(s) = Total(u) + s[n + 1]
    BY TotalFront
  <2>5. /\ w \in Seq(Int) /\ Len(w) = n /\ t[n + 1] \in Int
        /\ Total(t) = Total(w) + t[n + 1]
    BY TotalFront
  <2>6. \A k \in 1..n : v[k] = u[g[k]] /\ v[k] \in Int
    <3>1. \A k \in 1..n : g[k] \in 1..n
      BY <2>3 DEF Permutes
    <3>2. \A k \in 1..n : v[k] = s[g[k]]
      OBVIOUS
    <3>3. \A m \in 1..n : u[m] = s[m] /\ s[m] \in Int
      OBVIOUS
    <3> HIDE DEF u, v, g
    <3> QED
      BY <3>1, <3>2, <3>3
  <2>7. v \in Seq(Int) /\ Len(v) = n
    <3>1. \A k \in 1..n : g[k] \in 1..n
      BY <2>3 DEF Permutes
    <3> HIDE DEF g
    <3> QED
      BY <3>1
  <2>8. \A k \in 1..n : v[k] = IF k = l THEN t[n + 1] ELSE t[k]
    <3> SUFFICES ASSUME NEW k \in 1..n PROVE v[k] = IF k = l THEN t[n + 1] ELSE t[k]
      OBVIOUS
    <3>1. v[k] = s[g[k]]
      OBVIOUS
    <3>2. g[k] = IF k = l THEN f[n + 1] ELSE f[k]
      OBVIOUS
    <3>3. t[n + 1] = s[f[n + 1]] /\ t[k] = s[f[k]]
      OBVIOUS
    <3> HIDE DEF v, g
    <3> QED
      BY <3>1, <3>2, <3>3
  <2>9. \A k \in 1..n : w[k] = t[k]
    OBVIOUS
  <2>10. t[l] = s[n + 1]
    BY <2>2
  <2> HIDE DEF u, v, w, g
  <2>11. Total(v) = Total(u)
    BY <1>2, <2>3, <2>4, <2>6, <2>7
  <2>12. Total(u) \in Int /\ Total(w) \in Int
    BY <2>4, <2>5, TotalType
  <2>13. CASE l = n + 1
    <3>1. \A k \in 1..n : v[k] = w[k]
      BY <2>8, <2>9, <2>13
    <3>2. v = w
      BY <2>5, <2>7, <3>1
    <3> QED
      BY <2>4, <2>5, <2>10, <2>11, <2>13, <3>2
  <2>14. CASE l \in 1..n
    <3>1. \A k \in 1..n : k # l => v[k] = w[k]
      BY <2>8, <2>9
    <3>2. Total(v) = Total(w) - w[l] + v[l]
      <4>1. /\ w \in Seq(Int) /\ v \in Seq(Int) /\ Len(w) = Len(v) /\ l \in 1..Len(w)
            /\ \A k \in 1..Len(w) : k # l => v[k] = w[k]
        BY <2>5, <2>7, <2>14, <3>1
      <4> QED
        BY <4>1, TotalChanged
    <3>3. w[l] = s[n + 1] /\ v[l] = t[n + 1]
      BY <2>8, <2>9, <2>10, <2>14
    <3> QED
      BY <2>4, <2>5, <2>11, <2>12, <3>2, <3>3
  <2> QED
    BY <2>13, <2>14
<1> HIDE DEF A
<1>3. \A n \in Nat : n \in A
  BY <1>1, <1>2, Induction
<1> QED
  BY <1>3 DEF A
===============================================================================
