----------------------------- MODULE MatMulProofs ------------------------------
(***************************************************************************)
(* Proofs about create_tasks, for every width of size_t, every list of     *)
(* slice sizes and every problem size.                                     *)
(***************************************************************************)
EXTENDS MatMulTasks, SumProofs

(***************************************************************************)
(* Numbers that wrap to the same have sums that do.                        *)
(***************************************************************************)
LEMMA WrapType == \A n \in Int : Wrap(n) \in 0..(SizeMod - 1)
  BY WidthsAssumption DEF Wrap

LEMMA DivMod ==
    \A n, m \in Int : m > 0 => n \div m \in Int /\ n = m * (n \div m) + (n % m)
<1>1. ASSUME NEW n \in Int, NEW m \in Int, m > 0
      PROVE  n \div m \in Int
  BY <1>1
<1>2. ASSUME NEW n \in Int, NEW m \in Int, m > 0
      PROVE  n = m * (n \div m) + (n % m)
  BY <1>2
<1> QED
  BY <1>1, <1>2

LEMMA Remainder ==
    \A m, q, r \in Int : m > 0 /\ r \in 0..(m - 1) => (m * q + r) % m = r
<1> SUFFICES ASSUME NEW m \in Nat \ {0}, NEW q \in Int, NEW r \in 0..(m - 1)
             PROVE  (m * q + r) % m = r
  OBVIOUS
<1> QED
  OBVIOUS

LEMMA WrapOne == \A x, y \in Int : Wrap(x + Wrap(y)) = Wrap(x + y)
<1> SUFFICES ASSUME NEW x \in Int, NEW y \in Int
             PROVE  Wrap(x + Wrap(y)) = Wrap(x + y)
  OBVIOUS
<1> DEFINE m == SizeMod
           q == y \div m
           z == x + Wrap(y)
           p == z \div m
<1>1. m \in Nat /\ m > 0
  BY WidthsAssumption
<1>2. Wrap(y) \in Int /\ q \in Int /\ y = m * q + Wrap(y)
  BY <1>1, DivMod, WrapType DEF Wrap
<1>3. z \in Int
  BY <1>2
<1>4. Wrap(z) \in 0..(m - 1) /\ p \in Int /\ z = m * p + Wrap(z)
  BY <1>1, <1>3, DivMod, WrapType DEF Wrap
<1> HIDE DEF m, q, p
<1>5. x + y = m * (q + p) + Wrap(z)
  <2>1. m * (q + p) = m * q + m * p
    BY <1>1, <1>2, <1>4
  <2>2. m * q \in Int /\ m * p \in Int /\ Wrap(z) \in Int
    BY <1>1, <1>2, <1>4
  <2> DEFINE i == m * q
             j == m * p
             k == Wrap(y)
             l == Wrap(z)
  <2>3. /\ i \in Int /\ j \in Int /\ k \in Int /\ l \in Int
        /\ y = i + k /\ x + k = j + l
    BY <1>2, <1>4, <2>2
  <2> HIDE DEF i, j, k, l
  <2>4. x + y = (i + j) + l
    BY <2>3
  <2> QED
    BY <2>1, <2>4 DEF i, j, l
<1>6. (m * (q + p) + Wrap(z)) % m = Wrap(z)
  <2> DEFINE w == q + p
             r == Wrap(z)
  <2>1. m \in Int /\ m > 0 /\ w \in Int /\ r \in 0..(m - 1) /\ r \in Int
    BY <1>1, <1>2, <1>4
  <2> HIDE DEF w, r
  <2>2. (m * w + r) % m = r
    BY <2>1, Remainder
  <2> QED
    BY <2>2 DEF w, r
<1> QED
  BY <1>5, <1>6 DEF Wrap, m

LEMMA WrapSum ==
    \A x, y \in Int : Wrap(Wrap(x) + Wrap(y)) = Wrap(x + y)
<1> SUFFICES ASSUME NEW x \in Int, NEW y \in Int
             PROVE  Wrap(Wrap(x) + Wrap(y)) = Wrap(x + y)
  OBVIOUS
<1>1. Wrap(x) \in Int /\ Wrap(y) \in Int
  BY WrapType
<1>2. Wrap(Wrap(x) + Wrap(y)) = Wrap(Wrap(x) + y)
  BY <1>1, WrapOne
<1>3. Wrap(x) + y = y + Wrap(x) /\ y + x = x + y
  BY <1>1
<1>4. Wrap(y + Wrap(x)) = Wrap(y + x)
  BY WrapOne
<1> QED
  BY <1>2, <1>3, <1>4

LEMMA WrapFits == \A n \in Nat : n < SizeMod => Wrap(n) = n
<1>1. \A n \in Nat, m \in Nat : n < m => n % m = n
  OBVIOUS
<1> QED
  BY <1>1, WidthsAssumption DEF Wrap

LEMMA TotalWraps ==
    ASSUME NEW s \in Seq(Int), NEW t \in Seq(Int), Len(s) = Len(t),
           \A n \in 1..Len(s) : Wrap(s[n]) = Wrap(t[n])
    PROVE  Wrap(Total(s)) = Wrap(Total(t))
<1> DEFINE P == PartialSums(s)
           Q == PartialSums(t)
<1>1. /\ Len(s) \in Nat /\ \A n \in 1..Len(s) : s[n] \in Int /\ t[n] \in Int
      /\ P \in [0..Len(s) -> Int] /\ Q \in [0..Len(s) -> Int]
      /\ P[0] = 0 /\ \A n \in 1..Len(s) : P[n] = P[n - 1] + s[n]
      /\ Q[0] = 0 /\ \A n \in 1..Len(s) : Q[n] = Q[n - 1] + t[n]
  BY PartialSumsStep
<1> HIDE DEF P, Q
<1> DEFINE A == {n \in Nat : n <= Len(s) => Wrap(P[n]) = Wrap(Q[n])}
<1>2. 0 \in A
  BY <1>1
<1>3. ASSUME NEW n \in Nat, n \in A
      PROVE  n + 1 \in A
  <2>1. SUFFICES ASSUME n + 1 <= Len(s)
                 PROVE  Wrap(P[n + 1]) = Wrap(Q[n + 1])
    OBVIOUS
  <2>2. n + 1 \in 1..Len(s) /\ (n + 1) - 1 = n /\ n <= Len(s) /\ n \in 0..Len(s)
    BY <1>1, <2>1
  <2>3. P[n + 1] = P[n] + s[n + 1] /\ Q[n + 1] = Q[n] + t[n + 1]
    BY <1>1, <2>2
  <2>4. P[n] \in Int /\ Q[n] \in Int /\ s[n + 1] \in Int /\ t[n + 1] \in Int
    BY <1>1, <2>2
  <2>5. Wrap(P[n]) = Wrap(Q[n]) /\ Wrap(s[n + 1]) = Wrap(t[n + 1])
    BY <1>3, <2>2
  <2>6. /\ Wrap(P[n] + s[n + 1]) = Wrap(Wrap(P[n]) + Wrap(s[n + 1]))
        /\ Wrap(Q[n] + t[n + 1]) = Wrap(Wrap(Q[n]) + Wrap(t[n + 1]))
    BY <2>4, WrapSum
  <2> QED
    BY <2>3, <2>5, <2>6
<1> HIDE DEF A
<1>4. \A n \in Nat : n \in A
  BY <1>2, <1>3, Induction
<1>5. Wrap(P[Len(s)]) = Wrap(Q[Len(s)])
  BY <1>1, <1>4 DEF A
<1> QED
  BY <1>5 DEF Total, P, Q
-------------------------------------------------------------------------------
(***************************************************************************)
(* Flattening a list of lists.                                             *)
(***************************************************************************)
\* The lists put together so far, as FlattenSeq has them.
Flattened(seqs) ==
    LET flatten[i \in 1..Len(seqs)] ==
          IF i = 1 THEN seqs[i] ELSE flatten[i - 1] \o seqs[i]
    IN  flatten

LEMMA FlattenedStep ==
    ASSUME NEW E, NEW seqs \in Seq(Seq(E)), Len(seqs) > 0
    PROVE  /\ Flattened(seqs) \in [1..Len(seqs) -> Seq(E)]
           /\ Flattened(seqs)[1] = seqs[1]
           /\ \A n \in 2..Len(seqs) : Flattened(seqs)[n] = Flattened(seqs)[n - 1] \o seqs[n]
           /\ S!FlattenSeq(seqs) = Flattened(seqs)[Len(seqs)]
<1> DEFINE N == Len(seqs)
<1>1. N \in Nat /\ N > 0 /\ \A n \in 1..N : seqs[n] \in Seq(E)
  OBVIOUS
<1>2. \E f : f = [n \in 1..N |-> IF n = 1 THEN seqs[n] ELSE f[n - 1] \o seqs[n]]
  <2> DEFINE g == [k \in Nat \ {0} |->
                      [v \in Seq(E) |-> IF k \in 1..N THEN v \o seqs[k] ELSE v]]
             V == Seq(E)
             nothing == <<>>
  <2>1. g \in [Nat \ {0} -> [V -> V]] /\ nothing \in V
    BY <1>1
  <2>2. \A k \in 1..N, v \in V : g[k][v] = v \o seqs[k]
    <3> SUFFICES ASSUME NEW k \in 1..N, NEW v \in V
                 PROVE  g[k][v] = v \o seqs[k]
      OBVIOUS
    <3>1. k \in Nat \ {0}
      BY <1>1
    <3>2. g[k] = [u \in Seq(E) |-> IF k \in 1..N THEN u \o seqs[k] ELSE u]
      BY <3>1, Zenon
    <3> QED
      BY <3>2, Zenon
  <2> HIDE DEF g, V, nothing, N
  <2>3. \A n \in Nat : \E f \in [0..n -> V] : Carries(f, n, nothing, g)
    BY <2>1, Recursion
  <2>4. PICK f \in [0..N -> V] : f[0] = nothing /\ \A k \in 1..N : f[k] = g[k][f[k - 1]]
    BY <1>1, <2>3 DEF Carries
  <2>5. ASSUME NEW k \in 1..N
        PROVE  f[k] = f[k - 1] \o seqs[k] /\ f[k] \in V
    <3>1. k - 1 \in 0..N /\ k \in 0..N
      BY <1>1
    <3> QED
      BY <2>2, <2>4, <3>1
  <2>6. f[1] = seqs[1]
    <3>1. 1 \in 1..N /\ 1 - 1 = 0 /\ seqs[1] \in Seq(E)
      BY <1>1
    <3>2. f[1] = <<>> \o seqs[1]
      BY <2>4, <2>5, <3>1 DEF nothing
    <3> QED
      BY <3>1, <3>2
  <2> DEFINE h == [n \in 1..N |-> f[n]]
  <2>7. \A n \in 1..N : n # 1 => n - 1 \in 1..N
    BY <1>1
  <2>8. h = [n \in 1..N |-> IF n = 1 THEN seqs[n] ELSE h[n - 1] \o seqs[n]]
    BY <2>5, <2>6, <2>7
  <2> HIDE DEF h
  <2> QED
    BY <2>8
<1> DEFINE F == Flattened(seqs)
<1>3. F = [n \in 1..N |-> IF n = 1 THEN seqs[n] ELSE F[n - 1] \o seqs[n]]
  BY <1>2 DEF Flattened
<1>4. S!FlattenSeq(seqs) = F[N]
  <2>1. Len(seqs) # 0
    OBVIOUS
  <2> QED
    BY <2>1, Zenon DEF S!FlattenSeq, Flattened
<1> HIDE DEF F, N
<1>5. F[1] = seqs[1] /\ \A n \in 2..N : F[n] = F[n - 1] \o seqs[n]
  <2>1. 1 \in 1..N /\ \A n \in 2..N : n \in 1..N /\ n # 1
    BY <1>1
  <2>2. \A n \in 1..N : F[n] = IF n = 1 THEN seqs[n] ELSE F[n - 1] \o seqs[n]
    BY <1>3
  <2> QED
    BY <2>1, <2>2
<1> DEFINE A == {n \in Nat : n < N => F[n + 1] \in Seq(E)}
<1>6. 0 \in A
  BY <1>1, <1>5
<1>7. ASSUME NEW n \in Nat, n \in A
      PROVE  n + 1 \in A
  <2>1. SUFFICES ASSUME n + 1 < N
                 PROVE  F[(n + 1) + 1] \in Seq(E)
    OBVIOUS
  <2>2. /\ (n + 1) + 1 \in 2..N /\ (n + 1) + 1 \in 1..N
        /\ ((n + 1) + 1) - 1 = n + 1 /\ n < N
    BY <1>1, <2>1
  <2>3. F[(n + 1) + 1] = F[n + 1] \o seqs[(n + 1) + 1]
    BY <1>5, <2>2
  <2> QED
    BY <1>1, <1>7, <2>2, <2>3
<1> HIDE DEF A
<1>8. \A n \in Nat : n \in A
  BY <1>6, <1>7, Induction
<1>9. \A n \in 1..N : F[n] \in Seq(E)
  <2> SUFFICES ASSUME NEW n \in 1..N
               PROVE  F[n] \in Seq(E)
    OBVIOUS
  <2>1. n - 1 \in Nat /\ n - 1 < N /\ (n - 1) + 1 = n
    BY <1>1
  <2> QED
    BY <1>8, <2>1 DEF A
<1>10. F \in [1..N -> Seq(E)]
  BY <1>3, <1>9
<1> QED
  BY <1>4, <1>5, <1>10 DEF F, N

\* What W says of the elements of a list.
Weights(s, W) == [k \in DOMAIN s |-> W[s[k]]]

LEMMA ListWeights ==
    ASSUME NEW s, NEW W, Len(s) \in Nat, DOMAIN s = 1..Len(s),
           \A k \in 1..Len(s) : W[s[k]] \in Int
    PROVE  /\ Weights(s, W) \in Seq(Int) /\ Len(Weights(s, W)) = Len(s)
           /\ \A k \in 1..Len(s) : Weights(s, W)[k] = W[s[k]]
<1>1. Weights(s, W) = [k \in 1..Len(s) |-> W[s[k]]]
  BY DEF Weights
<1>2. Weights(s, W) \in [1..Len(s) -> Int]
  BY <1>1
<1> QED
  BY <1>1, <1>2

LEMMA WeightsType ==
    ASSUME NEW E, NEW W \in [E -> Int], NEW s \in Seq(E)
    PROVE  /\ Weights(s, W) \in Seq(Int) /\ Len(Weights(s, W)) = Len(s)
           /\ \A k \in 1..Len(s) : Weights(s, W)[k] = W[s[k]]
<1>1. Len(s) \in Nat /\ DOMAIN s = 1..Len(s) /\ \A k \in 1..Len(s) : s[k] \in E
  BY LengthOf
<1>2. \A k \in 1..Len(s) : W[s[k]] \in Int
  BY <1>1
<1> QED
  BY <1>1, <1>2, ListWeights, Zenon

LEMMA WeightsConcat ==
    ASSUME NEW E, NEW W \in [E -> Int], NEW s \in Seq(E), NEW t \in Seq(E)
    PROVE  Weights(s \o t, W) = Weights(s, W) \o Weights(t, W)
<1> DEFINE u == s \o t
           wu == Weights(u, W)
           ws == Weights(s, W)
           wt == Weights(t, W)
           v == ws \o wt
<1>1. Len(s) \in Nat /\ Len(t) \in Nat
  OBVIOUS
<1>2. /\ u \in Seq(E) /\ Len(u) = Len(s) + Len(t)
      /\ \A k \in 1..Len(s) : u[k] = s[k]
      /\ \A k \in 1..Len(t) : u[Len(s) + k] = t[k]
  OBVIOUS
<1> HIDE DEF u
<1>3. /\ wu \in Seq(Int) /\ Len(wu) = Len(s) + Len(t)
      /\ \A k \in 1..(Len(s) + Len(t)) : wu[k] = W[u[k]]
  <2>1. wu \in Seq(Int) /\ Len(wu) = Len(u)
    BY <1>2, WeightsType
  <2>2. \A k \in 1..Len(u) : wu[k] = W[u[k]]
    <3>1. u \in Seq(E)
      BY <1>2
    <3> QED
      BY <3>1, WeightsType
  <2> QED
    BY <1>2, <2>1, <2>2
<1>4. /\ ws \in Seq(Int) /\ Len(ws) = Len(s) /\ \A k \in 1..Len(s) : ws[k] = W[s[k]]
      /\ wt \in Seq(Int) /\ Len(wt) = Len(t) /\ \A k \in 1..Len(t) : wt[k] = W[t[k]]
  <2>1. ws \in Seq(Int) /\ Len(ws) = Len(s) /\ \A k \in 1..Len(s) : ws[k] = W[s[k]]
    <3>1. Len(s) \in Nat /\ DOMAIN s = 1..Len(s) /\ \A k \in 1..Len(s) : W[s[k]] \in Int
      BY LengthOf
    <3> QED
      BY <3>1, ListWeights, Zenon
  <2>2. wt \in Seq(Int) /\ Len(wt) = Len(t) /\ \A k \in 1..Len(t) : wt[k] = W[t[k]]
    <3>1. Len(t) \in Nat /\ DOMAIN t = 1..Len(t) /\ \A k \in 1..Len(t) : W[t[k]] \in Int
      BY LengthOf
    <3> QED
      BY <3>1, ListWeights, Zenon
  <2> QED
    BY <2>1, <2>2, Zenon
<1> HIDE DEF wu, ws, wt
<1>5. /\ v \in Seq(Int) /\ Len(v) = Len(s) + Len(t)
      /\ \A k \in 1..Len(s) : v[k] = ws[k]
      /\ \A k \in 1..Len(t) : v[Len(s) + k] = wt[k]
  <2>1. /\ v \in Seq(Int) /\ Len(v) = Len(ws) + Len(wt)
        /\ \A k \in 1..Len(ws) : v[k] = ws[k]
        /\ \A k \in 1..Len(wt) : v[Len(ws) + k] = wt[k]
    <3>1. ws \in Seq(Int) /\ wt \in Seq(Int)
      BY <1>4
    <3> QED
      BY <3>1
  <2> QED
    BY <1>1, <1>4, <2>1
<1> HIDE DEF v
<1>6. ASSUME NEW k \in 1..(Len(s) + Len(t))
      PROVE  wu[k] = v[k]
  <2>1. CASE k \in 1..Len(s)
    <3>1. wu[k] = W[u[k]] /\ u[k] = s[k] /\ v[k] = ws[k] /\ ws[k] = W[s[k]]
      BY <1>2, <1>3, <1>4, <1>5, <2>1
    <3> QED
      BY <3>1
  <2>2. CASE k \notin 1..Len(s)
    <3>1. PICK n \in 1..Len(t) : k = Len(s) + n
      <4>1. k - Len(s) \in 1..Len(t) /\ k = Len(s) + (k - Len(s))
        BY <1>1, <2>2
      <4> QED
        BY <4>1
    <3>2. wu[k] = W[u[k]] /\ u[k] = t[n] /\ v[k] = wt[n] /\ wt[n] = W[t[n]]
      BY <1>2, <1>3, <1>4, <1>5, <3>1
    <3> QED
      BY <3>2
  <2> QED
    BY <2>1, <2>2
<1>7. wu = v
  <2>1. wu \in [1..(Len(s) + Len(t)) -> Int] /\ v \in [1..(Len(s) + Len(t)) -> Int]
    BY <1>3, <1>5
  <2> QED
    BY <1>6, <2>1
<1> QED
  BY <1>7 DEF wu, ws, wt, u, v

LEMMA FlattenType ==
    ASSUME NEW E, NEW seqs \in Seq(Seq(E))
    PROVE  S!FlattenSeq(seqs) \in Seq(E)
<1>1. CASE Len(seqs) > 0
  <2>1. Len(seqs) \in 1..Len(seqs)
    BY <1>1
  <2>2. /\ Flattened(seqs) \in [1..Len(seqs) -> Seq(E)]
        /\ S!FlattenSeq(seqs) = Flattened(seqs)[Len(seqs)]
    BY <1>1, FlattenedStep
  <2> QED
    BY <2>1, <2>2
<1>2. CASE Len(seqs) = 0
  <2>1. S!FlattenSeq(seqs) = seqs
    BY <1>2, Zenon DEF S!FlattenSeq
  <2> QED
    BY <1>2, <2>1
<1> QED
  BY <1>1, <1>2, LengthOf

\* A sum over the flattened list is the sum of the sums over its parts.
LEMMA FlattenTotal ==
    ASSUME NEW E, NEW W \in [E -> Int], NEW seqs \in Seq(Seq(E))
    PROVE  Total(Weights(S!FlattenSeq(seqs), W))
             = Total([k \in DOMAIN seqs |-> Total(Weights(seqs[k], W))])
<1> DEFINE N == Len(seqs)
           sums == [k \in DOMAIN seqs |-> Total(Weights(seqs[k], W))]
           F == Flattened(seqs)
           P == PartialSums(sums)
           T(s) == Total(Weights(s, W))
<1>1. N \in Nat /\ DOMAIN seqs = 1..N /\ \A k \in 1..N : seqs[k] \in Seq(E)
  BY LengthOf
<1>2. \A s \in Seq(E) : T(s) \in Int
  BY WeightsType, TotalType
<1>3. \A s, t \in Seq(E) : T(s \o t) = T(s) + T(t)
  <2> SUFFICES ASSUME NEW s \in Seq(E), NEW t \in Seq(E)
               PROVE  T(s \o t) = T(s) + T(t)
    OBVIOUS
  <2>1. Weights(s \o t, W) = Weights(s, W) \o Weights(t, W)
    BY WeightsConcat
  <2>2. Weights(s, W) \in Seq(Int) /\ Weights(t, W) \in Seq(Int)
    BY WeightsType
  <2> QED
    BY <2>1, <2>2, TotalConcat
<1>4. sums \in [1..N -> Int] /\ \A k \in 1..N : sums[k] = T(seqs[k])
  BY <1>1, <1>2
<1>5. sums \in Seq(Int) /\ Len(sums) = N
  BY <1>1, <1>4
<1> HIDE DEF sums
<1>6. P \in [0..N -> Int] /\ P[0] = 0 /\ \A n \in 1..N : P[n] = P[n - 1] + sums[n]
  BY <1>5, PartialSumsStep
<1>7. CASE N > 0
  <2>1. /\ F \in [1..N -> Seq(E)] /\ F[1] = seqs[1]
        /\ \A n \in 2..N : F[n] = F[n - 1] \o seqs[n]
        /\ S!FlattenSeq(seqs) = F[N]
    BY <1>7, FlattenedStep
  <2> HIDE DEF F, N, P, T
  <2> DEFINE A == {n \in Nat : n < N => T(F[n + 1]) = P[n + 1]}
  <2>2. 0 \in A
    <3>1. 1 \in 1..N /\ 1 - 1 = 0
      BY <1>1, <1>7
    <3>2. P[1] = 0 + sums[1] /\ sums[1] = T(seqs[1]) /\ T(seqs[1]) \in Int
      BY <1>1, <1>2, <1>4, <1>6, <3>1
    <3> QED
      BY <2>1, <3>2
  <2>3. ASSUME NEW n \in Nat, n \in A
        PROVE  n + 1 \in A
    <3>1. SUFFICES ASSUME n + 1 < N
                   PROVE  T(F[(n + 1) + 1]) = P[(n + 1) + 1]
      OBVIOUS
    <3>2. /\ (n + 1) + 1 \in 2..N /\ (n + 1) + 1 \in 1..N /\ n + 1 \in 1..N
          /\ ((n + 1) + 1) - 1 = n + 1 /\ n < N
      BY <1>1, <3>1
    <3>3. F[(n + 1) + 1] = F[n + 1] \o seqs[(n + 1) + 1]
      BY <2>1, <3>2
    <3>4. F[n + 1] \in Seq(E) /\ seqs[(n + 1) + 1] \in Seq(E)
      BY <1>1, <2>1, <3>2
    <3>5. T(F[(n + 1) + 1]) = T(F[n + 1]) + T(seqs[(n + 1) + 1])
      BY <1>3, <3>3, <3>4
    <3>6. P[(n + 1) + 1] = P[n + 1] + T(seqs[(n + 1) + 1])
      BY <1>4, <1>6, <3>2
    <3>7. T(F[n + 1]) = P[n + 1]
      BY <2>3, <3>2
    <3> QED
      BY <3>5, <3>6, <3>7
  <2> HIDE DEF A
  <2>4. \A n \in Nat : n \in A
    BY <2>2, <2>3, Induction
  <2>5. N - 1 \in Nat /\ N - 1 < N /\ (N - 1) + 1 = N
    BY <1>1, <1>7
  <2>6. T(F[N]) = P[N]
    BY <2>4, <2>5 DEF A
  <2> QED
    BY <1>5, <2>1, <2>6 DEF T, P, F, N, sums, Total
<1>8. CASE N = 0
  <2>1. S!FlattenSeq(seqs) = seqs
    BY <1>8, Zenon DEF S!FlattenSeq
  <2>2. seqs = <<>>
    BY <1>8
  <2>3. Weights(seqs, W) = <<>> /\ sums = <<>>
    BY <1>5, <1>8, <2>2 DEF Weights
  <2> QED
    BY <2>1, <2>3 DEF sums
<1> QED
  BY <1>1, <1>7, <1>8

LEMMA TotalNatural ==
    ASSUME NEW s \in Seq(Nat)
    PROVE  Total(s) \in Nat
<1> DEFINE P == PartialSums(s)
<1>1. /\ s \in Seq(Int) /\ Len(s) \in Nat /\ \A n \in 1..Len(s) : s[n] \in Nat
  OBVIOUS
<1>2. P[0] = 0 /\ \A n \in 1..Len(s) : P[n] = P[n - 1] + s[n]
  BY <1>1, PartialSumsStep
<1> HIDE DEF P
<1> DEFINE A == {n \in Nat : n <= Len(s) => P[n] \in Nat}
<1>3. 0 \in A
  BY <1>2
<1>4. ASSUME NEW n \in Nat, n \in A
      PROVE  n + 1 \in A
  <2>1. n + 1 <= Len(s) => n + 1 \in 1..Len(s) /\ (n + 1) - 1 = n /\ n <= Len(s)
    BY <1>1
  <2>2. n + 1 <= Len(s) => P[n + 1] = P[n] + s[n + 1] /\ s[n + 1] \in Nat
    BY <1>1, <1>2, <2>1
  <2> QED
    BY <1>4, <2>1, <2>2
<1> HIDE DEF A
<1>5. \A n \in Nat : n \in A
  BY <1>3, <1>4, Induction
<1>6. P[Len(s)] \in Nat
  BY <1>1, <1>5 DEF A
<1> QED
  BY <1>6 DEF Total, P
-------------------------------------------------------------------------------
\* The blocks of one slice size.
RunType == [count : Nat, task : [complexity : Int, bits_to_transfer : Nat, userid : Nat]]

LEMMA SizeType == Size \subseteq Nat /\ \A n \in Int : Wrap(n) \in Size /\ Wrap(n) \in Nat
  BY WrapType, WidthsAssumption DEF Size

LEMMA NFullPartial ==
    \A p, s \in Nat : s > 0 =>
        /\ NFull(p, s) \in Nat /\ Partial(p, s) \in 0..(s - 1)
        /\ p = NFull(p, s) * s + Partial(p, s)
<1> SUFFICES ASSUME NEW p \in Nat, NEW s \in Nat, s > 0
             PROVE  /\ NFull(p, s) \in Nat /\ Partial(p, s) \in 0..(s - 1)
                    /\ p = NFull(p, s) * s + Partial(p, s)
  OBVIOUS
<1>1. p \div s \in Nat
  OBVIOUS
<1>2. p % s \in 0..(s - 1)
  OBVIOUS
<1>3. p = (p \div s) * s + (p % s)
  OBVIOUS
<1> QED
  BY <1>1, <1>2, <1>3 DEF NFull, Partial

LEMMA ComplexityType ==
    \A m, n, kk \in Nat :
        /\ Complexity(m, n, kk).flops \in Int
        /\ Complexity(m, n, kk).numbers \in Nat
<1> SUFFICES ASSUME NEW m \in Nat, NEW n \in Nat, NEW kk \in Nat
             PROVE  /\ Complexity(m, n, kk).flops \in Int
                    /\ Complexity(m, n, kk).numbers \in Nat
  OBVIOUS
<1>1. m * kk \in Int /\ m * n + n * kk + m * kk \in Int
  OBVIOUS
<1>2. Wrap(m * kk) \in Nat /\ Wrap(m * n + n * kk + m * kk) \in Nat
  BY <1>1, SizeType
<1>3. Wrap(m * kk) * (2 * n - 1) \in Int
  BY <1>2
<1> QED
  BY <1>2, <1>3 DEF Complexity

LEMMA RunIsRun ==
    ASSUME NEW c \in [flops : Int, numbers : Nat], NEW n \in Nat, NEW user \in Nat
    PROVE  Run(n, c, user) \in RunType
<1>1. BitsPerNumber * c.numbers \in Int
  BY WidthsAssumption
<1>2. Wrap(n) \in Nat /\ Wrap(BitsPerNumber * c.numbers) \in Nat
  BY <1>1, SizeType
<1> QED
  BY <1>2 DEF Run, Create, RunType

\* The runs of full blocks, of edge blocks and of the corner, and whether the last
\* two are there.
FullRun(p, s, user) == Run(NFull(p, s) * NFull(p, s), Complexity(s, p, s), user)
EdgeRun(p, s, user) == Run(2 * NFull(p, s), Complexity(Partial(p, s), p, s), user)
CornerRun(p, s, user) == Run(1, Complexity(Partial(p, s), p, Partial(p, s)), user)
HasEdge(p, s) == Partial(p, s) # 0 /\ Complexity(Partial(p, s), p, s).flops # 0

LEMMA BlocksTotal ==
    ASSUME NEW p \in Nat, NEW s \in Nat, s > 0, NEW user \in Nat, NEW W \in [RunType -> Int]
    PROVE  /\ FullRun(p, s, user) \in RunType
           /\ EdgeRun(p, s, user) \in RunType
           /\ CornerRun(p, s, user) \in RunType
           /\ Blocks(p, s, user) \in Seq(RunType)
           /\ Total(Weights(Blocks(p, s, user), W))
                = W[FullRun(p, s, user)]
                  + (IF HasEdge(p, s) THEN W[EdgeRun(p, s, user)] + W[CornerRun(p, s, user)]
                     ELSE 0)
<1> DEFINE a == FullRun(p, s, user)
           b == EdgeRun(p, s, user)
           c == CornerRun(p, s, user)
<1>1. NFull(p, s) \in Nat /\ Partial(p, s) \in Nat
  BY NFullPartial
<1>2. NFull(p, s) * NFull(p, s) \in Nat /\ 2 * NFull(p, s) \in Nat /\ 1 \in Nat
  BY <1>1
<1>3. \A x, y, z \in Nat : Complexity(x, y, z) \in [flops : Int, numbers : Nat]
  BY ComplexityType DEF Complexity
<1>4. a \in RunType /\ b \in RunType /\ c \in RunType
  BY <1>1, <1>2, <1>3, RunIsRun DEF FullRun, EdgeRun, CornerRun
<1>5. Blocks(p, s, user) = <<a>> \o (IF HasEdge(p, s) THEN <<b, c>> ELSE <<>>)
  BY DEF Blocks, HasEdge, FullRun, EdgeRun, CornerRun
<1> HIDE DEF a, b, c
<1>6. W[a] \in Int /\ W[b] \in Int /\ W[c] \in Int
  BY <1>4
<1>7. Weights(<<a>>, W) = <<W[a]>>
  BY DEF Weights
<1>8. Weights(<<b, c>>, W) = <<W[b]>> \o <<W[c]>>
  BY DEF Weights
<1> DEFINE Goal == /\ Blocks(p, s, user) \in Seq(RunType)
                   /\ Total(Weights(Blocks(p, s, user), W))
                        = W[a] + (IF HasEdge(p, s) THEN W[b] + W[c] ELSE 0)
<1>9. ASSUME HasEdge(p, s)
      PROVE  Goal
  <2>1. Weights(<<a>> \o <<b, c>>, W) = <<W[a]>> \o (<<W[b]>> \o <<W[c]>>)
    <3> DEFINE x == <<a>>
               y == <<b, c>>
    <3>1. x \in Seq(RunType) /\ y \in Seq(RunType)
      BY <1>4
    <3>2. Weights(x, W) = <<W[a]>> /\ Weights(y, W) = <<W[b]>> \o <<W[c]>>
      BY <1>7, <1>8
    <3> HIDE DEF x, y
    <3>3. Weights(x \o y, W) = Weights(x, W) \o Weights(y, W)
      BY <3>1, WeightsConcat
    <3> QED
      BY <3>2, <3>3 DEF x, y
  <2>2. <<W[a]>> \in Seq(Int) /\ <<W[b]>> \in Seq(Int) /\ <<W[c]>> \in Seq(Int)
    BY <1>6
  <2>3. <<W[b]>> \o <<W[c]>> \in Seq(Int)
    BY <2>2
  <2>4. Total(<<W[b]>> \o <<W[c]>>) = W[b] + W[c]
    <3>1. Total(<<W[b]>>) = W[b] /\ Total(<<W[c]>>) = W[c]
      BY <1>6, TotalOne
    <3> QED
      BY <2>2, <3>1, TotalConcat, Zenon
  <2>5. Total(<<W[a]>> \o (<<W[b]>> \o <<W[c]>>)) = W[a] + (W[b] + W[c])
    <3>1. Total(<<W[a]>>) = W[a]
      BY <1>6, TotalOne
    <3> QED
      BY <2>2, <2>3, <2>4, <3>1, TotalConcat, Zenon
  <2>6. Blocks(p, s, user) = <<a>> \o <<b, c>> /\ <<a>> \o <<b, c>> \in Seq(RunType)
    BY <1>4, <1>5, <1>9
  <2>7. Blocks(p, s, user) \in Seq(RunType)
    BY <2>6
  <2>8. Total(Weights(Blocks(p, s, user), W)) = W[a] + (W[b] + W[c])
    BY <2>1, <2>5, <2>6
  <2> QED
    BY <1>9, <2>7, <2>8
<1>10. ASSUME ~(HasEdge(p, s))
       PROVE  Goal
  <2>1. Blocks(p, s, user) = <<a>> /\ <<a>> \in Seq(RunType)
    <3>1. <<a>> \in Seq(RunType)
      BY <1>4
    <3>2. Blocks(p, s, user) = <<a>> \o <<>>
      BY <1>5, <1>10
    <3>3. \A x \in Seq(RunType) : x \o <<>> = x
      OBVIOUS
    <3> QED
      BY <3>1, <3>2, <3>3
  <2>2. Total(<<W[a]>>) = W[a]
    BY <1>6, TotalOne
  <2> QED
    BY <1>6, <1>7, <1>10, <2>1, <2>2
<1>11. Goal
  BY <1>9, <1>10
<1> QED
  BY <1>4, <1>11, Zenon DEF a, b, c

LEMMA Monotone == \A a, b, c \in Nat : a <= b => a * c <= b * c /\ c * a <= c * b
<1> SUFFICES ASSUME NEW a \in Nat, NEW b \in Nat, NEW c \in Nat, a <= b
             PROVE  a * c <= b * c /\ c * a <= c * b
  OBVIOUS
<1>1. PICK d \in Nat : b = a + d
  <2>1. b - a \in Nat /\ b = a + (b - a)
    OBVIOUS
  <2> QED
    BY <2>1
<1>2. b * c = a * c + d * c /\ c * b = c * a + c * d
  BY <1>1
<1>3. d * c \in Nat /\ c * d \in Nat /\ a * c \in Nat /\ c * a \in Nat
  OBVIOUS
<1> QED
  BY <1>2, <1>3

\* Where Fits holds, no operation on a size_t wraps.
LEMMA NothingWraps ==
    ASSUME NEW p \in Nat, NEW s \in Nat, s > 0, Fits(p, s)
    PROVE  LET n == NFull(p, s)
               r == Partial(p, s)
               Numbers(x, y) == x * p + p * y + x * y
           IN  /\ Wrap(n * n) = n * n /\ Wrap(2 * n) = 2 * n /\ Wrap(1) = 1
               /\ \A x, y \in {r, s} :
                      /\ Wrap(x * y) = x * y
                      /\ Wrap(Numbers(x, y)) = Numbers(x, y)
                      /\ Wrap(BitsPerNumber * Numbers(x, y)) = BitsPerNumber * Numbers(x, y)
<1> DEFINE n == NFull(p, s)
           r == Partial(p, s)
           Numbers(x, y) == x * p + p * y + x * y
           B == BitsPerNumber
<1>1. n \in Nat /\ r \in Nat /\ r <= s /\ B \in Nat /\ 1 <= B
  BY NFullPartial, WidthsAssumption
<1>2. (n + 1) * (n + 1) < SizeMod /\ B * (2 * p * s + s * s) < SizeMod /\ SizeMod \in Nat
  BY WidthsAssumption DEF Fits
<1> HIDE DEF n, r, B
<1>3. Wrap(n * n) = n * n /\ Wrap(2 * n) = 2 * n /\ Wrap(1) = 1
  <2>1. (n + 1) * (n + 1) = n * n + 2 * n + 1 /\ n * n \in Nat /\ 2 * n \in Nat
    BY <1>1
  <2>2. n = 0 \/ (n * n < SizeMod /\ 2 * n < SizeMod /\ 1 < SizeMod)
    BY <1>1, <1>2, <2>1
  <2>3. n = 0 => n * n < SizeMod /\ 2 * n < SizeMod
    BY <1>1, <1>2
  <2>4. n = 0 => 1 < SizeMod
    BY <1>1, <1>2
  <2> QED
    BY <1>1, <2>1, <2>2, <2>3, <2>4, WrapFits
<1>4. ASSUME NEW x \in {r, s}, NEW y \in {r, s}
      PROVE  /\ Wrap(x * y) = x * y
             /\ Wrap(Numbers(x, y)) = Numbers(x, y)
             /\ Wrap(B * Numbers(x, y)) = B * Numbers(x, y)
  <2>1. x \in Nat /\ y \in Nat /\ x <= s /\ y <= s
    BY <1>1
  <2>2. x * y \in Nat /\ x * p \in Nat /\ p * y \in Nat
    BY <2>1
  <2>3. x * p <= s * p /\ p * y <= p * s
    BY <2>1, Monotone
  <2>4. x * y <= s * y /\ s * y <= s * s
    BY <2>1, Monotone
  <2>5. 2 * p * s + s * s = s * p + p * s + s * s /\ s * p \in Nat /\ p * s \in Nat
    OBVIOUS
  <2> DEFINE N == Numbers(x, y)
             M == 2 * p * s + s * s
  <2>6. N \in Nat /\ M \in Nat /\ x * y <= N
    BY <2>2, <2>5
  <2>7. N <= M
    <3>1. \A a, b, c, d, e, f \in Nat : a <= d /\ b <= e /\ c <= f => a + b + c <= d + e + f
      OBVIOUS
    <3>2. s * y \in Nat /\ s * s \in Nat
      BY <2>1
    <3>3. x * y <= s * s
      BY <2>2, <2>4, <3>2
    <3> QED
      BY <2>2, <2>3, <2>5, <3>1, <3>2, <3>3
  <2> HIDE DEF N, M
  <2>8. B * N \in Nat /\ B * M \in Nat /\ 1 * N <= B * N /\ B * N <= B * M
    BY <1>1, <2>6, <2>7, Monotone
  <2>9. B * M < SizeMod
    BY <1>2 DEF M
  <2>10. B * N < SizeMod /\ N < SizeMod /\ x * y < SizeMod
    BY <1>2, <2>2, <2>6, <2>8, <2>9
  <2>11. Wrap(x * y) = x * y /\ Wrap(N) = N /\ Wrap(B * N) = B * N
    BY <2>2, <2>6, <2>8, <2>10, WrapFits
  <2> QED
    BY <2>11 DEF N
<1> QED
  BY <1>3, <1>4 DEF n, r, B

\* What is added up: the tasks, and the complexities and the bits of one user.
Counts == [run \in RunType |-> run.count]
FlopsOf(user) ==
    [run \in RunType |->
        IF run.task.userid = user THEN run.count * run.task.complexity ELSE 0]
BitsOf(user) ==
    [run \in RunType |->
        IF run.task.userid = user THEN run.count * run.task.bits_to_transfer ELSE 0]

LEMMA RunFields ==
    /\ Counts \in [RunType -> Int]
    /\ \A user : FlopsOf(user) \in [RunType -> Int]
    /\ \A user : BitsOf(user) \in [RunType -> Int]
<1>1. \A run \in RunType : /\ run.count \in Int
                           /\ run.count * run.task.complexity \in Int
                           /\ run.count * run.task.bits_to_transfer \in Int
  BY DEF RunType
<1> QED
  BY <1>1 DEF Counts, FlopsOf, BitsOf

\* No run of another user counts.
LEMMA OthersHaveNone ==
    ASSUME NEW p \in Nat, NEW s \in Nat, s > 0, NEW user \in Nat, NEW u \in Nat, u # user
    PROVE  /\ Total(Weights(Blocks(p, s, user), FlopsOf(u))) = 0
           /\ Total(Weights(Blocks(p, s, user), BitsOf(u))) = 0
<1>1. \A n, c : Run(n, c, user).task.userid = user
  BY DEF Run, Create
<1>2. \A run \in RunType :
          run.task.userid = user => FlopsOf(u)[run] = 0 /\ BitsOf(u)[run] = 0
  BY DEF FlopsOf, BitsOf
<1> DEFINE a == FullRun(p, s, user)
           b == EdgeRun(p, s, user)
           c == CornerRun(p, s, user)
<1>3. a.task.userid = user /\ b.task.userid = user /\ c.task.userid = user
  BY <1>1 DEF FullRun, EdgeRun, CornerRun
<1>4. FlopsOf(u) \in [RunType -> Int] /\ BitsOf(u) \in [RunType -> Int]
  BY RunFields
<1>5. a \in RunType /\ b \in RunType /\ c \in RunType
  BY <1>4, BlocksTotal
<1> HIDE DEF a, b, c
<1>6. FlopsOf(u)[a] = 0 /\ FlopsOf(u)[b] = 0 /\ FlopsOf(u)[c] = 0
  BY <1>2, <1>3, <1>5
<1>7. BitsOf(u)[a] = 0 /\ BitsOf(u)[b] = 0 /\ BitsOf(u)[c] = 0
  BY <1>2, <1>3, <1>5
<1>8. \A W \in [RunType -> Int] : Total(Weights(Blocks(p, s, user), W))
          = W[a] + (IF HasEdge(p, s) THEN W[b] + W[c] ELSE 0)
  BY BlocksTotal DEF a, b, c
<1>9. Total(Weights(Blocks(p, s, user), FlopsOf(u))) = 0
  BY <1>4, <1>6, <1>8
<1>10. Total(Weights(Blocks(p, s, user), BitsOf(u))) = 0
  BY <1>4, <1>7, <1>8
<1> QED
  BY <1>9, <1>10

LEMMA SliceCount ==
    ASSUME NEW p \in Nat, NEW s \in Nat, s > 0, NEW user \in Nat, ~LosesEdge(p, s)
    PROVE  Wrap(Total(Weights(Blocks(p, s, user), Counts))) = Wrap(NumberOfTasks(p, s))
<1> DEFINE n == NFull(p, s)
           r == Partial(p, s)
           T == Total(Weights(Blocks(p, s, user), Counts))
<1>1. n \in Nat /\ r \in Nat /\ p = n * s + r
  BY NFullPartial
<1>2. T = Wrap(n * n) + (IF HasEdge(p, s) THEN Wrap(2 * n) + Wrap(1) ELSE 0)
  <2>1. \A run \in RunType : Counts[run] = run.count
    BY DEF Counts
  <2>2. /\ FullRun(p, s, user).count = Wrap(n * n)
        /\ EdgeRun(p, s, user).count = Wrap(2 * n)
        /\ CornerRun(p, s, user).count = Wrap(1)
    BY DEF FullRun, EdgeRun, CornerRun, Run
  <2>3. Counts \in [RunType -> Int]
    BY RunFields
  <2>4. FullRun(p, s, user) \in RunType /\ EdgeRun(p, s, user) \in RunType
    BY <2>3, BlocksTotal
  <2>5. CornerRun(p, s, user) \in RunType
    BY <2>3, BlocksTotal
  <2>6. T = Counts[FullRun(p, s, user)]
            + (IF HasEdge(p, s)
               THEN Counts[EdgeRun(p, s, user)] + Counts[CornerRun(p, s, user)] ELSE 0)
    BY <2>3, BlocksTotal
  <2> HIDE DEF n, T
  <2> QED
    BY <2>1, <2>2, <2>4, <2>5, <2>6
<1>3. HasEdge(p, s) <=> r # 0
  <2>1. SUFFICES ASSUME r # 0
                 PROVE  Wrap(r * s) * (2 * p - 1) # 0
    BY DEF Complexity, HasEdge
  <2>2. Wrap(r * s) # 0
    BY <2>1 DEF LosesEdge
  <2>3. Wrap(r * s) \in Nat
    BY <1>1, SizeType
  <2>4. 2 * p - 1 \in Int /\ 2 * p - 1 # 0
    OBVIOUS
  <2> HIDE DEF r
  <2>5. \A x, y \in Int : x # 0 /\ y # 0 => x * y # 0
    OBVIOUS
  <2> QED
    BY <2>2, <2>3, <2>4, <2>5
<1>4. NumberOfTasks(p, s) = IF r # 0 THEN Wrap(n * (n + 2) + 1) ELSE Wrap(n * n)
  BY DEF NumberOfTasks
<1> HIDE DEF n, r, T
<1>5. CASE r # 0
  <2>1. n * n \in Int /\ 2 * n \in Int /\ n * n + 2 * n \in Int
    BY <1>1
  <2>2. Wrap(n * n) \in Int /\ Wrap(2 * n) \in Int
    BY <2>1, SizeType
  <2>3. T = (Wrap(n * n) + Wrap(2 * n)) + Wrap(1)
    BY <1>2, <1>3, <1>5, <2>2, SizeType
  <2>4. Wrap(T) = Wrap((Wrap(n * n) + Wrap(2 * n)) + 1)
    BY <2>2, <2>3, WrapOne
  <2>5. Wrap((Wrap(n * n) + Wrap(2 * n)) + 1) = Wrap((Wrap(n * n) + 1) + Wrap(2 * n))
    BY <2>2
  <2>6. Wrap((Wrap(n * n) + 1) + Wrap(2 * n)) = Wrap((Wrap(n * n) + 1) + 2 * n)
    BY <2>1, <2>2, WrapOne
  <2>7. Wrap((Wrap(n * n) + 1) + 2 * n) = Wrap((2 * n + 1) + Wrap(n * n))
    BY <2>1, <2>2
  <2>8. Wrap((2 * n + 1) + Wrap(n * n)) = Wrap((2 * n + 1) + n * n)
    BY <2>1, WrapOne
  <2>9. (2 * n + 1) + n * n = n * (n + 2) + 1 /\ n * (n + 2) + 1 \in Int
    BY <1>1
  <2>10. Wrap(0 + Wrap(n * (n + 2) + 1)) = Wrap(0 + (n * (n + 2) + 1))
    BY <2>9, WrapOne
  <2>11. Wrap(n * (n + 2) + 1) \in Int
    BY <2>9, SizeType
  <2>12. Wrap(Wrap(n * (n + 2) + 1)) = Wrap(n * (n + 2) + 1)
    BY <2>9, <2>10, <2>11
  <2> QED
    BY <1>4, <1>5, <2>4, <2>5, <2>6, <2>7, <2>8, <2>9, <2>12 DEF T
<1>6. CASE r = 0
  <2>1. n * n \in Int
    BY <1>1
  <2>2. T = Wrap(n * n)
    BY <1>2, <1>3, <1>6, <2>1, SizeType
  <2> QED
    BY <1>4, <1>6, <2>2 DEF T
<1> QED
  BY <1>5, <1>6

\* What the runs of a slice size hold where nothing wraps.
LEMMA SliceRuns ==
    ASSUME NEW p \in Nat, NEW s \in Nat, s > 0, NEW user \in Nat, Fits(p, s)
    PROVE  LET n == NFull(p, s)
               r == Partial(p, s)
               a == FullRun(p, s, user)
               b == EdgeRun(p, s, user)
               c == CornerRun(p, s, user)
               w == 2 * p - 1
               B == BitsPerNumber
           IN  /\ a.count = n * n /\ b.count = 2 * n /\ c.count = 1
               /\ a.task.userid = user /\ b.task.userid = user /\ c.task.userid = user
               /\ a.task.complexity = (s * s) * w
               /\ b.task.complexity = (r * s) * w
               /\ c.task.complexity = (r * r) * w
               /\ a.task.bits_to_transfer = B * (s * p + p * s + s * s)
               /\ b.task.bits_to_transfer = B * (r * p + p * s + r * s)
               /\ c.task.bits_to_transfer = B * (r * p + p * r + r * r)
<1> DEFINE n == NFull(p, s)
           r == Partial(p, s)
           Numbers(x, y) == x * p + p * y + x * y
<1>1. Wrap(n * n) = n * n /\ Wrap(2 * n) = 2 * n /\ Wrap(1) = 1
  BY NothingWraps
<1>2. \A x, y \in {r, s} :
          /\ Wrap(x * y) = x * y
          /\ Wrap(Numbers(x, y)) = Numbers(x, y)
          /\ Wrap(BitsPerNumber * Numbers(x, y)) = BitsPerNumber * Numbers(x, y)
  BY NothingWraps
<1> HIDE DEF n
<1>3. \A x, y \in {r, s} : \A k : LET run == Run(k, Complexity(x, p, y), user) IN
          /\ run.count = Wrap(k) /\ run.task.userid = user
          /\ run.task.complexity = (x * y) * (2 * p - 1)
          /\ run.task.bits_to_transfer = BitsPerNumber * Numbers(x, y)
  BY <1>2 DEF Run, Create, Complexity
<1>4. r \in {r, s} /\ s \in {r, s}
  OBVIOUS
<1> HIDE DEF r
<1>5. /\ FullRun(p, s, user) = Run(n * n, Complexity(s, p, s), user)
      /\ EdgeRun(p, s, user) = Run(2 * n, Complexity(r, p, s), user)
      /\ CornerRun(p, s, user) = Run(1, Complexity(r, p, r), user)
  BY DEF FullRun, EdgeRun, CornerRun, n, r
<1> QED
  BY <1>1, <1>3, <1>4, <1>5 DEF n, r

LEMMA FitsHasEdge ==
    ASSUME NEW p \in Nat, NEW s \in Nat, s > 0, Fits(p, s)
    PROVE  HasEdge(p, s) <=> Partial(p, s) # 0
<1> DEFINE r == Partial(p, s)
<1>1. SUFFICES ASSUME r # 0
               PROVE  Wrap(r * s) * (2 * p - 1) # 0
  BY DEF HasEdge, Complexity
<1>2. Wrap(r * s) = r * s
  BY NothingWraps
<1>3. r \in Nat
  BY NFullPartial
<1> HIDE DEF r
<1>4. \A x, y \in Int : x # 0 /\ y # 0 => x * y # 0 /\ x * y \in Int
  OBVIOUS
<1>5. r * s # 0 /\ r * s \in Int /\ 2 * p - 1 \in Int /\ 2 * p - 1 # 0
  BY <1>1, <1>3, <1>4
<1> QED
  BY <1>2, <1>4, <1>5

LEMMA SliceFlops ==
    ASSUME NEW p \in Nat, NEW s \in Nat, s > 0, NEW user \in Nat, Fits(p, s)
    PROVE  Total(Weights(Blocks(p, s, user), FlopsOf(user))) = p * p * (2 * p - 1)
<1> DEFINE n == NFull(p, s)
           r == Partial(p, s)
           w == 2 * p - 1
           W == FlopsOf(user)
           a == FullRun(p, s, user)
           b == EdgeRun(p, s, user)
           c == CornerRun(p, s, user)
<1>1. W \in [RunType -> Int]
  BY RunFields
<1>2. a \in RunType /\ b \in RunType /\ c \in RunType
  BY <1>1, BlocksTotal
<1>3. Total(Weights(Blocks(p, s, user), W)) = W[a] + (IF r # 0 THEN W[b] + W[c] ELSE 0)
  <2>1. HasEdge(p, s) <=> r # 0
    BY FitsHasEdge
  <2>2. Total(Weights(Blocks(p, s, user), W))
          = W[a] + (IF HasEdge(p, s) THEN W[b] + W[c] ELSE 0)
    BY <1>1, BlocksTotal
  <2> QED
    BY <2>1, <2>2
<1>4. /\ a.count = n * n /\ a.task.userid = user /\ a.task.complexity = (s * s) * w
      /\ b.count = 2 * n /\ b.task.userid = user /\ b.task.complexity = (r * s) * w
      /\ c.count = 1 /\ c.task.userid = user /\ c.task.complexity = (r * r) * w
  BY SliceRuns
<1>5. n \in Nat /\ r \in Nat /\ p = n * s + r
  BY NFullPartial
<1> HIDE DEF a, b, c, n, r
<1>6. /\ W[a] = (n * n) * ((s * s) * w)
      /\ W[b] = (2 * n) * ((r * s) * w)
      /\ W[c] = 1 * ((r * r) * w)
  BY <1>2, <1>4 DEF FlopsOf
<1> HIDE DEF W, w
<1>7. w \in Int
  BY DEF w
<1>8. CASE r = 0
  <2>1. p * p * w = (n * n) * ((s * s) * w)
    <3>1. p = n * s
      BY <1>5, <1>8
    <3> QED
      BY <1>5, <1>7, <3>1
  <2>2. (n * n) * ((s * s) * w) \in Int
    BY <1>5, <1>7
  <2> QED
    BY <1>3, <1>6, <1>8, <2>1, <2>2 DEF W, w
<1>9. CASE r # 0
  <2>1. p * p * w = (n * n) * ((s * s) * w) + ((2 * n) * ((r * s) * w) + 1 * ((r * r) * w))
    BY <1>5, <1>7
  <2> QED
    BY <1>3, <1>6, <1>9, <2>1 DEF W, w
<1> QED
  BY <1>8, <1>9

LEMMA SliceBits ==
    ASSUME NEW p \in Nat, NEW s \in Nat, s > 0, NEW user \in Nat, Fits(p, s)
    PROVE  Total(Weights(Blocks(p, s, user), BitsOf(user)))
             = BitsPerNumber * (2 * p * p * BlocksPerSide(p, s) + p * p)
<1> DEFINE n == NFull(p, s)
           r == Partial(p, s)
           B == BitsPerNumber
           W == BitsOf(user)
           a == FullRun(p, s, user)
           b == EdgeRun(p, s, user)
           c == CornerRun(p, s, user)
           x == B * (s * p + p * s + s * s)
           y == B * (r * p + p * s + r * s)
           z == B * (r * p + p * r + r * r)
<1>1. W \in [RunType -> Int]
  BY RunFields
<1>2. a \in RunType /\ b \in RunType /\ c \in RunType
  BY <1>1, BlocksTotal
<1>3. Total(Weights(Blocks(p, s, user), W)) = W[a] + (IF r # 0 THEN W[b] + W[c] ELSE 0)
  <2>1. HasEdge(p, s) <=> r # 0
    BY FitsHasEdge
  <2>2. Total(Weights(Blocks(p, s, user), W))
          = W[a] + (IF HasEdge(p, s) THEN W[b] + W[c] ELSE 0)
    BY <1>1, BlocksTotal
  <2> QED
    BY <2>1, <2>2
<1>4. /\ a.count = n * n /\ a.task.userid = user /\ a.task.bits_to_transfer = x
      /\ b.count = 2 * n /\ b.task.userid = user /\ b.task.bits_to_transfer = y
      /\ c.count = 1 /\ c.task.userid = user /\ c.task.bits_to_transfer = z
  BY SliceRuns
<1>5. n \in Nat /\ r \in Nat /\ p = n * s + r /\ B \in Nat
  BY NFullPartial, WidthsAssumption
<1>6. BlocksPerSide(p, s) = IF r = 0 THEN n ELSE n + 1
  BY DEF BlocksPerSide
<1> HIDE DEF a, b, c, n, r, B, x, y, z
<1>7. W[a] = (n * n) * x /\ W[b] = (2 * n) * y /\ W[c] = 1 * z
  BY <1>2, <1>4 DEF BitsOf
<1> HIDE DEF W
<1>8. CASE r = 0
  <2>1. B * (2 * p * p * n + p * p) = (n * n) * (B * (s * p + p * s + s * s))
    <3>1. p = n * s
      BY <1>5, <1>8
    <3> QED
      BY <1>5, <3>1
  <2>2. (n * n) * x \in Int
    BY <1>5 DEF x
  <2> QED
    BY <1>3, <1>6, <1>7, <1>8, <2>1, <2>2 DEF W, x, B
<1>9. CASE r # 0
  <2>1. B * (2 * p * p * (n + 1) + p * p)
          = (n * n) * (B * (s * p + p * s + s * s))
            + ((2 * n) * (B * (r * p + p * s + r * s)) + 1 * (B * (r * p + p * r + r * r)))
    BY <1>5
  <2> QED
    BY <1>3, <1>6, <1>7, <1>9, <2>1 DEF W, x, y, z, B
<1> QED
  BY <1>8, <1>9
-------------------------------------------------------------------------------
\* The whole list: a sum over what is inserted is the sum of the sums over the
\* slice sizes.
SliceTotals(j, W) ==
    [k \in DOMAIN j.slice_sizes |->
        Total(Weights(Blocks(j.problem_size, j.slice_sizes[k], UserOf(k)), W))]

NoSliceIsZero(j) == \A k \in DOMAIN j.slice_sizes : j.slice_sizes[k] # 0

LEMMA JobType ==
    ASSUME NEW j \in Job, NoSliceIsZero(j)
    PROVE  /\ j.problem_size \in Nat /\ Len(j.slice_sizes) \in Nat
           /\ DOMAIN j.slice_sizes = 1..Len(j.slice_sizes)
           /\ \A k \in 1..Len(j.slice_sizes) :
                  j.slice_sizes[k] \in Nat /\ j.slice_sizes[k] > 0 /\ UserOf(k) \in Nat
<1>1. j.problem_size \in Nat /\ j.slice_sizes \in Seq(Size)
  BY SizeType DEF Job
<1>2. /\ Len(j.slice_sizes) \in Nat /\ DOMAIN j.slice_sizes = 1..Len(j.slice_sizes)
      /\ \A k \in 1..Len(j.slice_sizes) : j.slice_sizes[k] \in Size
  BY <1>1, LengthOf
<1>3. \A k \in Int : (k - 1) % UserIdMod \in Nat
  BY WidthsAssumption
<1>4. \A k \in 1..Len(j.slice_sizes) : j.slice_sizes[k] \in Nat /\ j.slice_sizes[k] # 0
  BY <1>2, SizeType DEF NoSliceIsZero
<1>5. \A k \in 1..Len(j.slice_sizes) : UserOf(k) \in Nat
  BY <1>2, <1>3 DEF UserOf
<1>6. \A n \in Nat : n # 0 => n > 0
  OBVIOUS
<1> QED
  BY <1>1, <1>2, <1>4, <1>5, <1>6

LEMMA InsertedTotal ==
    ASSUME NEW j \in Job, NoSliceIsZero(j), NEW W \in [RunType -> Int]
    PROVE  /\ Inserted(j) \in Seq(RunType)
           /\ Total(Weights(Inserted(j), W)) = Total(SliceTotals(j, W))
           /\ SliceTotals(j, W) \in [1..Len(j.slice_sizes) -> Int]
           /\ SliceTotals(j, W) \in Seq(Int)
           /\ Len(SliceTotals(j, W)) = Len(j.slice_sizes)
<1> DEFINE p == j.problem_size
           sizes == j.slice_sizes
           N == Len(sizes)
           seqs == [k \in DOMAIN sizes |-> Blocks(p, sizes[k], UserOf(k))]
<1>1. /\ p \in Nat /\ N \in Nat /\ DOMAIN sizes = 1..N
      /\ \A k \in 1..N : sizes[k] \in Nat /\ sizes[k] > 0 /\ UserOf(k) \in Nat
  BY JobType
<1>2. \A k \in 1..N : Blocks(p, sizes[k], UserOf(k)) \in Seq(RunType)
  <2> SUFFICES ASSUME NEW k \in 1..N
               PROVE  Blocks(p, sizes[k], UserOf(k)) \in Seq(RunType)
    OBVIOUS
  <2>1. sizes[k] \in Nat /\ sizes[k] > 0 /\ UserOf(k) \in Nat /\ p \in Nat
    BY <1>1
  <2> HIDE DEF p, sizes
  <2> QED
    BY <2>1, BlocksTotal
<1>3. seqs \in [1..N -> Seq(RunType)]
  BY <1>1, <1>2
<1>4. seqs \in Seq(Seq(RunType)) /\ DOMAIN seqs = 1..N
  BY <1>1, <1>3
<1>5. Inserted(j) = S!FlattenSeq(seqs)
  BY DEF Inserted
<1>6. \A k \in 1..N : seqs[k] = Blocks(p, sizes[k], UserOf(k))
  BY <1>1
<1> HIDE DEF seqs
<1>7. S!FlattenSeq(seqs) \in Seq(RunType)
  BY <1>4, FlattenType
<1>8. Total(Weights(S!FlattenSeq(seqs), W))
        = Total([k \in DOMAIN seqs |-> Total(Weights(seqs[k], W))])
  BY <1>4, FlattenTotal
<1>9. [k \in DOMAIN seqs |-> Total(Weights(seqs[k], W))] = SliceTotals(j, W)
  BY <1>1, <1>4, <1>6 DEF SliceTotals
<1>10. \A k \in 1..N : Total(Weights(seqs[k], W)) \in Int
  <2> SUFFICES ASSUME NEW k \in 1..N
               PROVE  Total(Weights(seqs[k], W)) \in Int
    OBVIOUS
  <2>1. seqs[k] \in Seq(RunType)
    BY <1>3
  <2>2. Weights(seqs[k], W) \in Seq(Int)
    BY <2>1, WeightsType
  <2> QED
    BY <2>2, TotalType
<1>11. [k \in DOMAIN seqs |-> Total(Weights(seqs[k], W))] \in [1..N -> Int]
  BY <1>4, <1>10
<1>12. \A f \in [1..N -> Int] : f \in Seq(Int) /\ Len(f) = N
  <2>1. N \in Nat
    BY <1>1
  <2> HIDE DEF N
  <2> QED
    BY <2>1
<1> QED
  BY <1>5, <1>7, <1>8, <1>9, <1>11, <1>12

-------------------------------------------------------------------------------
\* What a finished call has returned.
ResultInv ==
    /\ job \in JobInputs
    /\ pc = "done" => tasks = Inserted(job) /\ ~SomeSliceIsZero /\ ~Overflows

LEMMA ResultHolds == Spec => []ResultInv
<1>1. Init => ResultInv
  BY DEF Init, ResultInv
<1>2. ResultInv /\ [Next]_vars => ResultInv'
  <2> SUFFICES ASSUME ResultInv, [Next]_vars
               PROVE  ResultInv'
    OBVIOUS
  <2>1. CASE Return
    BY <2>1 DEF ResultInv, Return, SomeSliceIsZero, Overflows
  <2>2. CASE Fail
    BY <2>2 DEF ResultInv, Fail, SomeSliceIsZero, Overflows
  <2>3. CASE Terminated \/ UNCHANGED vars
    BY <2>3 DEF ResultInv, Terminated, vars, SomeSliceIsZero, Overflows
  <2> QED
    BY <2>1, <2>2, <2>3 DEF Next
<1> QED
  BY <1>1, <1>2, PTL DEF Spec

LEMMA JobIsJob == ResultInv /\ pc = "done" => job \in Job /\ NoSliceIsZero(job)
  BY JobsAssumption DEF ResultInv, SomeSliceIsZero, NoSliceIsZero

\* The capacity create_tasks reserves is the number of tasks it makes, or an edge
\* block's complexity wraps to 0.
THEOREM ReserveIsExactHolds == Spec => []ReserveIsExact
<1>1. ASSUME ResultInv
      PROVE  ReserveIsExact
  <2> SUFFICES ASSUME pc = "done",
                      \A k \in DOMAIN job.slice_sizes :
                          ~LosesEdge(job.problem_size, job.slice_sizes[k])
               PROVE  TaskCount(tasks) = Reserved(job)
    BY DEF ReserveIsExact
  <2> DEFINE p == job.problem_size
             sizes == job.slice_sizes
             N == Len(sizes)
             tot == SliceTotals(job, Counts)
             num == [k \in DOMAIN sizes |-> NumberOfTasks(p, sizes[k])]
  <2>1. job \in Job /\ NoSliceIsZero(job) /\ tasks = Inserted(job) /\ ~Overflows
    BY <1>1, JobIsJob DEF ResultInv
  <2>2. /\ p \in Nat /\ N \in Nat /\ DOMAIN sizes = 1..N
        /\ \A k \in 1..N : sizes[k] \in Nat /\ sizes[k] > 0 /\ UserOf(k) \in Nat
    BY <2>1, JobType
  <2>3. Counts \in [RunType -> Int]
    BY RunFields
  <2>4. /\ tasks \in Seq(RunType)
        /\ Total(Weights(tasks, Counts)) = Total(tot)
        /\ tot \in Seq(Int) /\ Len(tot) = N
    BY <2>1, <2>3, InsertedTotal
  <2>5. TaskCount(tasks) = Total(Weights(tasks, Counts)) /\ TaskCount(tasks) \in Nat
    <3>1. DOMAIN tasks = 1..Len(tasks) /\ \A k \in 1..Len(tasks) : tasks[k] \in RunType
      BY <2>4, LengthOf
    <3>2. Weights(tasks, Counts) = [k \in DOMAIN tasks |-> tasks[k].count]
      BY <3>1 DEF Weights, Counts
    <3>3. [k \in DOMAIN tasks |-> tasks[k].count] \in Seq(Nat)
      <4>1. \A k \in 1..Len(tasks) : tasks[k].count \in Nat
        BY <3>1 DEF RunType
      <4> QED
        BY <2>4, <3>1, <4>1
    <3> QED
      BY <3>2, <3>3, TotalNatural DEF TaskCount
  <2>6. \A k \in 1..N : /\ tot[k] = Total(Weights(Blocks(p, sizes[k], UserOf(k)), Counts))
                        /\ num[k] = NumberOfTasks(p, sizes[k])
                        /\ ~LosesEdge(p, sizes[k])
    BY <2>2 DEF SliceTotals
  <2>7. num \in Seq(Int) /\ Len(num) = N
    <3>1. \A k \in 1..N : NumberOfTasks(p, sizes[k]) \in Int
      <4> SUFFICES ASSUME NEW k \in 1..N
                   PROVE  NumberOfTasks(p, sizes[k]) \in Int
        OBVIOUS
      <4>1. NFull(p, sizes[k]) \in Nat
        BY <2>2, NFullPartial
      <4>2. /\ NFull(p, sizes[k]) * (NFull(p, sizes[k]) + 2) + 1 \in Int
            /\ NFull(p, sizes[k]) * NFull(p, sizes[k]) \in Int
        BY <4>1
      <4> QED
        BY <4>2, SizeType DEF NumberOfTasks
    <3>2. num \in [1..N -> Int]
      BY <2>2, <3>1
    <3> QED
      BY <2>2, <3>2
  <2>8. Reserved(job) = Wrap(Total(num))
    BY DEF Reserved
  <2> HIDE DEF p, sizes, N, tot, num
  <2>9. \A k \in 1..N : Wrap(tot[k]) = Wrap(num[k])
    BY <2>2, <2>6, SliceCount
  <2>10. Wrap(Total(tot)) = Wrap(Total(num))
    BY <2>4, <2>7, <2>9, TotalWraps
  <2>11. TaskCount(tasks) < SizeMod
    <3>1. TaskCount(tasks) <= MaxSize
      <4>1. TaskCount(Inserted(job)) \in Nat /\ MaxSize \in Nat
        BY <2>1, <2>5, JobsAssumption, SizeType
      <4> QED
        BY <2>1, <4>1 DEF Overflows
    <3>2. MaxSize < SizeMod /\ MaxSize \in Nat
      BY JobsAssumption, WidthsAssumption DEF Size
    <3> QED
      BY <2>5, <3>1, <3>2, WidthsAssumption
  <2>12. Wrap(TaskCount(tasks)) = TaskCount(tasks)
    BY <2>5, <2>11, WrapFits
  <2> QED
    BY <2>4, <2>5, <2>8, <2>10, <2>12
<1> QED
  BY <1>1, ResultHolds, PTL

\* The user of the n-th slice size, and that nobody else has it.
LEMMA OwnUser ==
    ASSUME NEW j \in Job, NoSliceIsZero(j), Len(j.slice_sizes) <= UserIdMod,
           NEW n \in 1..Len(j.slice_sizes)
    PROVE  /\ n - 1 \in Nat /\ UserOf(n) = n - 1
           /\ \A k \in 1..Len(j.slice_sizes) : k # n => UserOf(k) # n - 1
<1>1. Len(j.slice_sizes) \in Nat /\ UserIdMod \in Nat
  BY JobType, WidthsAssumption
<1>2. \A k \in 1..Len(j.slice_sizes) : UserOf(k) = k - 1
  <2> SUFFICES ASSUME NEW k \in 1..Len(j.slice_sizes)
               PROVE  (k - 1) % UserIdMod = k - 1
    BY DEF UserOf
  <2>1. k - 1 \in 0..(UserIdMod - 1) /\ UserIdMod > 0
    BY <1>1
  <2> QED
    BY <1>1, <2>1
<1> QED
  BY <1>1, <1>2

\* A sum over one user's tasks is that over the blocks of its slice size.
LEMMA SumOfOneSlice ==
    ASSUME NEW j \in Job, NoSliceIsZero(j), Len(j.slice_sizes) <= UserIdMod,
           NEW n \in 1..Len(j.slice_sizes), NEW W \in [RunType -> Int],
           \A k \in 1..Len(j.slice_sizes) : k # n =>
               Total(Weights(Blocks(j.problem_size, j.slice_sizes[k], UserOf(k)), W)) = 0
    PROVE  Total(Weights(Inserted(j), W))
             = Total(Weights(Blocks(j.problem_size, j.slice_sizes[n], n - 1), W))
<1> DEFINE tot == SliceTotals(j, W)
<1>1. /\ tot \in Seq(Int) /\ Len(tot) = Len(j.slice_sizes)
      /\ Total(Weights(Inserted(j), W)) = Total(tot)
  BY InsertedTotal
<1>2. DOMAIN j.slice_sizes = 1..Len(j.slice_sizes)
  BY JobType
<1>3. \A k \in 1..Len(j.slice_sizes) :
          tot[k] = Total(Weights(Blocks(j.problem_size, j.slice_sizes[k], UserOf(k)), W))
  BY <1>2 DEF SliceTotals
<1> HIDE DEF tot
<1>4. \A k \in 1..Len(tot) : k # n => tot[k] = 0
  BY <1>1, <1>3
<1>5. Total(tot) = tot[n]
  BY <1>1, <1>4, TotalOnly
<1> QED
  BY <1>1, <1>3, <1>5, OwnUser

\* Whatever the slice size, the complexities of a user's tasks add up to that of the
\* whole product.
THEOREM TilesTheProductHolds == Spec => []TilesTheProduct
<1>1. ASSUME ResultInv
      PROVE  TilesTheProduct
  <2> DEFINE p == job.problem_size
             sizes == job.slice_sizes
  <2> SUFFICES ASSUME pc = "done", UsersAreDistinct, NEW n \in DOMAIN job.slice_sizes,
                      Fits(p, sizes[n])
               PROVE  Total([k \in DOMAIN tasks |->
                                IF tasks[k].task.userid = n - 1
                                THEN tasks[k].count * tasks[k].task.complexity ELSE 0])
                        = p * p * (2 * p - 1)
    BY DEF TilesTheProduct, SumOfUser, ProductFlops
  <2> DEFINE u == n - 1
             W == FlopsOf(u)
  <2>1. job \in Job /\ NoSliceIsZero(job) /\ tasks = Inserted(job)
    BY <1>1, JobIsJob DEF ResultInv
  <2>2. /\ p \in Nat /\ DOMAIN sizes = 1..Len(sizes)
        /\ \A k \in 1..Len(sizes) : sizes[k] \in Nat /\ sizes[k] > 0 /\ UserOf(k) \in Nat
    BY <2>1, JobType
  <2>3. Len(sizes) <= UserIdMod /\ n \in 1..Len(sizes)
    BY <2>2 DEF UsersAreDistinct
  <2>4. /\ u \in Nat /\ UserOf(n) = u
        /\ \A k \in 1..Len(sizes) : k # n => UserOf(k) # u
    BY <2>1, <2>3, OwnUser
  <2>5. W \in [RunType -> Int]
    BY RunFields
  <2>6. tasks \in Seq(RunType)
    BY <2>1, <2>5, InsertedTotal
  <2>7. Weights(tasks, W) = [k \in DOMAIN tasks |->
                                IF tasks[k].task.userid = u
                                THEN tasks[k].count * tasks[k].task.complexity ELSE 0]
    BY <2>6, LengthOf DEF Weights, FlopsOf
  <2>8. \A k \in 1..Len(sizes) : k # n =>
            Total(Weights(Blocks(p, sizes[k], UserOf(k)), W)) = 0
    <3> HIDE DEF p, sizes, u
    <3> QED
      BY <2>2, <2>4, OthersHaveNone
  <2>9. Total(Weights(tasks, W)) = Total(Weights(Blocks(p, sizes[n], u), W))
    BY <2>1, <2>3, <2>5, <2>8, SumOfOneSlice
  <2>10. Total(Weights(Blocks(p, sizes[n], u), W)) = p * p * (2 * p - 1)
    <3>1. sizes[n] \in Nat /\ sizes[n] > 0 /\ Fits(p, sizes[n])
      BY <2>2
    <3> HIDE DEF p, sizes, u
    <3> QED
      BY <2>2, <2>4, <3>1, SliceFlops
  <2> HIDE DEF p, sizes, W
  <2> QED
    BY <2>7, <2>9, <2>10
<1> QED
  BY <1>1, ResultHolds, PTL

\* The traffic of a slice size: each factor once per block row or column, the
\* result once.
THEOREM TransferVolumeHolds == Spec => []TransferVolume
<1>1. ASSUME ResultInv
      PROVE  TransferVolume
  <2> DEFINE p == job.problem_size
             sizes == job.slice_sizes
  <2> SUFFICES ASSUME pc = "done", UsersAreDistinct, NEW n \in DOMAIN job.slice_sizes,
                      Fits(p, sizes[n])
               PROVE  Total([k \in DOMAIN tasks |->
                                IF tasks[k].task.userid = n - 1
                                THEN tasks[k].count * tasks[k].task.bits_to_transfer ELSE 0])
                        = BitsPerNumber * (2 * p * p * BlocksPerSide(p, sizes[n]) + p * p)
    BY DEF TransferVolume, SumOfUser, ProductBits
  <2> DEFINE u == n - 1
             W == BitsOf(u)
  <2>1. job \in Job /\ NoSliceIsZero(job) /\ tasks = Inserted(job)
    BY <1>1, JobIsJob DEF ResultInv
  <2>2. /\ p \in Nat /\ DOMAIN sizes = 1..Len(sizes)
        /\ \A k \in 1..Len(sizes) : sizes[k] \in Nat /\ sizes[k] > 0 /\ UserOf(k) \in Nat
    BY <2>1, JobType
  <2>3. Len(sizes) <= UserIdMod /\ n \in 1..Len(sizes)
    BY <2>2 DEF UsersAreDistinct
  <2>4. /\ u \in Nat /\ UserOf(n) = u
        /\ \A k \in 1..Len(sizes) : k # n => UserOf(k) # u
    BY <2>1, <2>3, OwnUser
  <2>5. W \in [RunType -> Int]
    BY RunFields
  <2>6. tasks \in Seq(RunType)
    BY <2>1, <2>5, InsertedTotal
  <2>7. Weights(tasks, W) = [k \in DOMAIN tasks |->
                                IF tasks[k].task.userid = u
                                THEN tasks[k].count * tasks[k].task.bits_to_transfer ELSE 0]
    BY <2>6, LengthOf DEF Weights, BitsOf
  <2>8. \A k \in 1..Len(sizes) : k # n =>
            Total(Weights(Blocks(p, sizes[k], UserOf(k)), W)) = 0
    <3> HIDE DEF p, sizes, u
    <3> QED
      BY <2>2, <2>4, OthersHaveNone
  <2>9. Total(Weights(tasks, W)) = Total(Weights(Blocks(p, sizes[n], u), W))
    BY <2>1, <2>3, <2>5, <2>8, SumOfOneSlice
  <2>10. Total(Weights(Blocks(p, sizes[n], u), W))
           = BitsPerNumber * (2 * p * p * BlocksPerSide(p, sizes[n]) + p * p)
    <3>1. sizes[n] \in Nat /\ sizes[n] > 0 /\ Fits(p, sizes[n])
      BY <2>2
    <3> HIDE DEF p, sizes, u
    <3> QED
      BY <2>2, <2>4, <3>1, SliceBits
  <2> HIDE DEF p, sizes, W
  <2> QED
    BY <2>7, <2>9, <2>10
<1> QED
  BY <1>1, ResultHolds, PTL
-------------------------------------------------------------------------------
(***************************************************************************)
(* What the tasks of some users, U, take together, at a for a flop, b for  *)
(* a bit and c for a task: the same from the runs as from the problem size *)
(* and the slice sizes.                                                    *)
(***************************************************************************)
TaskType == [complexity : Int, bits_to_transfer : Nat, userid : Nat]
TaskPrice(U, a, b, c) ==
    [task \in TaskType |->
        IF task.userid \in U THEN a * task.complexity + b * task.bits_to_transfer + c ELSE 0]
RunPrice(U, a, b, c) ==
    [run \in RunType |-> run.count * TaskPrice(U, a, b, c)[run.task]]
JobPrices(j, U, a, b, c) ==
    [k \in DOMAIN j.slice_sizes |->
        IF UserOf(k) \in U
        THEN a * ProductFlops(j.problem_size)
               + b * ProductBits(j.problem_size, j.slice_sizes[k])
               + c * (BlocksPerSide(j.problem_size, j.slice_sizes[k])
                        * BlocksPerSide(j.problem_size, j.slice_sizes[k]))
        ELSE 0]

LEMMA PriceType ==
    ASSUME NEW U, NEW a \in Int, NEW b \in Int, NEW c \in Int
    PROVE  /\ TaskPrice(U, a, b, c) \in [TaskType -> Int]
           /\ RunPrice(U, a, b, c) \in [RunType -> Int]
<1>1. ASSUME NEW task \in TaskType
      PROVE  a * task.complexity + b * task.bits_to_transfer + c \in Int
  <2>1. task.complexity \in Int /\ task.bits_to_transfer \in Int
    BY DEF TaskType
  <2> QED
    BY <2>1
<1>2. TaskPrice(U, a, b, c) \in [TaskType -> Int]
  BY <1>1 DEF TaskPrice
<1>3. ASSUME NEW run \in RunType
      PROVE  run.count * TaskPrice(U, a, b, c)[run.task] \in Int
  <2>1. run.count \in Int /\ run.task \in TaskType
    BY DEF RunType, TaskType
  <2>2. TaskPrice(U, a, b, c)[run.task] \in Int
    BY <1>2, <2>1
  <2> QED
    BY <2>1, <2>2
<1> QED
  BY <1>2, <1>3 DEF RunPrice

\* A run costs as much as its tasks do one by one.
LEMMA ExpandedPrice ==
    ASSUME NEW runs \in Seq(RunType), NEW U, NEW a \in Int, NEW b \in Int, NEW c \in Int
    PROVE  /\ Expanded(runs) \in Seq(TaskType)
           /\ Total(Weights(Expanded(runs), TaskPrice(U, a, b, c)))
                = Total(Weights(runs, RunPrice(U, a, b, c)))
<1> DEFINE W == TaskPrice(U, a, b, c)
           V == RunPrice(U, a, b, c)
           Tasks(k) == [n \in 1..runs[k].count |-> runs[k].task]
           seqs == [k \in DOMAIN runs |-> Tasks(k)]
<1>1. W \in [TaskType -> Int] /\ V \in [RunType -> Int]
  BY PriceType
<1>2. /\ Len(runs) \in Nat /\ DOMAIN runs = 1..Len(runs)
      /\ \A k \in 1..Len(runs) : runs[k] \in RunType
  BY LengthOf
<1>3. ASSUME NEW k \in 1..Len(runs)
      PROVE  /\ Tasks(k) \in Seq(TaskType)
             /\ Total(Weights(Tasks(k), W)) = V[runs[k]]
  <2>1. runs[k].count \in Nat /\ runs[k].task \in TaskType
    BY <1>2 DEF RunType, TaskType
  <2> DEFINE n == runs[k].count
             x == runs[k].task
             list == [l \in 1..n |-> x]
  <2>2. n \in Nat /\ x \in TaskType
    BY <2>1
  <2> HIDE DEF n, x
  <2>3. list \in Seq(TaskType) /\ Len(list) = n /\ \A l \in 1..n : list[l] = x
    BY <2>2
  <2> HIDE DEF list
  <2>4. /\ Weights(list, W) \in Seq(Int) /\ Len(Weights(list, W)) = n
        /\ \A l \in 1..n : Weights(list, W)[l] = W[x]
    <3> HIDE DEF W
    <3>1. W \in [TaskType -> Int]
      BY <1>1
    <3>2. /\ Weights(list, W) \in Seq(Int) /\ Len(Weights(list, W)) = Len(list)
          /\ \A l \in 1..Len(list) : Weights(list, W)[l] = W[list[l]]
      BY <2>3, <3>1, WeightsType
    <3> QED
      BY <2>3, <3>2
  <2>5. W[x] \in Int
    BY <1>1, <2>2
  <2>6. Total(Weights(list, W)) = n * W[x]
    <3> HIDE DEF W
    <3> QED
      BY <2>2, <2>4, <2>5, TotalConstant
  <2>7. V[runs[k]] = n * W[x]
    BY <1>2 DEF RunPrice, n, x
  <2> QED
    BY <2>3, <2>6, <2>7 DEF list, n, x
<1>4. seqs \in [1..Len(runs) -> Seq(TaskType)]
  BY <1>2, <1>3
<1>5. seqs \in Seq(Seq(TaskType)) /\ DOMAIN seqs = 1..Len(runs)
  BY <1>2, <1>4
<1>6. \A k \in 1..Len(runs) : Total(Weights(seqs[k], W)) = V[runs[k]]
  BY <1>2, <1>3
<1>7. Expanded(runs) = S!FlattenSeq(seqs)
  BY DEF Expanded
<1> HIDE DEF seqs, W, V
<1>8. S!FlattenSeq(seqs) \in Seq(TaskType)
  BY <1>5, FlattenType
<1>9. Total(Weights(S!FlattenSeq(seqs), W))
        = Total([k \in DOMAIN seqs |-> Total(Weights(seqs[k], W))])
  BY <1>1, <1>5, FlattenTotal
<1>10. [k \in DOMAIN seqs |-> Total(Weights(seqs[k], W))] = Weights(runs, V)
  BY <1>2, <1>5, <1>6 DEF Weights
<1> QED
  BY <1>7, <1>8, <1>9, <1>10 DEF W, V

\* So many blocks does a slice size have where nothing wraps.
LEMMA SliceBlocks ==
    ASSUME NEW p \in Nat, NEW s \in Nat, s > 0, NEW user \in Nat, Fits(p, s)
    PROVE  Total(Weights(Blocks(p, s, user), Counts))
             = BlocksPerSide(p, s) * BlocksPerSide(p, s)
<1> DEFINE n == NFull(p, s)
           r == Partial(p, s)
           x == FullRun(p, s, user)
           y == EdgeRun(p, s, user)
           z == CornerRun(p, s, user)
<1>1. Counts \in [RunType -> Int]
  BY RunFields
<1>2. x \in RunType /\ y \in RunType /\ z \in RunType
  BY <1>1, BlocksTotal
<1>3. Total(Weights(Blocks(p, s, user), Counts))
        = Counts[x] + (IF r # 0 THEN Counts[y] + Counts[z] ELSE 0)
  <2>1. HasEdge(p, s) <=> r # 0
    BY FitsHasEdge
  <2>2. Total(Weights(Blocks(p, s, user), Counts))
          = Counts[x] + (IF HasEdge(p, s) THEN Counts[y] + Counts[z] ELSE 0)
    BY <1>1, BlocksTotal
  <2> QED
    BY <2>1, <2>2
<1>4. x.count = n * n /\ y.count = 2 * n /\ z.count = 1
  BY SliceRuns
<1>5. n \in Nat
  BY NFullPartial
<1>6. BlocksPerSide(p, s) = IF r = 0 THEN n ELSE n + 1
  BY DEF BlocksPerSide
<1> HIDE DEF x, y, z, n, r
<1>7. Counts[x] = n * n /\ Counts[y] = 2 * n /\ Counts[z] = 1
  BY <1>2, <1>4 DEF Counts
<1>8. (n + 1) * (n + 1) = n * n + (2 * n + 1) /\ n * n \in Int
  BY <1>5
<1> QED
  BY <1>3, <1>6, <1>7, <1>8

\* One slice size: all its tasks are of one user.
LEMMA SlicePrice ==
    ASSUME NEW p \in Nat, NEW s \in Nat, s > 0, NEW user \in Nat, Fits(p, s),
           NEW U, NEW a \in Int, NEW b \in Int, NEW c \in Int
    PROVE  Total(Weights(Blocks(p, s, user), RunPrice(U, a, b, c)))
             = IF user \in U
               THEN a * ProductFlops(p) + b * ProductBits(p, s)
                      + c * (BlocksPerSide(p, s) * BlocksPerSide(p, s))
               ELSE 0
<1> DEFINE W == RunPrice(U, a, b, c)
           runs == Blocks(p, s, user)
           x == FullRun(p, s, user)
           y == EdgeRun(p, s, user)
           z == CornerRun(p, s, user)
<1>1. /\ W \in [RunType -> Int] /\ FlopsOf(user) \in [RunType -> Int]
      /\ BitsOf(user) \in [RunType -> Int] /\ Counts \in [RunType -> Int]
  BY PriceType, RunFields
<1>2. x \in RunType /\ y \in RunType /\ z \in RunType
  BY <1>1, BlocksTotal
<1>3. \A V \in [RunType -> Int] : Total(Weights(runs, V))
          = V[x] + (IF HasEdge(p, s) THEN V[y] + V[z] ELSE 0)
  BY BlocksTotal
<1>4. x.task.userid = user /\ y.task.userid = user /\ z.task.userid = user
  BY SliceRuns
<1>5. /\ Total(Weights(runs, FlopsOf(user))) = ProductFlops(p)
      /\ Total(Weights(runs, BitsOf(user))) = ProductBits(p, s)
      /\ Total(Weights(runs, Counts)) = BlocksPerSide(p, s) * BlocksPerSide(p, s)
  BY SliceFlops, SliceBits, SliceBlocks DEF ProductFlops, ProductBits
<1> HIDE DEF runs, x, y, z
<1>6. CASE user \notin U
  <2>1. \A run \in RunType : run.task.userid = user => W[run] = 0
    <3> SUFFICES ASSUME NEW run \in RunType, run.task.userid = user
                 PROVE  run.count * TaskPrice(U, a, b, c)[run.task] = 0
      BY DEF RunPrice
    <3>1. run.task \in TaskType /\ run.count \in Int
      BY DEF RunType, TaskType
    <3>2. TaskPrice(U, a, b, c)[run.task] = 0
      BY <1>6, <3>1 DEF TaskPrice
    <3> QED
      BY <3>1, <3>2
  <2>2. W[x] = 0 /\ W[y] = 0 /\ W[z] = 0
    BY <1>2, <1>4, <2>1
  <2> HIDE DEF W
  <2> QED
    BY <1>1, <1>3, <1>6, <2>2 DEF runs, W
<1>7. CASE user \in U
  <2> DEFINE F == FlopsOf(user)
             B == BitsOf(user)
             N == Counts
  <2>1. ASSUME NEW run \in RunType, run.task.userid = user
        PROVE  W[run] = a * F[run] + b * B[run] + c * N[run]
    <3>1. /\ run.task \in TaskType /\ run.count \in Int
          /\ run.task.complexity \in Int /\ run.task.bits_to_transfer \in Int
      BY DEF RunType, TaskType
    <3>2. /\ F[run] = run.count * run.task.complexity
          /\ B[run] = run.count * run.task.bits_to_transfer
          /\ N[run] = run.count
      BY <2>1 DEF FlopsOf, BitsOf, Counts
    <3>3. W[run] = run.count * (a * run.task.complexity + b * run.task.bits_to_transfer + c)
      BY <1>7, <2>1, <3>1 DEF RunPrice, TaskPrice
    <3> DEFINE n == run.count
               k == run.task.complexity
               l == run.task.bits_to_transfer
    <3>4. n \in Int /\ k \in Int /\ l \in Int
      BY <3>1
    <3> HIDE DEF W, F, B, N, n, k, l
    <3>5. n * (a * k + b * l + c) = a * (n * k) + b * (n * l) + c * n
      BY <3>4
    <3> QED
      BY <3>2, <3>3, <3>5, Zenon DEF n, k, l
  <2>2. /\ W[x] = a * F[x] + b * B[x] + c * N[x]
        /\ W[y] = a * F[y] + b * B[y] + c * N[y]
        /\ W[z] = a * F[z] + b * B[z] + c * N[z]
    BY <1>2, <1>4, <2>1
  <2> DEFINE e == IF HasEdge(p, s) THEN 1 ELSE 0
  <2>3. /\ Total(Weights(runs, W)) = W[x] + e * (W[y] + W[z])
        /\ Total(Weights(runs, F)) = F[x] + e * (F[y] + F[z])
        /\ Total(Weights(runs, B)) = B[x] + e * (B[y] + B[z])
        /\ Total(Weights(runs, N)) = N[x] + e * (N[y] + N[z])
    <3>1. \A k, l \in Int : k + l \in Int /\ 1 * (k + l) = k + l /\ 0 * (k + l) = 0
      OBVIOUS
    <3>2. ASSUME NEW V \in [RunType -> Int]
          PROVE  Total(Weights(runs, V)) = V[x] + e * (V[y] + V[z])
      <4>1. V[y] \in Int /\ V[z] \in Int
        BY <1>2
      <4> QED
        BY <1>3, <3>1, <4>1
    <3> QED
      BY <1>1, <3>2
  <2>4. /\ F[x] \in Int /\ F[y] \in Int /\ F[z] \in Int
        /\ B[x] \in Int /\ B[y] \in Int /\ B[z] \in Int
        /\ N[x] \in Int /\ N[y] \in Int /\ N[z] \in Int
        /\ e \in Int
    BY <1>1, <1>2
  <2> HIDE DEF W, F, B, N, e
  <2>5. Total(Weights(runs, W))
          = a * Total(Weights(runs, F)) + b * Total(Weights(runs, B))
              + c * Total(Weights(runs, N))
    <3>1. \A f1, f2, f3, b1, b2, b3, n1, n2, n3 \in Int :
              (a * f1 + b * b1 + c * n1)
                + e * ((a * f2 + b * b2 + c * n2) + (a * f3 + b * b3 + c * n3))
              = a * (f1 + e * (f2 + f3)) + b * (b1 + e * (b2 + b3))
                  + c * (n1 + e * (n2 + n3))
      BY <2>4
    <3> QED
      BY <2>2, <2>3, <2>4, <3>1
  <2> QED
    BY <1>5, <1>7, <2>5 DEF runs, W, F, B, N
<1> QED
  BY <1>6, <1>7

LEMMA JobPrice ==
    ASSUME NEW j \in Job, NoSliceIsZero(j),
           \A k \in DOMAIN j.slice_sizes : Fits(j.problem_size, j.slice_sizes[k]),
           NEW U, NEW a \in Int, NEW b \in Int, NEW c \in Int
    PROVE  /\ Expanded(Inserted(j)) \in Seq(TaskType)
           /\ JobPrices(j, U, a, b, c) \in Seq(Int)
           /\ Total(Weights(Expanded(Inserted(j)), TaskPrice(U, a, b, c)))
                = Total(JobPrices(j, U, a, b, c))
<1> DEFINE p == j.problem_size
           sizes == j.slice_sizes
           W == RunPrice(U, a, b, c)
<1>1. W \in [RunType -> Int]
  BY PriceType
<1>2. /\ Inserted(j) \in Seq(RunType)
      /\ Total(Weights(Inserted(j), W)) = Total(SliceTotals(j, W))
      /\ SliceTotals(j, W) \in Seq(Int)
  BY <1>1, InsertedTotal
<1>3. /\ p \in Nat /\ DOMAIN sizes = 1..Len(sizes)
      /\ \A k \in 1..Len(sizes) : sizes[k] \in Nat /\ sizes[k] > 0 /\ UserOf(k) \in Nat
  BY JobType
<1>4. \A k \in DOMAIN sizes :
          Total(Weights(Blocks(p, sizes[k], UserOf(k)), W)) = JobPrices(j, U, a, b, c)[k]
  <2> SUFFICES ASSUME NEW k \in DOMAIN sizes
               PROVE  Total(Weights(Blocks(p, sizes[k], UserOf(k)), W))
                        = JobPrices(j, U, a, b, c)[k]
    OBVIOUS
  <2> DEFINE s == sizes[k]
             user == UserOf(k)
  <2>1. s \in Nat /\ s > 0 /\ user \in Nat /\ Fits(p, s)
    BY <1>3
  <2>2. JobPrices(j, U, a, b, c)[k]
          = IF user \in U
            THEN a * ProductFlops(p) + b * ProductBits(p, s)
                   + c * (BlocksPerSide(p, s) * BlocksPerSide(p, s))
            ELSE 0
    BY DEF JobPrices
  <2> HIDE DEF p, s, user
  <2>3. Total(Weights(Blocks(p, s, user), W))
          = IF user \in U
            THEN a * ProductFlops(p) + b * ProductBits(p, s)
                   + c * (BlocksPerSide(p, s) * BlocksPerSide(p, s))
            ELSE 0
    BY <1>3, <2>1, SlicePrice
  <2> QED
    BY <2>2, <2>3 DEF s, user
<1>5. SliceTotals(j, W) = JobPrices(j, U, a, b, c)
  BY <1>4 DEF SliceTotals, JobPrices
<1>6. Expanded(Inserted(j)) \in Seq(TaskType)
  BY <1>2, ExpandedPrice
<1>7. Total(Weights(Expanded(Inserted(j)), TaskPrice(U, a, b, c)))
        = Total(Weights(Inserted(j), W))
  BY <1>2, ExpandedPrice
<1> QED
  BY <1>2, <1>5, <1>6, <1>7
===============================================================================
