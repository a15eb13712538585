--------------------------- MODULE DataInduction ---------------------------
(***************************************************************************)
(* Induction over data, for the proofs about walks, searches and lists.    *)
(*                                                                         *)
(* The induction theorems of the library take the predicate to be proved   *)
(* as an operator, which no prover at hand can instantiate.  The lemmas of *)
(* this module take a set or a function instead.  They rest on the library *)
(* fact that inclusion is well founded on the subsets of a finite set.     *)
(***************************************************************************)
EXTENDS Integers, Sequences, FiniteSetTheorems, TLAPS

\* Every set of natural numbers that is not empty has a least element.  (The
\* sets 0 .. m are ordered by inclusion as the numbers m are, and inclusion is
\* well founded among the subsets of a finite set.)
LEMMA Least ==
  ASSUME NEW T \in SUBSET Nat, T # {}
  PROVE  \E m \in T : \A y \in T : m <= y
<1>1. PICK t \in T : TRUE
  OBVIOUS
<1> DEFINE U == 0 .. t
           D == {0 .. m : m \in T \cap U}
           R == StrictSubsetOrdering(U)
<1>2. IsFiniteSet(U)
  BY FS_Interval
<1>3. IsWellFoundedOn(R, SUBSET U)
  <2>1. IsWellFoundedOn(R, FiniteSubsetsOf(U))
    BY FS_StrictSubsetOrderingWellFounded
  <2>2. FiniteSubsetsOf(U) = SUBSET U
    BY <1>2, FS_FiniteSubsetsOfFinite
  <2> QED BY <2>1, <2>2
<1>4. D \subseteq SUBSET U /\ D # {}
  <2>1. t \in T \cap U
    BY <1>1
  <2>2. \A m \in T \cap U : (0 .. m) \subseteq U
    BY <1>1
  <2> QED BY <2>1, <2>2
<1>5. \E X \in D : \A Y \in D : ~(<<Y, X>> \in R)
  <2> HIDE DEF R, D, U
  <2> QED BY <1>3, <1>4, WFMin
<1>6. PICK X \in D : \A Y \in D : ~(<<Y, X>> \in R)
  BY <1>5
<1>7. PICK m \in T \cap U : X = 0 .. m
  BY <1>6
<1>8. ASSUME NEW y \in T, y < m  PROVE FALSE
  <2>1. y \in T \cap U /\ m \in Nat /\ y \in Nat
    BY <1>7, <1>8, <1>1
  <2>2. (0 .. y) \in D
    BY <2>1
  <2>3. (0 .. y) \subseteq (0 .. m) /\ (0 .. y) # (0 .. m)
    <3>1. m \in 0 .. m /\ m \notin 0 .. y
      BY <2>1, <1>8
    <3> QED BY <3>1, <2>1, <1>8
  <2>4. (0 .. y) \in SUBSET U /\ (0 .. m) \in SUBSET U
    BY <2>2, <1>4, <1>7, <1>6
  <2>5. <<0 .. y, 0 .. m>> \in R
    BY <2>3, <2>4 DEF StrictSubsetOrdering
  <2> QED BY <2>5, <2>2, <1>6, <1>7
<1> QED BY <1>7, <1>8

\* Induction over the natural numbers, stated of a set.
LEMMA NatInduct ==
  ASSUME NEW S, 0 \in S, \A n \in Nat : n \in S => n + 1 \in S
  PROVE  Nat \subseteq S
<1> SUFFICES ASSUME Nat \ S # {} PROVE FALSE
  OBVIOUS
<1>1. PICK m \in Nat \ S : \A y \in Nat \ S : m <= y
  BY Least
<1>2. m # 0 /\ m - 1 \in Nat /\ m - 1 \in S
  BY <1>1
<1> QED BY <1>1, <1>2

\* The function f starts with x0 and goes on from f[n] to g[n, f[n]].
IsRecursion(f, S, x0, g) ==
  f \in [Nat -> S] /\ f[0] = x0 /\ \A n \in Nat : f[n + 1] = g[<<n, f[n]>>]

\* Primitive recursion: there is such a function.
LEMMA Recursion ==
  ASSUME NEW S, NEW x0 \in S, NEW g \in [Nat \X S -> S]
  PROVE  \E f : IsRecursion(f, S, x0, g)
<1> DEFINE OK(h, k) == h[0] = x0 /\ \A n \in 0 .. k - 1 : h[n + 1] = g[<<n, h[n]>>]
           G == {k \in Nat : \E h \in [0 .. k -> S] : OK(h, k)}
<1>1. Nat \subseteq G
  <2>1. 0 \in G
    <3>1. [i \in 0 .. 0 |-> x0] \in [0 .. 0 -> S] /\ OK([i \in 0 .. 0 |-> x0], 0)
      OBVIOUS
    <3> QED BY <3>1
  <2>2. ASSUME NEW k \in Nat, k \in G PROVE k + 1 \in G
    <3>1. PICK h \in [0 .. k -> S] : OK(h, k)
      BY <2>2
    <3> DEFINE j == [i \in 0 .. k + 1 |-> IF i = k + 1 THEN g[<<k, h[k]>>] ELSE h[i]]
    <3>2. j \in [0 .. k + 1 -> S]
      <4>1. h[k] \in S
        OBVIOUS
      <4>2. g[<<k, h[k]>>] \in S
        BY <4>1
      <4>3. \A i \in 0 .. k + 1 : i # k + 1 => h[i] \in S
        OBVIOUS
      <4> QED BY <4>2, <4>3
    <3>3. j[0] = x0 /\ j[k + 1] = g[<<k, h[k]>>] /\ \A i \in 0 .. k : j[i] = h[i]
      BY <3>1
    <3>4. \A n \in 0 .. (k + 1) - 1 : j[n + 1] = g[<<n, j[n]>>]
      <4> SUFFICES ASSUME NEW n \in 0 .. (k + 1) - 1 PROVE j[n + 1] = g[<<n, j[n]>>]
        OBVIOUS
      <4> HIDE DEF j
      <4>1. CASE n = k
        BY <4>1, <3>3
      <4>2. CASE n \in 0 .. k - 1
        BY <4>2, <3>3, <3>1
      <4> QED BY <4>1, <4>2
    <3> HIDE DEF j
    <3>5. OK(j, k + 1)
      BY <3>3, <3>4
    <3>6. \E e \in [0 .. k + 1 -> S] : OK(e, k + 1)
      BY <3>2, <3>5
    <3> QED BY <3>6
  <2> QED BY <2>1, <2>2, NatInduct
<1> DEFINE H == [k \in Nat |-> CHOOSE h \in [0 .. k -> S] : OK(h, k)]
<1>2. \A k \in Nat : H[k] \in [0 .. k -> S] /\ OK(H[k], k)
  BY <1>1
<1> HIDE DEF H
<1>3. ASSUME NEW k \in Nat, NEW l \in Nat, k <= l
      PROVE \A i \in 0 .. k : H[k][i] = H[l][i]
  <2> DEFINE A == {i \in Nat : i <= k => H[k][i] = H[l][i]}
  <2>1. 0 \in A
    BY <1>2
  <2>2. ASSUME NEW i \in Nat, i \in A PROVE i + 1 \in A
    <3> SUFFICES ASSUME i + 1 <= k PROVE H[k][i + 1] = H[l][i + 1]
      OBVIOUS
    <3>1. i \in 0 .. k - 1 /\ i \in 0 .. l - 1 /\ H[k][i] = H[l][i]
      BY <2>2, <1>3
    <3>2. H[k][i + 1] = g[<< i, H[k][i] >>]
      BY <3>1, <1>2
    <3>3. H[l][i + 1] = g[<< i, H[l][i] >>]
      BY <3>1, <1>2
    <3> QED BY <3>1, <3>2, <3>3
  <2> HIDE DEF A
  <2>3. Nat \subseteq A
    BY <2>1, <2>2, NatInduct
  <2> QED BY <2>3 DEF A
<1> DEFINE F == [n \in Nat |-> H[n][n]]
<1>4. F \in [Nat -> S]
  BY <1>2
<1>5. F[0] = x0
  BY <1>2
<1>6. ASSUME NEW n \in Nat PROVE F[n + 1] = g[<<n, F[n]>>]
  <2>1. H[n][n] = H[n + 1][n]
    BY <1>3
  <2>2. n \in 0 .. (n + 1) - 1
    OBVIOUS
  <2>3. H[n + 1][n + 1] = g[<<n, H[n + 1][n]>>]
    BY <2>2, <1>2
  <2> QED BY <2>1, <2>3
<1> QED BY <1>4, <1>5, <1>6 DEF IsRecursion

\* The same over an interval, in the form of a recursive function.
IsRecursionUpTo(f, c, S, x0, g) ==
  /\ f \in [0 .. c -> S]
  /\ f = [i \in 0 .. c |-> IF i = 0 THEN x0 ELSE g[<< i - 1, f[i - 1] >>]]

\* There is such a function.
LEMMA RecursionUpTo ==
  ASSUME NEW S, NEW x0 \in S, NEW g \in [Nat \X S -> S], NEW c \in Nat
  PROVE  \E f : IsRecursionUpTo(f, c, S, x0, g)
<1>1. PICK r : IsRecursion(r, S, x0, g)
  BY Recursion
<1> DEFINE f == [i \in 0 .. c |-> r[i]]
<1>2. f \in [0 .. c -> S]
  BY <1>1 DEF IsRecursion
<1>3. ASSUME NEW i \in 0 .. c
      PROVE  f[i] = IF i = 0 THEN x0 ELSE g[<< i - 1, f[i - 1] >>]
  <2>1. CASE i = 0
    BY <2>1, <1>1 DEF IsRecursion
  <2>2. CASE i # 0
    <3>1. i - 1 \in Nat /\ i - 1 \in 0 .. c /\ (i - 1) + 1 = i
      BY <2>2
    <3>2. r[i] = g[<< i - 1, r[i - 1] >>]
      BY <3>1, <1>1 DEF IsRecursion
    <3> QED BY <3>1, <3>2, <2>2
  <2> QED BY <2>1, <2>2
<1>4. f = [i \in 0 .. c |-> IF i = 0 THEN x0 ELSE g[<< i - 1, f[i - 1] >>]]
  <2> HIDE DEF f
  <2> QED BY <1>2, <1>3
<1> QED BY <1>2, <1>4 DEF IsRecursionUpTo

\* Induction over an interval.
LEMMA IntervalInduct ==
  ASSUME NEW S, NEW a \in Int, NEW b \in Int,
         a \in S, \A n \in a .. b - 1 : n \in S => n + 1 \in S
  PROVE  a .. b \subseteq S
<1> DEFINE A == {n \in Nat : a + n <= b => a + n \in S}
<1>1. 0 \in A
  OBVIOUS
<1>2. ASSUME NEW n \in Nat, n \in A  PROVE n + 1 \in A
  <2> SUFFICES ASSUME a + (n + 1) <= b  PROVE a + (n + 1) \in S
    OBVIOUS
  <2>1. a + n \in a .. b - 1 /\ a + n \in S
    BY <1>2
  <2>2. (a + n) + 1 \in S
    BY <2>1
  <2> QED BY <2>2
<1> HIDE DEF A
<1>3. Nat \subseteq A
  BY <1>1, <1>2, NatInduct
<1>4. ASSUME NEW m \in a .. b  PROVE m \in S
  <2>1. m - a \in Nat /\ a + (m - a) = m /\ m <= b
    OBVIOUS
  <2>2. m - a \in A
    BY <2>1, <1>3
  <2> QED BY <2>1, <2>2 DEF A
<1> QED BY <1>4

\* A chain of growing subsets of a finite set, each determined by the one
\* before, has reached its limit after as many steps as the set has elements.
LEMMA Saturates ==
  ASSUME NEW N, IsFiniteSet(N), NEW u \in [Nat -> SUBSET N],
         \A k \in Nat : u[k] \subseteq u[k + 1],
         \A k \in Nat : u[k + 1] = u[k] => u[k + 2] = u[k + 1]
  PROVE  \A k \in Nat : u[k] \subseteq u[Cardinality(N)]
<1> DEFINE c == Cardinality(N)
           Stable(k) == \E j \in Nat : j < k /\ u[j + 1] = u[j]
<1>0. c \in Nat
  BY FS_CardinalityType
<1>1. \A k \in Nat : IsFiniteSet(u[k]) /\ Cardinality(u[k]) \in Nat /\ Cardinality(u[k]) <= c
  BY FS_Subset, FS_CardinalityType
<1>2. \A k \in Nat : Cardinality(u[k]) >= k \/ Stable(k)
  <2> DEFINE A == {k \in Nat : Cardinality(u[k]) >= k \/ Stable(k)}
  <2>1. 0 \in A
    BY <1>1
  <2>2. ASSUME NEW k \in Nat, k \in A  PROVE k + 1 \in A
    <3>1. CASE u[k + 1] = u[k]
      BY <3>1
    <3>2. CASE Stable(k)
      BY <3>2
    <3>3. CASE u[k + 1] # u[k] /\ Cardinality(u[k]) >= k
      <4>1. u[k] \in SUBSET u[k + 1] /\ IsFiniteSet(u[k + 1])
        BY <1>1
      <4>2. Cardinality(u[k]) <= Cardinality(u[k + 1]) /\ Cardinality(u[k + 1]) # Cardinality(u[k])
        BY <4>1, <3>3, FS_Subset
      <4>3. Cardinality(u[k]) \in Nat /\ Cardinality(u[k + 1]) \in Nat
        BY <1>1
      <4> QED BY <4>2, <4>3, <3>3
    <3> QED BY <2>2, <3>1, <3>2, <3>3
  <2> HIDE DEF A
  <2>3. Nat \subseteq A
    BY <2>1, <2>2, NatInduct
  <2> QED BY <2>3 DEF A
<1>3. PICK j \in Nat : j <= c /\ u[j + 1] = u[j]
  <2>1. Stable(c + 1)
    BY <1>0, <1>1, <1>2
  <2> QED BY <2>1, <1>0
<1>4. \A k \in Nat : u[j + k] = u[j] /\ u[j + k + 1] = u[j]
  <2> DEFINE A == {k \in Nat : u[j + k] = u[j] /\ u[j + k + 1] = u[j]}
  <2>1. 0 \in A
    BY <1>3
  <2>2. ASSUME NEW k \in Nat, k \in A  PROVE k + 1 \in A
    <3>1. j + k \in Nat /\ j + (k + 1) = (j + k) + 1 /\ j + (k + 1) + 1 = (j + k) + 2
      OBVIOUS
    <3>2. u[(j + k) + 1] = u[j + k]
      BY <2>2
    <3>3. u[(j + k) + 2] = u[(j + k) + 1]
      BY <3>1, <3>2
    <3> QED BY <2>2, <3>1, <3>3
  <2> HIDE DEF A
  <2>3. Nat \subseteq A
    BY <2>1, <2>2, NatInduct
  <2> QED BY <2>3 DEF A
<1>5. \A k \in Nat : u[k] \subseteq u[k + 1]
  OBVIOUS
<1>6. \A k \in Nat : \A l \in Nat : u[k] \subseteq u[k + l]
  <2> SUFFICES ASSUME NEW k \in Nat  PROVE \A l \in Nat : u[k] \subseteq u[k + l]
    OBVIOUS
  <2> DEFINE A == {l \in Nat : u[k] \subseteq u[k + l]}
  <2>1. 0 \in A
    OBVIOUS
  <2>2. ASSUME NEW l \in Nat, l \in A  PROVE l + 1 \in A
    <3>1. k + l \in Nat /\ k + (l + 1) = (k + l) + 1
      OBVIOUS
    <3>2. u[k + l] \subseteq u[(k + l) + 1]
      BY <3>1, <1>5
    <3> QED BY <2>2, <3>1, <3>2
  <2> HIDE DEF A
  <2>3. Nat \subseteq A
    BY <2>1, <2>2, NatInduct
  <2> QED BY <2>3 DEF A
<1>7. ASSUME NEW k \in Nat  PROVE u[k] \subseteq u[c]
  <2>1. CASE k <= c
    <3>1. c - k \in Nat /\ k + (c - k) = c
      BY <2>1, <1>0
    <3> QED BY <3>1, <1>6
  <2>2. CASE c < k
    <3>1. k - j \in Nat /\ j + (k - j) = k /\ c - j \in Nat /\ j + (c - j) = c
      BY <2>2, <1>0, <1>3
    <3>2. u[j + (k - j)] = u[j] /\ u[j + (c - j)] = u[j]
      BY <3>1, <1>4
    <3> QED BY <3>1, <3>2
  <2> QED BY <2>1, <2>2, <1>0
<1> QED BY <1>7

\* A list without repetition is no longer than there are elements for it.
LEMMA NoRepetition ==
  ASSUME NEW N, IsFiniteSet(N), NEW w \in Seq(N),
         \A i, j \in 1 .. Len(w) : w[i] = w[j] => i = j
  PROVE  Len(w) <= Cardinality(N)
<1>1. Len(w) \in Nat /\ Cardinality(N) \in Nat /\ w \in [1 .. Len(w) -> N]
  BY FS_CardinalityType
<1>2. IsFiniteSet(1 .. Len(w)) /\ Cardinality(1 .. Len(w)) = Len(w)
  <2>1. 1 \in Int /\ Len(w) \in Int
    BY <1>1
  <2> DEFINE l == Len(w)
  <2> HIDE DEF l
  <2>2. l \in Nat => IsFiniteSet(1 .. l) /\ Cardinality(1 .. l) = l
    BY FS_Interval
  <2> QED BY <2>2, <1>1 DEF l
<1>3. CASE Cardinality(N) < Len(w)
  <2> DEFINE S == 1 .. Len(w)
  <2>1. \E x, y \in S : x # y /\ w[x] = w[y]
    <3>1. IsFiniteSet(S) /\ Cardinality(N) < Cardinality(S) /\ w \in [S -> N]
      BY <1>1, <1>2, <1>3
    <3> HIDE DEF S
    <3> QED BY <3>1, FS_PigeonHole
  <2> QED BY <2>1
<1> QED BY <1>1, <1>3

-----------------------------------------------------------------------------
(* Sums over a finite set, in the form MapThenSumSet gives them *)

IsSum(it, N, v) ==
  it = [s \in SUBSET N |->
          IF s = {} THEN 0
          ELSE v[CHOOSE x \in s : TRUE] + it[s \ {CHOOSE x \in s : TRUE}]]

\* There is such a function.
LEMMA SumExists ==
  ASSUME NEW N, IsFiniteSet(N), NEW v \in [N -> Int]
  PROVE  \E it : IsSum(it, N, v)
<1> DEFINE S == [SUBSET N -> Int]
           zero == [s \in SUBSET N |-> 0]
           one(s) == CHOOSE x \in s : TRUE
           next(it) == [s \in SUBSET N |-> IF s = {} THEN 0 ELSE v[one(s)] + it[s \ {one(s)}]]
           g == [x \in Nat \X S |-> next(x[2])]
<1>1. \A s \in SUBSET N : s # {} => one(s) \in s /\ one(s) \in N /\ s \ {one(s)} \in SUBSET N
  OBVIOUS
<1> HIDE DEF one
<1>2. ASSUME NEW it \in S  PROVE next(it) \in S
  <2>1. \A s \in SUBSET N : s # {} => v[one(s)] \in Int /\ it[s \ {one(s)}] \in Int
    BY <1>1
  <2> QED BY <2>1
<1>3. zero \in S /\ g \in [Nat \X S -> S]
  <2> HIDE DEF next
  <2>1. zero \in S
    OBVIOUS
  <2> HIDE DEF S
  <2> QED BY <2>1, <1>2
<1>4. \A n \in Nat, it \in S : g[<<n, it>>] = next(it)
  <2> HIDE DEF next, S
  <2> QED OBVIOUS
<1>5. PICK h : IsRecursion(h, S, zero, g)
  <2> HIDE DEF S, zero, g
  <2> QED BY <1>3, Recursion
<1>6. \A n \in Nat : h[n] \in S /\ h[n + 1] = next(h[n])
  <2> HIDE DEF S, next, g
  <2> QED BY <1>4, <1>5 DEF IsRecursion
<1> HIDE DEF g, zero
<1> DEFINE it == [s \in SUBSET N |-> h[Cardinality(s)][s]]
<1>7. ASSUME NEW s \in SUBSET N
      PROVE  it[s] = IF s = {} THEN 0 ELSE v[one(s)] + it[s \ {one(s)}]
  <2>1. CASE s = {}
    <3>1. Cardinality(s) = 0
      BY <2>1, FS_EmptySet
    <3>2. h[0] = zero
      BY <1>5 DEF IsRecursion
    <3> QED BY <2>1, <3>1, <3>2 DEF zero
  <2>2. CASE s # {}
    <3> DEFINE r == s \ {one(s)}
    <3>1. one(s) \in s /\ r \in SUBSET N /\ IsFiniteSet(s)
      BY <1>1, <2>2, FS_Subset
    <3>2. Cardinality(r) = Cardinality(s) - 1 /\ Cardinality(r) \in Nat /\ Cardinality(s) \in Nat
      BY <3>1, FS_RemoveElement, FS_CardinalityType
    <3>3. Cardinality(s) = Cardinality(r) + 1
      BY <3>2
    <3>4. h[Cardinality(s)] = next(h[Cardinality(r)])
      BY <3>2, <3>3, <1>6
    <3>5. next(h[Cardinality(r)])[s] = v[one(s)] + h[Cardinality(r)][r]
      BY <2>2
    <3>6. it[r] = h[Cardinality(r)][r]
      BY <3>1
    <3> QED BY <2>2, <3>4, <3>5, <3>6
  <2> QED BY <2>1, <2>2
<1>8. it = [s \in SUBSET N |-> IF s = {} THEN 0 ELSE v[one(s)] + it[s \ {one(s)}]]
  BY <1>7
<1> HIDE DEF it
<1>9. IsSum(it, N, v)
  BY <1>8 DEF IsSum, one
<1> QED BY <1>9

\* A sum is at least the number of the terms that are not zero; it is their
\* number when no term is greater than one.
LEMMA SumCounts ==
  ASSUME NEW N, IsFiniteSet(N), NEW v \in [N -> Nat], NEW it, IsSum(it, N, v)
  PROVE  /\ it[N] \in Nat
         /\ it[N] >= Cardinality({x \in N : v[x] # 0})
         /\ (\A x \in N : v[x] <= 1) => it[N] = Cardinality({x \in N : v[x] # 0})
<1> DEFINE one(s) == CHOOSE x \in s : TRUE
           C(s) == Cardinality({x \in s : v[x] # 0})
           Good(s) == /\ it[s] \in Nat
                      /\ it[s] >= C(s)
                      /\ (\A x \in N : v[x] <= 1) => it[s] = C(s)
           A == {k \in Nat : \A s \in SUBSET N : Cardinality(s) = k => Good(s)}
<1>1. \A s \in SUBSET N : s # {} => one(s) \in s /\ one(s) \in N /\ s \ {one(s)} \in SUBSET N
  OBVIOUS
<1>2. \A s \in SUBSET N : it[s] = IF s = {} THEN 0 ELSE v[one(s)] + it[s \ {one(s)}]
  BY DEF IsSum
<1> HIDE DEF one
<1>3. 0 \in A
  <2> SUFFICES ASSUME NEW s \in SUBSET N, Cardinality(s) = 0  PROVE Good(s)
    OBVIOUS
  <2>1. s = {}
    BY FS_Subset, FS_EmptySet
  <2>2. {x \in s : v[x] # 0} = {}
    BY <2>1
  <2>3. C(s) = 0
    BY <2>2, FS_EmptySet
  <2> HIDE DEF C
  <2> QED BY <2>1, <2>3, <1>2
<1>4. ASSUME NEW k \in Nat, k \in A  PROVE k + 1 \in A
  <2> SUFFICES ASSUME NEW s \in SUBSET N, Cardinality(s) = k + 1  PROVE Good(s)
    OBVIOUS
  <2> DEFINE r == s \ {one(s)}
             x0 == one(s)
  <2>1. s # {} /\ IsFiniteSet(s)
    BY FS_Subset, FS_EmptySet
  <2>2. x0 \in s /\ x0 \in N /\ r \in SUBSET N
    BY <2>1, <1>1
  <2>3. Cardinality(r) = k
    <3>1. Cardinality(r) = Cardinality(s) - 1
      BY <2>1, <2>2, FS_RemoveElement
    <3> QED BY <3>1
  <2>4. Good(r)
    BY <2>2, <2>3, <1>4
  <2>5. it[s] = v[x0] + it[r]
    BY <2>1, <1>2
  <2>6. v[x0] \in Nat /\ C(r) \in Nat /\ C(s) = IF v[x0] = 0 THEN C(r) ELSE C(r) + 1
    <3>1. IsFiniteSet({x \in r : v[x] # 0})
      <4>1. IsFiniteSet(r) /\ {x \in r : v[x] # 0} \in SUBSET r
        BY <2>1, FS_Subset
      <4> QED BY <4>1, FS_Subset
    <3>2. CASE v[x0] = 0
      <4>1. {x \in s : v[x] # 0} = {x \in r : v[x] # 0}
        BY <3>2
      <4>2. C(s) = C(r)
        BY <4>1
      <4>3. C(r) \in Nat
        BY <3>1, FS_CardinalityType
      <4> HIDE DEF C
      <4> QED BY <4>2, <4>3, <3>2, <2>2
    <3>3. CASE v[x0] # 0
      <4>1. {x \in s : v[x] # 0} = {x \in r : v[x] # 0} \cup {x0} /\ x0 \notin {x \in r : v[x] # 0}
        BY <3>3, <2>2
      <4>2. C(s) = C(r) + 1
        BY <4>1, <3>1, FS_AddElement
      <4>3. C(r) \in Nat
        BY <3>1, FS_CardinalityType
      <4> HIDE DEF C
      <4> QED BY <4>2, <4>3, <3>3, <2>2
    <3> QED BY <3>2, <3>3
  <2> HIDE DEF C, r, x0
  <2>7. it[s] \in Nat /\ it[s] >= C(s)
    <3>1. it[r] \in Nat /\ it[r] >= C(r)
      BY <2>4
    <3>2. v[x0] \in Nat /\ C(r) \in Nat /\ it[s] = v[x0] + it[r]
      BY <2>5, <2>6
    <3>3. C(s) = IF v[x0] = 0 THEN C(r) ELSE C(r) + 1
      BY <2>6
    <3> HIDE DEF Good
    <3> QED BY <3>1, <3>2, <3>3
  <2>8. ASSUME \A x \in N : v[x] <= 1  PROVE it[s] = C(s)
    <3>1. v[x0] <= 1 /\ it[r] = C(r)
      BY <2>2, <2>4, <2>8
    <3> QED BY <3>1, <2>5, <2>6
  <2> QED BY <2>7, <2>8
<1> HIDE DEF A, Good
<1>5. Nat \subseteq A
  BY <1>3, <1>4, NatInduct
<1>6. Cardinality(N) \in A /\ N \in SUBSET N
  BY <1>5, FS_CardinalityType
<1>7. Good(N)
  BY <1>6 DEF A
<1> QED BY <1>7 DEF Good

\* A sum takes in its terms in any order.
LEMMA SumPick ==
  ASSUME NEW N, IsFiniteSet(N), NEW v \in [N -> Int], NEW it, IsSum(it, N, v)
  PROVE  \A s \in SUBSET N : /\ it[s] \in Int
                             /\ s = {} => it[s] = 0
                             /\ \A x \in s : it[s] = v[x] + it[s \ {x}]
<1> DEFINE one(s) == CHOOSE x \in s : TRUE
           Good(s) == /\ it[s] \in Int
                      /\ s = {} => it[s] = 0
                      /\ \A x \in s : it[s] = v[x] + it[s \ {x}]
           A == {k \in Nat : \A s \in SUBSET N : Cardinality(s) <= k => Good(s)}
<1>1. \A s \in SUBSET N : s # {} => one(s) \in s
  OBVIOUS
<1>2. \A s \in SUBSET N : it[s] = IF s = {} THEN 0 ELSE v[one(s)] + it[s \ {one(s)}]
  BY DEF IsSum
<1> HIDE DEF one
<1>3. \A s \in SUBSET N : /\ IsFiniteSet(s) /\ Cardinality(s) \in Nat
                          /\ \A x \in s : Cardinality(s \ {x}) = Cardinality(s) - 1
  BY FS_Subset, FS_CardinalityType, FS_RemoveElement
<1>4. 0 \in A
  <2> SUFFICES ASSUME NEW s \in SUBSET N, Cardinality(s) <= 0  PROVE Good(s)
    OBVIOUS
  <2>1. s = {}
    BY <1>3, FS_EmptySet
  <2>2. it[s] = 0
    BY <2>1, <1>2
  <2> QED BY <2>1, <2>2
<1>5. ASSUME NEW k \in Nat, k \in A  PROVE k + 1 \in A
  <2> SUFFICES ASSUME NEW s \in SUBSET N, Cardinality(s) <= k + 1, s # {}  PROVE Good(s)
    <3>1. Good({})
      BY <1>2
    <3> HIDE DEF Good
    <3> QED BY <3>1
  <2>1. \A r \in SUBSET N : Cardinality(r) <= k => Good(r)
    BY <1>5
  <2> DEFINE y == one(s)
  <2>2. y \in s /\ it[s] = v[y] + it[s \ {y}]
    BY <1>1, <1>2
  <2> HIDE DEF y
  <2>3. \A x \in s : s \ {x} \in SUBSET N /\ Cardinality(s \ {x}) <= k /\ v[x] \in Int
    BY <1>3
  <2>4. \A x \in s : Good(s \ {x})
    <3> HIDE DEF Good
    <3> QED BY <2>1, <2>3
  <2>5. it[s] \in Int
    BY <2>2, <2>3, <2>4
  <2>6. ASSUME NEW x \in s, x # y  PROVE it[s] = v[x] + it[s \ {x}]
    <3> DEFINE r == (s \ {x}) \ {y}
    <3>1. (s \ {y}) \ {x} = r /\ x \in s \ {y} /\ y \in s \ {x} /\ r \in SUBSET N
      BY <2>2, <2>6
    <3>2. it[s \ {y}] = v[x] + it[r] /\ it[s \ {x}] = v[y] + it[r]
      BY <2>2, <2>4, <3>1
    <3>3. it[r] \in Int
      <4>1. Cardinality(r) <= k
        <5>1. Cardinality(r) = Cardinality(s \ {x}) - 1 /\ Cardinality(s \ {x}) \in Nat
          BY <1>3, <2>3, <3>1
        <5> QED BY <5>1, <2>3
      <4> QED BY <4>1, <3>1, <2>1
    <3> QED BY <2>2, <2>3, <3>2, <3>3
  <2> QED BY <2>2, <2>5, <2>6
<1> HIDE DEF A, Good
<1>6. Nat \subseteq A
  BY <1>4, <1>5, NatInduct
<1>7. ASSUME NEW s \in SUBSET N  PROVE Good(s)
  <2>1. Cardinality(s) \in A
    BY <1>3, <1>6
  <2> QED BY <2>1 DEF A
<1> QED BY <1>7 DEF Good

\* The terms v over N add up to c.
IsTotal(c, N, v) == \E it : IsSum(it, N, v) /\ c = it[N]

\* What a total is known by: its terms can be taken in any order.
IsTally(it, c, N, v) ==
  /\ c = it[N]
  /\ \A s \in SUBSET N : /\ it[s] \in Int
                         /\ s = {} => it[s] = 0
                         /\ \A x \in s : it[s] = v[x] + it[s \ {x}]

\* A total has a tally.
LEMMA TotalPick ==
  ASSUME NEW N, IsFiniteSet(N), NEW v \in [N -> Int], NEW c, IsTotal(c, N, v)
  PROVE  \E it : IsTally(it, c, N, v)
<1>1. PICK it : IsSum(it, N, v) /\ c = it[N]
  BY DEF IsTotal
<1>2. \A s \in SUBSET N : /\ it[s] \in Int
                          /\ s = {} => it[s] = 0
                          /\ \A x \in s : it[s] = v[x] + it[s \ {x}]
  BY <1>1, SumPick
<1> QED BY <1>1, <1>2 DEF IsTally

\* The terms f over N become g: aff lists the terms that change, each of them once, and
\* d the differences.
Differs(N, f, g, J, aff, d) ==
  /\ f \in [N -> Int] /\ g \in [N -> Int] /\ d \in [J -> Int] /\ aff \in [J -> N]
  /\ \A i, j \in J : aff[i] = aff[j] => i = j
  /\ \A j \in J : d[j] = g[aff[j]] - f[aff[j]]
  /\ \A n \in N : (\A j \in J : aff[j] # n) => g[n] = f[n]

\* Changing some terms of a sum changes it by the sum of the changes.
LEMMA SumChange ==
  ASSUME NEW N, IsFiniteSet(N), NEW J, IsFiniteSet(J),
         NEW f, NEW g, NEW d, NEW aff, Differs(N, f, g, J, aff, d),
         NEW a, NEW b, NEW c, IsTotal(a, N, f), IsTotal(b, N, g), IsTotal(c, J, d)
  PROVE  a \in Int /\ c \in Int /\ b = a + c
<1> USE DEF Differs
<1>1. PICK itf, itg, itd : IsTally(itf, a, N, f) /\ IsTally(itg, b, N, g) /\ IsTally(itd, c, J, d)
  BY TotalPick
<1>2. \A s \in SUBSET N : /\ itf[s] \in Int /\ (s = {} => itf[s] = 0)
                          /\ \A x \in s : itf[s] = f[x] + itf[s \ {x}]
  BY <1>1 DEF IsTally
<1>3. \A s \in SUBSET N : /\ itg[s] \in Int /\ (s = {} => itg[s] = 0)
                          /\ \A x \in s : itg[s] = g[x] + itg[s \ {x}]
  BY <1>1 DEF IsTally
<1>4. \A s \in SUBSET J : /\ itd[s] \in Int /\ (s = {} => itd[s] = 0)
                          /\ \A x \in s : itd[s] = d[x] + itd[s \ {x}]
  BY <1>1 DEF IsTally
<1>a. a = itf[N] /\ b = itg[N] /\ c = itd[J]
  BY <1>1 DEF IsTally
<1> DEFINE at(s) == { j \in J : aff[j] \in s }
           Good(s) == itg[s] = itf[s] + itd[at(s)]
           A == {k \in Nat : \A s \in SUBSET N : Cardinality(s) = k => Good(s)}
<1>5. \A s \in SUBSET N : IsFiniteSet(s) /\ Cardinality(s) \in Nat
  BY FS_Subset, FS_CardinalityType
<1>6. 0 \in A
  <2> SUFFICES ASSUME NEW s \in SUBSET N, Cardinality(s) = 0  PROVE Good(s)
    OBVIOUS
  <2>1. s = {}
    BY <1>5, FS_EmptySet
  <2>2. at(s) = {}
    BY <2>1
  <2> QED BY <2>1, <2>2, <1>2, <1>3, <1>4
<1>7. ASSUME NEW k \in Nat, k \in A  PROVE k + 1 \in A
  <2> SUFFICES ASSUME NEW s \in SUBSET N, Cardinality(s) = k + 1  PROVE Good(s)
    OBVIOUS
  <2>1. PICK x \in s : TRUE
    BY <1>5, FS_EmptySet
  <2> DEFINE r == s \ {x}
  <2>2. r \in SUBSET N /\ Cardinality(r) = k /\ x \in N
    <3>1. Cardinality(r) = Cardinality(s) - 1
      BY <1>5, FS_RemoveElement
    <3> QED BY <3>1
  <2>3. Good(r)
    BY <2>2, <1>7
  <2>4. /\ itf[s] = f[x] + itf[r] /\ itg[s] = g[x] + itg[r]
        /\ itf[r] \in Int /\ itg[r] \in Int /\ f[x] \in Int /\ g[x] \in Int
    BY <2>2, <1>2, <1>3
  <2>5. at(s) \in SUBSET J /\ at(r) \in SUBSET J /\ itd[at(r)] \in Int
    BY <1>4
  <2>6. CASE \E j \in J : aff[j] = x
    <3>1. PICK j \in J : aff[j] = x
      BY <2>6
    <3>2. j \in at(s) /\ at(r) = at(s) \ {j}
      BY <3>1
    <3>3. itd[at(s)] = d[j] + itd[at(r)] /\ d[j] = g[x] - f[x]
      <4>1. d[j] = g[x] - f[x]
        BY <3>1
      <4> HIDE DEF at, r
      <4>2. itd[at(s)] = d[j] + itd[at(s) \ {j}]
        BY <3>2, <2>5, <1>4
      <4> QED BY <3>2, <4>1, <4>2
    <3> HIDE DEF at, r
    <3> QED BY <2>3, <2>4, <2>5, <3>3
  <2>7. CASE \A j \in J : aff[j] # x
    <3>1. at(r) = at(s)
      BY <2>7
    <3>2. g[x] = f[x]
      BY <2>2, <2>7
    <3> HIDE DEF at, r
    <3> QED BY <2>3, <2>4, <2>5, <3>1, <3>2
  <2> QED BY <2>6, <2>7
<1> HIDE DEF A
<1>8. Nat \subseteq A
  BY <1>6, <1>7, NatInduct
<1>9. Cardinality(N) \in A /\ N \in SUBSET N
  BY <1>5, <1>8
<1>10. itg[N] = itf[N] + itd[at(N)]
  BY <1>9 DEF A
<1>11. at(N) = J
  OBVIOUS
<1>12. itf[N] \in Int /\ itd[J] \in Int
  BY <1>2, <1>4
<1> HIDE DEF at
<1> QED BY <1>a, <1>10, <1>11, <1>12

\* The same terms have the same sum.
LEMMA SumSame ==
  ASSUME NEW N, IsFiniteSet(N), NEW v \in [N -> Int], NEW a, NEW b, IsTotal(a, N, v), IsTotal(b, N, v)
  PROVE  b = a
<1>1. PICK i, j : IsTally(i, a, N, v) /\ IsTally(j, b, N, v)
  BY TotalPick
<1>2. \A s \in SUBSET N : (s = {} => i[s] = 0) /\ \A x \in s : i[s] = v[x] + i[s \ {x}]
  BY <1>1 DEF IsTally
<1>3. \A s \in SUBSET N : (s = {} => j[s] = 0) /\ \A x \in s : j[s] = v[x] + j[s \ {x}]
  BY <1>1 DEF IsTally
<1> DEFINE A == {k \in Nat : \A s \in SUBSET N : Cardinality(s) = k => i[s] = j[s]}
<1>4. \A s \in SUBSET N : IsFiniteSet(s) /\ Cardinality(s) \in Nat
  BY FS_Subset, FS_CardinalityType
<1>5. 0 \in A
  BY <1>2, <1>3, <1>4, FS_EmptySet
<1>6. ASSUME NEW k \in Nat, k \in A  PROVE k + 1 \in A
  <2> SUFFICES ASSUME NEW s \in SUBSET N, Cardinality(s) = k + 1  PROVE i[s] = j[s]
    OBVIOUS
  <2>1. PICK x \in s : TRUE
    BY <1>4, FS_EmptySet
  <2>2. Cardinality(s \ {x}) = k
    <3>1. Cardinality(s \ {x}) = Cardinality(s) - 1
      BY <1>4, FS_RemoveElement
    <3> QED BY <3>1
  <2>3. i[s \ {x}] = j[s \ {x}]
    BY <2>2, <1>6
  <2> QED BY <2>1, <2>3, <1>2, <1>3
<1> HIDE DEF A
<1>7. Nat \subseteq A
  BY <1>5, <1>6, NatInduct
<1>8. Cardinality(N) \in A /\ N \in SUBSET N
  BY <1>4, <1>7
<1>9. i[N] = j[N]
  BY <1>8 DEF A
<1> QED BY <1>1, <1>9 DEF IsTally

\* A set grows by as many elements as are put in at values of their own.
LEMMA PutIn ==
  ASSUME NEW S, IsFiniteSet(S), NEW K, IsFiniteSet(K), NEW at,
         \A j, k \in K : at[j] = at[k] => j = k, \A k \in K : at[k] \notin S
  PROVE  Cardinality(S \cup { at[k] : k \in K }) = Cardinality(S) + Cardinality(K)
<1> DEFINE T == { at[k] : k \in K }
           f == [k \in K |-> at[k]]
<1>1. f \in Surjection(K, T) /\ f \in Injection(K, T)
  BY DEF Surjection, Injection, IsInjective
<1>2. S \cap T = {}
  OBVIOUS
<1> HIDE DEF T, f
<1>3. IsFiniteSet(T) /\ Cardinality(T) = Cardinality(K)
  BY <1>1, FS_Surjection
<1>4. Cardinality(S \cup T) = Cardinality(S) + Cardinality(T) - 0
  <2>1. Cardinality({}) = 0
    BY FS_EmptySet
  <2> QED BY <2>1, <1>2, <1>3, FS_Union
<1>5. Cardinality(S) \in Nat /\ Cardinality(K) \in Nat
  BY FS_CardinalityType
<1> QED BY <1>3, <1>4, <1>5 DEF T
=============================================================================
