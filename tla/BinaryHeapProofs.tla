--------------------------- MODULE BinaryHeapProofs ---------------------------
(***************************************************************************)
(* The binary heap, for any costs, any number of entries and any size of   *)
(* the array: no slot is read that is outside the array or was never       *)
(* written, and the heap implements a priority queue.                      *)
(*                                                                         *)
(* The invariant is the order of the heap.  While an entry sinks, the slot *)
(* read beyond the last entry holds that same entry: when the comparison   *)
(* picks it, the entry changes places with itself.                         *)
(***************************************************************************)
EXTENDS BinaryHeap, DataInduction, FunctionTheorems

Slot == Entry \cup {Junk}

\* No entry of the first n is cheaper than its parent.
Ordered(h, n) == \A j \in 2 .. n : h[j \div 2].cost <= h[j].cost

\* The first n slots hold entries.
Filled(h, n) == \A i \in 1 .. n : h[i] \in Entry

\* The slots among the first n with e in them, and how many they are.
Holding(h, n, e) == {i \in 1 .. n : h[i] = e}
Count(h, n, e) == Cardinality(Holding(h, n, e))

-----------------------------------------------------------------------------
(* Arithmetic, iteration and counting *)

LEMMA Half ==
  ASSUME NEW j \in Nat
  PROVE  /\ j \div 2 \in Nat
         /\ 2 * (j \div 2) <= j
         /\ j <= 2 * (j \div 2) + 1
  OBVIOUS

\* Costs are integers.
LEMMA CostIsInt ==
  ASSUME NEW e \in Entry  PROVE e.cost \in Int /\ e # Junk
  BY HeapAssumption DEF Entry

\* A recursive function that repeats F.
IsIteration(f, c, S, x0, F) ==
  /\ f \in [0 .. c -> S]
  /\ f = [i \in 0 .. c |-> IF i = 0 THEN x0 ELSE F[f[i - 1]]]

\* There is one.
LEMMA Iterates ==
  ASSUME NEW S, NEW x0 \in S, NEW F \in [S -> S], NEW c \in Nat
  PROVE  \E f : IsIteration(f, c, S, x0, F)
<1> DEFINE g == [x \in Nat \X S |-> F[x[2]]]
<1>1. g \in [Nat \X S -> S] /\ \A i \in Nat, v \in S : g[<< i, v >>] = F[v]
  OBVIOUS
<1> HIDE DEF g
<1>2. PICK f : IsRecursionUpTo(f, c, S, x0, g)
  BY <1>1, RecursionUpTo
<1>3. f \in [0 .. c -> S]
  BY <1>2 DEF IsRecursionUpTo
<1>4. \A i \in 0 .. c : i # 0 => i - 1 \in Nat /\ f[i - 1] \in S
  BY <1>3
<1>5. \A i \in 0 .. c : i # 0 => g[<< i - 1, f[i - 1] >>] = F[f[i - 1]]
  BY <1>1, <1>4
<1>6. [i \in 0 .. c |-> IF i = 0 THEN x0 ELSE g[<< i - 1, f[i - 1] >>]]
      = [i \in 0 .. c |-> IF i = 0 THEN x0 ELSE F[f[i - 1]]]
  BY <1>5
<1> QED BY <1>2, <1>3, <1>6 DEF IsRecursionUpTo, IsIteration

LEMMA CountIsNat ==
  ASSUME NEW h, NEW n \in Nat, NEW e
  PROVE  IsFiniteSet(Holding(h, n, e)) /\ Count(h, n, e) \in Nat
<1>1. IsFiniteSet(1 .. n)
  BY FS_Interval
<1>2. IsFiniteSet(Holding(h, n, e))
  BY <1>1, FS_Subset DEF Holding
<1> QED BY <1>2, FS_CardinalityType DEF Count

\* Entries that differ in no slot are counted alike.
LEMMA CountAgrees ==
  ASSUME NEW h, NEW g, NEW n \in Nat, NEW e, \A i \in 1 .. n : h[i] = g[i]
  PROVE  Count(h, n, e) = Count(g, n, e)
<1>1. Holding(h, n, e) = Holding(g, n, e)
  BY DEF Holding
<1> QED BY <1>1 DEF Count

LEMMA CountNone ==
  ASSUME NEW h, NEW n \in Nat, NEW e
  PROVE  Count(h, n, e) = 0 <=> \A i \in 1 .. n : h[i] # e
<1>1. Cardinality(Holding(h, n, e)) = 0 <=> Holding(h, n, e) = {}
  BY CountIsNat, FS_EmptySet
<1> QED BY <1>1 DEF Count, Holding

\* The last slot counts for its entry.
LEMMA CountLast ==
  ASSUME NEW h, NEW n \in Nat, NEW e
  PROVE  Count(h, n + 1, e) = Count(h, n, e) + (IF h[n + 1] = e THEN 1 ELSE 0)
<1> DEFINE T == Holding(h, n, e)
           U == Holding(h, n + 1, e)
<1>1. IsFiniteSet(T) /\ Cardinality(T) \in Nat
  BY CountIsNat DEF Count
<1>2. CASE h[n + 1] = e
  <2>1. U = T \cup {n + 1} /\ n + 1 \notin T
    BY <1>2 DEF Holding
  <2>2. Cardinality(U) = Cardinality(T) + 1
    <3> HIDE DEF T, U
    <3> QED BY <2>1, <1>1, FS_AddElement
  <2> QED BY <1>2, <2>2 DEF Count
<1>3. CASE h[n + 1] # e
  <2>1. U = T
    BY <1>3 DEF Holding
  <2> QED BY <1>3, <2>1, <1>1 DEF Count
<1> QED BY <1>2, <1>3

\* Changing places changes no count.
LEMMA CountSwapped ==
  ASSUME NEW n \in Nat, NEW D, 1 .. n \subseteq D, NEW h, DOMAIN h = D,
         NEW a \in 1 .. n, NEW b \in 1 .. n, NEW e,
         h = [i \in D |-> h[i]]
  PROVE  Count(Swapped(h, a, b), n, e) = Count(h, n, e)
<1> DEFINE w == Swapped(h, a, b)
           T == Holding(h, n, e)
           U == Holding(w, n, e)
           p(i) == IF i = a THEN b ELSE IF i = b THEN a ELSE i
           f == [i \in T |-> p(i)]
<1>1. \A i \in 1 .. n : p(i) \in 1 .. n /\ p(p(i)) = i /\ w[i] = h[p(i)]
  BY DEF Swapped
<1> HIDE DEF w
<1>2. \A i \in T : p(i) \in U
  BY <1>1 DEF Holding
<1>3. \A j \in U : p(j) \in T /\ p(p(j)) = j
  BY <1>1 DEF Holding
<1>4. \A i, j \in T : p(i) = p(j) => i = j
  <2> SUFFICES ASSUME NEW i \in T, NEW j \in T, p(i) = p(j) PROVE i = j
    OBVIOUS
  <2> QED OBVIOUS
<1> HIDE DEF p
<1>5. f \in Bijection(T, U)
  <2>1. f \in [T -> U]
    BY <1>2
  <2>2. \A i, j \in T : f[i] = f[j] => i = j
    BY <1>4
  <2>3. \A j \in U : \E i \in T : f[i] = j
    BY <1>3
  <2> HIDE DEF T, U, f
  <2> QED BY <2>1, <2>2, <2>3, Fun_IsBij
<1>6. IsFiniteSet(T)
  BY CountIsNat
<1>7. Cardinality(T) = Cardinality(U)
  <2> HIDE DEF T, U, f
  <2> QED BY <1>5, <1>6, FS_Bijection DEF ExistsBijection
<1> QED BY <1>7 DEF Count, w

-----------------------------------------------------------------------------
(* Rising *)

\* The order holds but for one entry and its parent, and no child of that entry
\* is cheaper than this parent.
ChildrenAbove(h, n, a) ==
  \A j \in 2 .. n : j \div 2 = a /\ a >= 2 => h[a \div 2].cost <= h[j].cost
OrderedBut(h, n, a) ==
  /\ \A j \in 2 .. n : j # a => h[j \div 2].cost <= h[j].cost
  /\ ChildrenAbove(h, n, a)

\* The states of the loop over a heap of n entries in an array of m slots.
Rising(n, m) ==
  { r \in [heap : [1 .. m -> Slot], at : 1 .. n] : Filled(r.heap, n) }

\* Entries that change places stay where they are read from.
LEMMA SwappedIs ==
  ASSUME NEW m \in Nat, NEW n \in 0 .. m, NEW h \in [1 .. m -> Slot], Filled(h, n),
         NEW a \in 1 .. n, NEW b \in 1 .. n
  PROVE  /\ Swapped(h, a, b) \in [1 .. m -> Slot]
         /\ Filled(Swapped(h, a, b), n)
         /\ \A i \in 1 .. m : Swapped(h, a, b)[i] =
              IF i = b THEN h[a] ELSE IF i = a THEN h[b] ELSE h[i]
         /\ \A e : Count(Swapped(h, a, b), n, e) = Count(h, n, e)
<1>1. a \in 1 .. m /\ b \in 1 .. m /\ 1 .. n \subseteq 1 .. m
  OBVIOUS
<1>2. Swapped(h, a, b) \in [1 .. m -> Slot]
  BY <1>1 DEF Swapped
<1>3. \A i \in 1 .. m : Swapped(h, a, b)[i] =
        IF i = b THEN h[a] ELSE IF i = a THEN h[b] ELSE h[i]
  BY <1>1 DEF Swapped
<1>4. Filled(Swapped(h, a, b), n)
  <2> SUFFICES ASSUME NEW i \in 1 .. n PROVE Swapped(h, a, b)[i] \in Entry
    BY DEF Filled
  <2> QED BY <1>1, <1>3 DEF Filled
<1>5. DOMAIN h = 1 .. m /\ h = [i \in 1 .. m |-> h[i]]
  OBVIOUS
<1>6. ASSUME NEW e PROVE Count(Swapped(h, a, b), n, e) = Count(h, n, e)
  BY <1>1, <1>5, CountSwapped
<1> QED BY <1>2, <1>3, <1>4, <1>6

\* An entry that changes places with its dearer parent leaves the order intact but
\* for itself.
LEMMA RiseStep ==
  ASSUME NEW m \in Nat, NEW n \in 1 .. m, NEW h \in [1 .. m -> Slot], Filled(h, n),
         NEW a \in 1 .. n, OrderedBut(h, n, a),
         NEW p \in Nat, p = a \div 2, p >= 1, h[a].cost < h[p].cost
  PROVE  /\ Swapped(h, a, p) \in [1 .. m -> Slot] /\ Filled(Swapped(h, a, p), n)
         /\ p \in 1 .. n /\ p < a
         /\ OrderedBut(Swapped(h, a, p), n, p)
         /\ \A i \in n + 1 .. m : Swapped(h, a, p)[i] = h[i]
         /\ \A e : Count(Swapped(h, a, p), n, e) = Count(h, n, e)
<1> DEFINE g == Swapped(h, a, p)
<1>1. n \in Nat /\ n \in 0 .. m /\ \A i \in 1 .. n : i \in 1 .. m
  OBVIOUS
<1>2. \A i \in 1 .. n : h[i] \in Entry /\ h[i].cost \in Int
  BY <1>1, CostIsInt DEF Filled
<1>3. a \in Nat /\ p \in 1 .. n /\ p < a /\ a >= 2
  BY Half
<1>4. /\ g \in [1 .. m -> Slot] /\ Filled(g, n)
      /\ \A i \in 1 .. m : g[i] = IF i = p THEN h[a] ELSE IF i = a THEN h[p] ELSE h[i]
      /\ \A e : Count(g, n, e) = Count(h, n, e)
  <2> HIDE DEF g
  <2>1. n \in 0 .. m /\ p \in 1 .. n
    BY <1>1, <1>3
  <2>2. g \in [1 .. m -> Slot]
    BY <2>1, SwappedIs DEF g
  <2>3. Filled(g, n)
    BY <2>1, SwappedIs DEF g
  <2>4. \A i \in 1 .. m : g[i] = IF i = p THEN h[a] ELSE IF i = a THEN h[p] ELSE h[i]
    BY <2>1, SwappedIs DEF g
  <2>5. \A e : Count(g, n, e) = Count(h, n, e)
    BY <2>1, SwappedIs DEF g
  <2> QED BY <2>2, <2>3, <2>4, <2>5
<1> HIDE DEF g
<1>5. /\ \A i \in 1 .. n : g[i] = IF i = p THEN h[a] ELSE IF i = a THEN h[p] ELSE h[i]
      /\ \A i \in n + 1 .. m : g[i] = h[i]
  <2>1. ASSUME NEW i \in n + 1 .. m PROVE g[i] = h[i]
    <3>1. i \in 1 .. m /\ i # p /\ i # a
      BY <1>1, <1>3
    <3> QED BY <3>1, <1>4
  <2> QED BY <2>1, <1>4, <1>1
<1>6. ASSUME NEW j \in 2 .. n, j # p PROVE g[j \div 2].cost <= g[j].cost
  <2>1. PICK q \in Nat : q = j \div 2
    BY Half
  <2>2. j \in 1 .. n /\ q \in 1 .. n /\ q < j
    BY <2>1, Half, <1>1
  <2>3. CASE j = a
    <3>1. q = p
      BY <2>1, <2>3
    <3> QED BY <3>1, <2>1, <2>3, <1>5, <1>3, <1>2
  <2>4. CASE j # a /\ q = p
    <3>1. h[p].cost <= h[j].cost
      BY <2>4, <2>1 DEF OrderedBut
    <3>2. g[q] = h[a] /\ g[j] = h[j]
      BY <2>4, <2>2, <1>5, <1>6
    <3>3. h[a].cost \in Int /\ h[p].cost \in Int /\ h[j].cost \in Int
      BY <2>2, <1>2, <1>3
    <3>4. h[a].cost <= h[j].cost
      BY <3>1, <3>3
    <3> QED BY <3>4, <3>2, <2>1
  <2>5. CASE j # a /\ q = a
    <3>1. h[p].cost <= h[j].cost
      BY <2>5, <2>1, <1>3 DEF OrderedBut, ChildrenAbove
    <3> QED BY <3>1, <2>5, <1>5, <2>2, <2>1, <1>3, <1>6
  <2>6. CASE j # a /\ q # p /\ q # a
    <3>1. h[q].cost <= h[j].cost
      BY <2>6, <2>1 DEF OrderedBut
    <3> QED BY <3>1, <2>6, <1>5, <2>2, <2>1, <1>6
  <2> QED BY <2>3, <2>4, <2>5, <2>6
<1>7. ASSUME NEW j \in 2 .. n, j \div 2 = p, p >= 2
      PROVE  g[p \div 2].cost <= g[j].cost
  <2>1. PICK q \in Nat : q = p \div 2
    BY Half
  <2>2. q \in 1 .. n /\ q < p /\ j \in 1 .. n /\ p < j /\ p \in 2 .. n
    BY <2>1, Half, <1>3, <1>7
  <2>3. h[q].cost <= h[p].cost
    BY <2>2, <2>1, <1>3 DEF OrderedBut
  <2>4. g[q] = h[q]
    BY <2>2, <1>5, <1>3
  <2>5. CASE j = a
    BY <2>5, <2>3, <2>4, <2>2, <1>5, <1>3, <2>1
  <2>6. CASE j # a
    <3>1. h[p].cost <= h[j].cost /\ g[j] = h[j]
      BY <2>6, <1>7, <2>2, <1>5 DEF OrderedBut
    <3>2. h[q].cost \in Int /\ h[p].cost \in Int /\ h[j].cost \in Int
      BY <2>2, <1>2
    <3>3. h[q].cost <= h[j].cost
      BY <3>1, <3>2, <2>3
    <3> QED BY <3>1, <3>3, <2>4, <2>1
  <2> QED BY <2>5, <2>6
<1>8. OrderedBut(g, n, p)
  BY <1>6, <1>7 DEF OrderedBut, ChildrenAbove
<1> QED BY <1>3, <1>4, <1>5, <1>8 DEF g

\* A round of the loop keeps the order but for the entry that rises, changes
\* nothing behind the entries, and either ends the loop or gets higher.
LEMMA RisenKeeps ==
  ASSUME NEW m \in Nat, NEW n \in 1 .. m, NEW r \in Rising(n, m),
         OrderedBut(r.heap, n, r.at)
  PROVE  /\ Risen(r) \in Rising(n, m)
         /\ OrderedBut(Risen(r).heap, n, Risen(r).at)
         /\ \A i \in n + 1 .. m : Risen(r).heap[i] = r.heap[i]
         /\ \A e : Count(Risen(r).heap, n, e) = Count(r.heap, n, e)
         /\ \/ Risen(r) = r /\ Ordered(r.heap, n)
            \/ Risen(r).at < r.at
<1>1. PICK h, a : h = r.heap /\ a = r.at
  OBVIOUS
<1>2. h \in [1 .. m -> Slot] /\ Filled(h, n) /\ a \in 1 .. n /\ a \in Nat
  BY <1>1 DEF Rising
<1>3. PICK p \in Nat : p = a \div 2 /\ 2 * p <= a /\ a <= 2 * p + 1
  BY Half, <1>2
<1> DEFINE C == p >= 1 /\ h[a].cost < h[p].cost
<1>4. Risen(r) = IF C THEN [heap |-> Swapped(h, a, p), at |-> p] ELSE r
  BY <1>1, <1>3 DEF Risen
<1>5. CASE C
  <2>1. /\ Swapped(h, a, p) \in [1 .. m -> Slot] /\ Filled(Swapped(h, a, p), n)
        /\ p \in 1 .. n /\ p < a
        /\ OrderedBut(Swapped(h, a, p), n, p)
        /\ \A i \in n + 1 .. m : Swapped(h, a, p)[i] = h[i]
        /\ \A e : Count(Swapped(h, a, p), n, e) = Count(h, n, e)
    <3>1. OrderedBut(h, n, a)
      BY <1>1
    <3>2. p >= 1 /\ h[a].cost < h[p].cost /\ p = a \div 2
      BY <1>5, <1>3
    <3>3. Swapped(h, a, p) \in [1 .. m -> Slot] /\ Filled(Swapped(h, a, p), n)
      BY <3>1, <3>2, <1>2, RiseStep
    <3>4. p \in 1 .. n /\ p < a /\ OrderedBut(Swapped(h, a, p), n, p)
      BY <3>1, <3>2, <1>2, RiseStep
    <3>5. \A i \in n + 1 .. m : Swapped(h, a, p)[i] = h[i]
      BY <3>1, <3>2, <1>2, RiseStep
    <3>6. \A e : Count(Swapped(h, a, p), n, e) = Count(h, n, e)
      BY <3>1, <3>2, <1>2, RiseStep
    <3> QED BY <3>3, <3>4, <3>5, <3>6
  <2>2. Risen(r).heap = Swapped(h, a, p) /\ Risen(r).at = p
    BY <1>4, <1>5
  <2>3. Risen(r) \in Rising(n, m)
    BY <1>4, <1>5, <2>1 DEF Rising
  <2> QED BY <2>1, <2>2, <2>3, <1>1
<1>6. CASE ~C
  <2>1. Risen(r) = r
    BY <1>4, <1>6
  <2>2. ASSUME NEW j \in 2 .. n PROVE h[j \div 2].cost <= h[j].cost
    <3>1. CASE j = a
      <4>1. p >= 1 /\ p \in 1 .. n
        BY <3>1, <1>2, <1>3
      <4>2. h[a].cost \in Int /\ h[p].cost \in Int
        BY <4>1, <1>2, CostIsInt DEF Filled
      <4>3. h[p].cost <= h[a].cost
        BY <4>1, <4>2, <1>6
      <4> QED BY <4>3, <3>1, <1>3
    <3>2. CASE j # a
      BY <3>2, <1>1 DEF OrderedBut
    <3> QED BY <3>1, <3>2
  <2> QED BY <2>1, <2>2, <1>1 DEF Ordered
<1> QED BY <1>5, <1>6

\* An entry added behind the others rises to its place: the heap is in order, holds
\* the same entries, and nothing behind them changes.
LEMMA SiftedUpIs ==
  ASSUME NEW m \in Nat, NEW n \in 1 .. m, NEW h \in [1 .. m -> Slot], Filled(h, n),
         Ordered(h, n - 1)
  PROVE  /\ SiftedUp(h, n) \in [1 .. m -> Slot]
         /\ Filled(SiftedUp(h, n), n)
         /\ Ordered(SiftedUp(h, n), n)
         /\ \A i \in n + 1 .. m : SiftedUp(h, n)[i] = h[i]
         /\ \A e : Count(SiftedUp(h, n), n, e) = Count(h, n, e)
<1> DEFINE x0 == [heap |-> h, at |-> n]
           S == {r \in Rising(n, m) : OrderedBut(r.heap, n, r.at)}
           F == [r \in S |-> Risen(r)]
           G(f) == [i \in 0 .. n |-> IF i = 0 THEN x0 ELSE Risen(f[i - 1])]
           rise == CHOOSE f : f = G(f)
<1>1. n \in Nat /\ n \in 1 .. n
  OBVIOUS
<1>2. x0 \in S
  <2>1. x0 \in Rising(n, m) /\ x0.heap = h /\ x0.at = n
    BY <1>1 DEF Rising
  <2>2. ASSUME NEW j \in 2 .. n, j # n PROVE h[j \div 2].cost <= h[j].cost
    BY <2>2, <1>1 DEF Ordered
  <2>3. ASSUME NEW j \in 2 .. n PROVE j \div 2 # n
    BY Half, <1>1
  <2> QED BY <2>1, <2>2, <2>3 DEF OrderedBut, ChildrenAbove
<1>3. F \in [S -> S]
  BY RisenKeeps
<1> DEFINE Kept(r) == /\ \A i \in n + 1 .. m : r.heap[i] = h[i]
                      /\ \A e : Count(r.heap, n, e) = Count(h, n, e)
<1>4. x0.heap = h /\ x0.at = n
  OBVIOUS
<1>5. \A r \in S : F[r] = Risen(r)
  OBVIOUS
<1>6. \A r \in S : /\ r.heap \in [1 .. m -> Slot] /\ Filled(r.heap, n)
                   /\ r.at \in 1 .. n
  BY DEF Rising
<1>7. \A r \in S : /\ Kept(r) => Kept(Risen(r))
                   /\ \/ Risen(r) = r /\ Ordered(r.heap, n)
                      \/ Risen(r).at < r.at
  BY RisenKeeps
<1> HIDE DEF S, F, x0
<1>8. PICK f : IsIteration(f, n, S, x0, F)
  BY <1>1, <1>2, <1>3, Iterates
<1>9. f = G(f)
  <2>1. \A i \in 0 .. n : i # 0 => i - 1 \in 0 .. n /\ f[i - 1] \in S
    <3>1. f \in [0 .. n -> S]
      BY <1>8 DEF IsIteration
    <3> QED BY <1>1, <3>1
  <2>2. \A i \in 0 .. n : i # 0 => F[f[i - 1]] = Risen(f[i - 1])
    BY <2>1, <1>5
  <2>3. [i \in 0 .. n |-> IF i = 0 THEN x0 ELSE F[f[i - 1]]] = G(f)
    BY <2>2
  <2> QED BY <2>3, <1>8 DEF IsIteration
<1>10. rise = G(rise)
  BY <1>9
<1>11. SiftedUp(h, n) = rise[n].heap
  BY Zenon DEF SiftedUp, x0
<1> HIDE DEF rise
<1>12. rise[0] = x0 /\ \A i \in 0 .. n - 1 : rise[i + 1] = Risen(rise[i])
  <2>1. \A i \in 0 .. n - 1 : i + 1 \in 0 .. n /\ i + 1 # 0 /\ (i + 1) - 1 = i
    BY <1>1
  <2> QED BY <2>1, <1>1, <1>10
<1> DEFINE A == {i \in Int : /\ rise[i] \in S /\ Kept(rise[i])
                             /\ \/ rise[i].at <= n - i
                                \/ Ordered(rise[i].heap, n) /\ Risen(rise[i]) = rise[i]}
           a == 0
<1>13. a \in A
  BY <1>2, <1>4, <1>12
<1>14. ASSUME NEW i \in a .. n - 1, i \in A  PROVE i + 1 \in A
  <2>1. rise[i] \in S /\ Kept(rise[i]) /\ rise[i + 1] = Risen(rise[i]) /\ i \in Nat
    BY <1>14, <1>12
  <2>2. rise[i + 1] \in S /\ Kept(rise[i + 1])
    <3>1. F[rise[i]] \in S
      BY <2>1, <1>3
    <3> QED BY <3>1, <2>1, <1>5, <1>7
  <2>3. \/ rise[i + 1].at <= n - (i + 1)
        \/ Ordered(rise[i + 1].heap, n) /\ Risen(rise[i + 1]) = rise[i + 1]
    <3>1. CASE Risen(rise[i]) = rise[i] /\ Ordered(rise[i].heap, n)
      BY <3>1, <2>1
    <3>2. CASE Risen(rise[i]).at < rise[i].at
      <4>1. rise[i].at \in 1 .. n /\ rise[i + 1].at \in 1 .. n
        BY <2>1, <2>2, <1>6
      <4>2. Risen(rise[i]) # rise[i]
        BY <3>2, <4>1, <2>1
      <4>3. rise[i].at <= n - i
        BY <1>14, <4>2
      <4> QED BY <3>2, <4>1, <4>3, <2>1, <1>1
    <3> QED BY <3>1, <3>2, <2>1, <1>7
  <2> QED BY <2>1, <2>2, <2>3
<1>15. n \in A
  <2> HIDE DEF A
  <2>1. a \in Int /\ n \in Int
    BY <1>1
  <2>2. a .. n \subseteq A
    BY <2>1, <1>13, <1>14, IntervalInduct
  <2> QED BY <2>2, <1>1
<1>16. rise[n] \in S /\ Kept(rise[n]) /\ Ordered(rise[n].heap, n)
  BY <1>15, <1>6, <1>1
<1> QED BY <1>16, <1>11, <1>6

-----------------------------------------------------------------------------
(* Sinking *)

\* The order holds but for one entry and its children.
OrderedBelow(h, n, a) ==
  /\ \A j \in 2 .. n : j \div 2 # a => h[j \div 2].cost <= h[j].cost
  /\ ChildrenAbove(h, n, a)

\* The states of the loop over the entries in front of the slot t.
Sinking(t, m) ==
  { s \in [heap : [1 .. m -> Slot], at : 1 .. t, wild : {FALSE}, done : BOOLEAN] :
      Filled(s.heap, t) }

\* Until the entry has found its place it is also in the slot t.
SinksOn(s, t) ==
  IF s.done THEN Ordered(s.heap, t - 1)
  ELSE OrderedBelow(s.heap, t - 1, s.at) /\ s.heap[s.at] = s.heap[t]

\* What is in h turns into g when the entry at a changes places with its child c.
SinksTo(g, h, t, m, a, c) ==
  /\ g \in [1 .. m -> Slot] /\ Filled(g, t)
  /\ c \in 1 .. t /\ c > a
  /\ OrderedBelow(g, t - 1, c) /\ g[c] = g[t]
  /\ \A i \in t + 1 .. m : g[i] = h[i]
  /\ \A e : Count(g, t - 1, e) = Count(h, t - 1, e)

\* An entry that changes places with its cheaper child leaves the order intact but
\* for itself.  The child may be the slot behind the entries: it holds the entry
\* that sinks, and nothing changes.
LEMMA SinkStep ==
  ASSUME NEW m \in Nat, NEW t \in 1 .. m, NEW h \in [1 .. m -> Slot], Filled(h, t),
         NEW a \in 1 .. t, OrderedBelow(h, t - 1, a), h[a] = h[t], 2 * a < t,
         NEW c \in {2 * a, 2 * a + 1},
         h[c].cost <= h[2 * a].cost, h[c].cost <= h[2 * a + 1].cost,
         h[c].cost <= h[a].cost
  PROVE  SinksTo(Swapped(h, a, c), h, t, m, a, c)
<1> DEFINE g == Swapped(h, a, c)
<1>1. /\ t \in Nat /\ t \in 0 .. m /\ t - 1 \in Nat /\ t - 1 \in 0 .. m
      /\ a \in Nat /\ c \in Nat /\ c \in 1 .. t /\ c > a /\ a \in 1 .. t - 1
      /\ \A i \in 1 .. t : i \in 1 .. m
      /\ \A i \in 1 .. t - 1 : i \in 1 .. t
  OBVIOUS
<1>2. \A i \in 1 .. t : h[i] \in Entry /\ h[i].cost \in Int
  BY <1>1, CostIsInt DEF Filled
<1>3. g \in [1 .. m -> Slot] /\ Filled(g, t)
  BY <1>1, SwappedIs
<1>4. \A i \in 1 .. m : g[i] = IF i = c THEN h[a] ELSE IF i = a THEN h[c] ELSE h[i]
  BY <1>1, SwappedIs, SMTT(30)
<1> HIDE DEF g, SinksTo
<1>5. \A i \in t + 1 .. m : g[i] = h[i]
  <2> SUFFICES ASSUME NEW i \in t + 1 .. m PROVE g[i] = h[i]
    OBVIOUS
  <2>1. i \in 1 .. m /\ i # c /\ i # a
    BY <1>1
  <2> QED BY <2>1, <1>4
<1>6. \A i \in 1 .. t : g[i] = IF i = c THEN h[a] ELSE IF i = a THEN h[c] ELSE h[i]
  BY <1>1, <1>4
<1>7. ASSUME NEW j \in 2 .. t - 1, j \div 2 = a
      PROVE  j \in 1 .. t /\ j > a /\ h[c].cost <= h[j].cost
  <2>1. j = 2 * a \/ j = 2 * a + 1
    BY <1>7, Half
  <2> QED BY <2>1, <1>1
<1>8. CASE c = t
  <2>1. \A i \in 1 .. t : g[i] = h[i]
    BY <1>6, <1>8, <1>1
  <2>2. ASSUME NEW e PROVE Count(g, t - 1, e) = Count(h, t - 1, e)
    BY <2>1, <1>1, CountAgrees
  <2>3. OrderedBelow(g, t - 1, c)
    <3>1. ASSUME NEW j \in 2 .. t - 1 PROVE j \div 2 # c /\ g[j \div 2].cost <= g[j].cost
      <4>1. PICK q \in Nat : q = j \div 2 /\ q < j /\ q >= 1
        BY Half
      <4>2. q \in 1 .. t /\ j \in 1 .. t /\ q # c
        BY <4>1, <1>8, <1>1
      <4>3. h[q].cost <= h[j].cost
        <5>1. CASE q = a
          BY <5>1, <4>1, <1>7, <1>8
        <5>2. CASE q # a
          BY <5>2, <4>1 DEF OrderedBelow
        <5> QED BY <5>1, <5>2
      <4> QED BY <4>1, <4>2, <4>3, <2>1
    <3> QED BY <3>1 DEF OrderedBelow, ChildrenAbove
  <2> QED BY <1>1, <1>3, <1>5, <1>8, <2>2, <2>3 DEF g, SinksTo
<1>9. CASE c # t
  <2>1. c \in 1 .. t - 1
    BY <1>1, <1>9
  <2>2. \A e : Count(g, t - 1, e) = Count(h, t - 1, e)
    <3>1. Filled(h, t - 1)
      BY <1>1 DEF Filled
    <3> QED BY <3>1, <1>1, <2>1, SwappedIs DEF g
  <2>3. g[c] = g[t]
    BY <1>6, <1>9, <1>1
  <2>4. ASSUME NEW j \in 2 .. t - 1, j \div 2 # c PROVE g[j \div 2].cost <= g[j].cost
    <3>1. PICK q \in Nat : q = j \div 2 /\ q < j /\ q >= 1 /\ j <= 2 * q + 1 /\ 2 * q <= j
      BY Half
    <3>2. q \in 1 .. t /\ j \in 1 .. t /\ q # c
      BY <3>1, <2>4, <1>1
    <3>3. CASE q = a
      <4>1. h[c].cost <= h[j].cost
        BY <3>3, <3>1, <1>7
      <4>2. g[q] = h[c] /\ j # a
        BY <3>3, <3>2, <1>6, <3>1
      <4>3. CASE j = c
        BY <4>2, <4>3, <1>6, <3>1, <3>2
      <4>4. CASE j # c
        BY <4>1, <4>2, <4>4, <1>6, <3>1, <3>2
      <4> QED BY <4>3, <4>4
    <3>4. CASE j = a
      <4>1. c \in 2 .. t - 1 /\ c \div 2 = a
        BY <2>1, <1>1, <3>4
      <4>2. h[a \div 2].cost <= h[c].cost
        BY <4>1, <3>4 DEF OrderedBelow, ChildrenAbove
      <4>3. g[q] = h[q] /\ g[j] = h[c]
        BY <3>1, <3>2, <3>4, <1>6, <1>1
      <4> QED BY <4>2, <4>3, <3>1, <3>4
    <3>5. CASE q # a /\ j # a
      <4>1. h[q].cost <= h[j].cost
        BY <3>5, <3>1 DEF OrderedBelow
      <4>2. j # c
        BY <3>1, <3>5
      <4> QED BY <4>1, <4>2, <3>1, <3>2, <3>5, <1>6
    <3> QED BY <3>3, <3>4, <3>5
  <2>5. ASSUME NEW j \in 2 .. t - 1, j \div 2 = c, c >= 2
        PROVE  g[c \div 2].cost <= g[j].cost
    <3>1. j > c /\ j \in 1 .. t
      BY <2>5, Half, <1>1
    <3>2. h[c].cost <= h[j].cost
      <4>1. c # a /\ j \div 2 # a
        BY <2>5, <1>1
      <4>2. h[j \div 2].cost <= h[j].cost
        BY <4>1 DEF OrderedBelow
      <4> QED BY <4>2, <2>5
    <3>3. c \div 2 = a
      BY <1>1
    <3>4. g[a] = h[c] /\ g[j] = h[j]
      BY <3>1, <1>1, <1>6
    <3> QED BY <3>2, <3>3, <3>4
  <2>6. OrderedBelow(g, t - 1, c)
    BY <2>4, <2>5 DEF OrderedBelow, ChildrenAbove
  <2> QED BY <1>1, <1>3, <1>5, <2>2, <2>3, <2>6 DEF g, SinksTo
<1> QED BY <1>8, <1>9

\* A round of the loop reads entries only; it ends the loop with the heap in order or
\* takes the entry deeper.
LEMMA SunkKeeps ==
  ASSUME NEW m \in Nat, NEW t \in 1 .. m, NEW s \in Sinking(t, m), SinksOn(s, t)
  PROVE  /\ Sunk(s, t) \in Sinking(t, m)
         /\ SinksOn(Sunk(s, t), t)
         /\ \A i \in t + 1 .. m : Sunk(s, t).heap[i] = s.heap[i]
         /\ \A e : Count(Sunk(s, t).heap, t - 1, e) = Count(s.heap, t - 1, e)
         /\ Sunk(s, t).done \/ Sunk(s, t).at > s.at
<1>1. PICK h, a, c : h = s.heap /\ a = s.at /\ c = SmallerChild(h, 2 * a)
  OBVIOUS
<1>2. /\ h \in [1 .. m -> Slot] /\ Filled(h, t) /\ a \in 1 .. t /\ s.done \in BOOLEAN
      /\ s = [heap |-> h, at |-> a, wild |-> FALSE, done |-> s.done]
  BY <1>1 DEF Sinking
<1>3. c = IF h[2 * a + 1].cost < h[2 * a].cost THEN 2 * a + 1 ELSE 2 * a
  BY <1>1 DEF SmallerChild
<1>4. Sunk(s, t) = IF s.done \/ ~(2 * a < t) THEN [s EXCEPT !.done = TRUE]
                   ELSE IF ~(IsReadable(h, 2 * a) /\ IsReadable(h, 2 * a + 1))
                   THEN [s EXCEPT !.done = TRUE, !.wild = TRUE]
                   ELSE IF h[c].cost > h[a].cost
                   THEN [s EXCEPT !.done = TRUE]
                   ELSE [s EXCEPT !.heap = Swapped(h, a, c), !.at = c]
  BY <1>1 DEF Sunk, ChildBound
<1> DEFINE ended == [s EXCEPT !.done = TRUE]
<1>5. /\ ended.heap = h /\ ended.at = a /\ ended.done
      /\ ended \in Sinking(t, m)
  BY <1>2, <1>1 DEF Sinking
<1>6. ASSUME ~s.done
      PROVE  OrderedBelow(h, t - 1, a) /\ h[a] = h[t]
  BY <1>6, <1>1 DEF SinksOn
<1>7. ASSUME Sunk(s, t) = ended, Ordered(h, t - 1)
      PROVE  /\ Sunk(s, t) \in Sinking(t, m)
             /\ SinksOn(Sunk(s, t), t)
             /\ \A i \in t + 1 .. m : Sunk(s, t).heap[i] = s.heap[i]
             /\ \A e : Count(Sunk(s, t).heap, t - 1, e) = Count(s.heap, t - 1, e)
             /\ Sunk(s, t).done \/ Sunk(s, t).at > s.at
  BY <1>7, <1>5, <1>1 DEF SinksOn
<1>8. CASE s.done \/ ~(2 * a < t)
  <2>1. Sunk(s, t) = ended
    BY <1>4, <1>8
  <2>2. Ordered(h, t - 1)
    <3>1. CASE s.done
      BY <3>1, <1>1 DEF SinksOn
    <3>2. CASE ~s.done
      <4>1. ASSUME NEW j \in 2 .. t - 1 PROVE h[j \div 2].cost <= h[j].cost
        <5>1. j \div 2 # a
          BY <3>2, <1>8, Half, <1>2
        <5> QED BY <5>1, <3>2, <1>6 DEF OrderedBelow
      <4> QED BY <4>1 DEF Ordered
    <3> QED BY <3>1, <3>2
  <2> QED BY <2>1, <2>2, <1>7
<1>9. CASE ~s.done /\ 2 * a < t
  <2>1. /\ 2 * a \in 1 .. t /\ 2 * a + 1 \in 1 .. t /\ 2 * a \in 1 .. m /\ 2 * a + 1 \in 1 .. m
        /\ c \in 1 .. t
    BY <1>9, <1>2, <1>3
  <2>2. \A i \in 1 .. t : h[i] \in Entry /\ h[i].cost \in Int /\ h[i] # Junk
    BY <1>2, CostIsInt DEF Filled
  <2>3. IsReadable(h, 2 * a) /\ IsReadable(h, 2 * a + 1)
    BY <2>1, <2>2, <1>2 DEF IsReadable
  <2>4. /\ c \in {2 * a, 2 * a + 1}
        /\ h[c].cost <= h[2 * a].cost /\ h[c].cost <= h[2 * a + 1].cost
    <3>1. h[2 * a].cost \in Int /\ h[2 * a + 1].cost \in Int
      BY <2>1, <2>2
    <3> QED BY <3>1, <1>3
  <2>5. CASE h[c].cost > h[a].cost
    <3>1. Sunk(s, t) = ended
      BY <1>4, <1>9, <2>3, <2>5
    <3>2. ASSUME NEW j \in 2 .. t - 1 PROVE h[j \div 2].cost <= h[j].cost
      <4>1. CASE j \div 2 = a
        <5>1. j = 2 * a \/ j = 2 * a + 1
          BY <4>1, Half
        <5>2. h[c].cost <= h[j].cost
          BY <5>1, <2>4
        <5>3. h[c].cost \in Int /\ h[a].cost \in Int /\ h[j].cost \in Int
          BY <5>1, <2>1, <2>2, <1>2
        <5> QED BY <5>2, <5>3, <2>5, <4>1
      <4>2. CASE j \div 2 # a
        BY <4>2, <1>9, <1>6 DEF OrderedBelow
      <4> QED BY <4>1, <4>2
    <3>3. Ordered(h, t - 1)
      BY <3>2 DEF Ordered
    <3> QED BY <3>1, <3>3, <1>7
  <2>6. CASE ~(h[c].cost > h[a].cost)
    <3>1. Sunk(s, t) = [s EXCEPT !.heap = Swapped(h, a, c), !.at = c]
      BY <1>4, <1>9, <2>3, <2>6
    <3>2. h[c].cost <= h[a].cost
      BY <2>6, <2>1, <2>2, <1>2
    <3>3. OrderedBelow(h, t - 1, a) /\ h[a] = h[t] /\ 2 * a < t
      BY <1>6, <1>9
    <3>3a. h \in [1 .. m -> Slot] /\ Filled(h, t) /\ a \in 1 .. t
      BY <1>2
    <3> DEFINE g == Swapped(h, a, c)
    <3>4. SinksTo(g, h, t, m, a, c)
      BY <3>2, <3>3, <3>3a, <2>4, SinkStep, Zenon
    <3> HIDE DEF g
    <3>5. /\ g \in [1 .. m -> Slot] /\ Filled(g, t)
          /\ c \in 1 .. t /\ c > a
          /\ OrderedBelow(g, t - 1, c) /\ g[c] = g[t]
          /\ \A i \in t + 1 .. m : g[i] = h[i]
          /\ \A e : Count(g, t - 1, e) = Count(h, t - 1, e)
      BY <3>4, Zenon DEF SinksTo
    <3>6. s \in [heap : [1 .. m -> Slot], at : 1 .. t, wild : {FALSE}, done : BOOLEAN]
      BY DEF Sinking
    <3>7. Sunk(s, t) = [s EXCEPT !.heap = g, !.at = c]
      BY <3>1 DEF g
    <3>8. /\ Sunk(s, t).heap = g /\ Sunk(s, t).at = c
          /\ Sunk(s, t).done = s.done
          /\ Sunk(s, t) \in [heap : [1 .. m -> Slot], at : 1 .. t, wild : {FALSE}, done : BOOLEAN]
      BY <3>5, <3>6, <3>7
    <3>9. Sunk(s, t) \in Sinking(t, m)
      BY <3>8, <3>5 DEF Sinking
    <3>10. SinksOn(Sunk(s, t), t)
      BY <3>8, <3>5, <1>9 DEF SinksOn
    <3> QED BY <3>5, <3>8, <3>9, <3>10, <1>1
  <2> QED BY <2>5, <2>6
<1> QED BY <1>8, <1>9

\* The last entry, put at the root, sinks to its place: nothing is read that is no
\* entry, the heap is in order and holds the same entries, and nothing behind them
\* changes.
LEMMA SiftedDownIs ==
  ASSUME NEW m \in Nat, NEW t \in 1 .. m, NEW h \in [1 .. m -> Slot], Filled(h, t),
         h[1] = h[t], OrderedBelow(h, t - 1, 1)
  PROVE  /\ SiftedDown(h, t).heap \in [1 .. m -> Slot]
         /\ Filled(SiftedDown(h, t).heap, t)
         /\ Ordered(SiftedDown(h, t).heap, t - 1)
         /\ \A i \in t + 1 .. m : SiftedDown(h, t).heap[i] = h[i]
         /\ \A e : Count(SiftedDown(h, t).heap, t - 1, e) = Count(h, t - 1, e)
         /\ SiftedDown(h, t).wild = FALSE
<1> DEFINE x0 == [heap |-> h, at |-> 1, wild |-> FALSE, done |-> FALSE]
           S == {s \in Sinking(t, m) : SinksOn(s, t)}
           F == [s \in S |-> Sunk(s, t)]
           G(f) == [i \in 0 .. t |-> IF i = 0 THEN x0 ELSE Sunk(f[i - 1], t)]
           sink == CHOOSE f : f = G(f)
<1>1. t \in Nat /\ 1 \in 1 .. t
  OBVIOUS
<1>2. x0 \in S /\ x0.heap = h /\ x0.at = 1 /\ ~x0.done
  <2>1. x0 \in Sinking(t, m)
    BY <1>1 DEF Sinking
  <2> QED BY <2>1 DEF SinksOn
<1>3. F \in [S -> S]
  BY SunkKeeps
<1> DEFINE Kept(s) == /\ \A i \in t + 1 .. m : s.heap[i] = h[i]
                      /\ \A e : Count(s.heap, t - 1, e) = Count(h, t - 1, e)
<1>5. \A s \in S : F[s] = Sunk(s, t)
  OBVIOUS
<1>6. \A s \in S : /\ s.heap \in [1 .. m -> Slot] /\ Filled(s.heap, t)
                   /\ s.at \in 1 .. t /\ s.wild = FALSE
                   /\ s.done => Ordered(s.heap, t - 1)
  BY DEF Sinking, SinksOn
<1>7. \A s \in S : /\ Kept(s) => Kept(Sunk(s, t))
                   /\ Sunk(s, t).done \/ Sunk(s, t).at > s.at
  BY SunkKeeps, SMTT(30)
<1> HIDE DEF S, F, x0
<1>8. PICK f : IsIteration(f, t, S, x0, F)
  BY <1>1, <1>2, <1>3, Iterates
<1>9. f = G(f)
  <2>1. \A i \in 0 .. t : i # 0 => i - 1 \in 0 .. t /\ f[i - 1] \in S
    <3>1. f \in [0 .. t -> S]
      BY <1>8 DEF IsIteration
    <3> QED BY <1>1, <3>1
  <2>2. \A i \in 0 .. t : i # 0 => F[f[i - 1]] = Sunk(f[i - 1], t)
    BY <2>1, <1>5
  <2>3. [i \in 0 .. t |-> IF i = 0 THEN x0 ELSE F[f[i - 1]]] = G(f)
    BY <2>2
  <2> QED BY <2>3, <1>8 DEF IsIteration
<1>10. sink = G(sink)
  BY <1>9
<1>11. SiftedDown(h, t) = sink[t]
  BY Zenon DEF SiftedDown, x0
<1> HIDE DEF sink
<1>12. sink[0] = x0 /\ \A i \in 0 .. t - 1 : sink[i + 1] = Sunk(sink[i], t)
  <2>1. \A i \in 0 .. t - 1 : i + 1 \in 0 .. t /\ i + 1 # 0 /\ (i + 1) - 1 = i
    BY <1>1
  <2> QED BY <2>1, <1>1, <1>10
<1> DEFINE A == {i \in Int : /\ sink[i] \in S /\ Kept(sink[i])
                             /\ sink[i].done \/ sink[i].at >= i + 1}
           a == 0
<1>13. a \in A
  BY <1>2, <1>12
<1>14. ASSUME NEW i \in a .. t - 1, i \in A  PROVE i + 1 \in A
  <2>1. sink[i] \in S /\ Kept(sink[i]) /\ sink[i + 1] = Sunk(sink[i], t) /\ i \in Nat
    BY <1>14, <1>12
  <2>2. sink[i + 1] \in S /\ Kept(sink[i + 1])
    <3>1. F[sink[i]] \in S
      BY <2>1, <1>3
    <3> QED BY <3>1, <2>1, <1>5, <1>7
  <2>3. sink[i + 1].done \/ sink[i + 1].at >= (i + 1) + 1
    <3>1. CASE sink[i].done
      <4>1. Sunk(sink[i], t).done
        BY <3>1 DEF Sunk
      <4> QED BY <4>1, <2>1
    <3>2. CASE ~sink[i].done
      <4>1. sink[i].at \in 1 .. t /\ sink[i + 1].at \in 1 .. t
        BY <2>1, <2>2, <1>6
      <4>2. sink[i].at >= i + 1
        BY <1>14, <3>2
      <4>3. sink[i + 1].done \/ sink[i + 1].at > sink[i].at
        BY <2>1, <1>7
      <4> QED BY <4>1, <4>2, <4>3, <2>1
    <3> QED BY <3>1, <3>2
  <2> QED BY <2>1, <2>2, <2>3
<1>15. t \in A
  <2> HIDE DEF A
  <2>1. a \in Int /\ t \in Int
    BY <1>1
  <2>2. a .. t \subseteq A
    BY <2>1, <1>13, <1>14, IntervalInduct
  <2> QED BY <2>2, <1>1
<1>16. sink[t] \in S /\ Kept(sink[t]) /\ sink[t].done
  <2>1. sink[t] \in S /\ Kept(sink[t]) /\ (sink[t].done \/ sink[t].at >= t + 1)
    BY <1>15
  <2>2. sink[t].at \in 1 .. t
    BY <2>1, <1>6
  <2> QED BY <2>1, <2>2, <1>1
<1> QED BY <1>16, <1>11, <1>6

-----------------------------------------------------------------------------
(* Taking entries off *)

\* The root of a heap in order is a cheapest entry.
LEMMA RootIsCheapest ==
  ASSUME NEW n \in Nat, NEW h, Filled(h, n), Ordered(h, n), NEW i \in 1 .. n
  PROVE  h[1].cost <= h[i].cost
<1> DEFINE T == {k \in Nat : k \in 1 .. n /\ ~(h[1].cost <= h[k].cost)}
<1>1. \A k \in 1 .. n : h[k].cost \in Int
  BY CostIsInt DEF Filled
<1>2. SUFFICES ASSUME T # {} PROVE FALSE
  OBVIOUS
<1>3. PICK k \in T : \A y \in T : k <= y
  <2>1. T \in SUBSET Nat
    OBVIOUS
  <2> HIDE DEF T
  <2> QED BY <2>1, <1>2, Least
<1>4. k \in 2 .. n /\ k \in Nat
  BY <1>1, <1>3
<1>5. PICK q \in Nat : q = k \div 2 /\ q < k /\ q >= 1
  BY <1>4, Half
<1>6. q \in 1 .. n /\ h[1].cost <= h[q].cost
  BY <1>3, <1>4, <1>5
<1>7. h[q].cost <= h[k].cost
  BY <1>4, <1>5 DEF Ordered
<1> QED BY <1>1, <1>3, <1>4, <1>6, <1>7

\* A heap with its free slots behind t - 1 entries, in an array of m slots.
IsHeap(h, t, m) ==
  /\ h \in [1 .. m -> Slot] /\ t \in 1 .. m + 1
  /\ Filled(h, t - 1) /\ Ordered(h, t - 1)

\* r is what is left of the heap in front of the slot t when one entry is taken off h.
OneLess(r, h, t, m) ==
  /\ IsHeap(r.heap, t - 1, m) /\ r.tail = t - 1 /\ r.wild = FALSE /\ r.head = h[1]
  /\ \A e : Count(h, t - 1, e) = Count(r.heap, t - 2, e) + (IF h[1] = e THEN 1 ELSE 0)

\* Taking off the root leaves a heap with the other entries.
LEMMA TakenOffIs ==
  ASSUME NEW m \in Nat, NEW t \in 2 .. m + 1, NEW r, r.tail = t, r.wild = FALSE,
         IsHeap(r.heap, t, m)
  PROVE  /\ OneLess(TakenOff(r), r.heap, t, m)
         /\ TakenOff(r) = [heap |-> TakenOff(r).heap, tail |-> t - 1, wild |-> FALSE,
                           head |-> r.heap[1]]
<1>1. PICK h, l : h = r.heap /\ l = t - 1
  OBVIOUS
<1>2. /\ l \in 1 .. m /\ l \in Nat /\ l - 1 \in Nat /\ l - 1 = t - 2 /\ t = l + 1
      /\ h \in [1 .. m -> Slot] /\ Filled(h, l) /\ Ordered(h, l)
  BY <1>1 DEF IsHeap
<1> DEFINE d == [h EXCEPT ![1] = h[l]]
<1>3. /\ d \in [1 .. m -> Slot]
      /\ \A i \in 1 .. m : d[i] = IF i = 1 THEN h[l] ELSE h[i]
  BY <1>2
<1>4. TakenOff(r) = [heap |-> SiftedDown(d, l).heap, tail |-> l,
                     wild |-> r.wild \/ SiftedDown(d, l).wild, head |-> h[1]]
  <2>1. r.tail - 1 = l
    BY <1>1
  <2>2. TakenOff(r) = [heap |-> SiftedDown([r.heap EXCEPT ![1] = r.heap[l]], l).heap,
                       tail |-> l,
                       wild |-> r.wild \/ SiftedDown([r.heap EXCEPT ![1] = r.heap[l]], l).wild,
                       head |-> r.heap[1]]
    BY <2>1, Zenon DEF TakenOff
  <2> QED BY <2>2, <1>1
<1> HIDE DEF d
<1>5. \A i \in 1 .. l : i \in 1 .. m /\ d[i] = (IF i = 1 THEN h[l] ELSE h[i]) /\ h[i] \in Entry
  BY <1>2, <1>3 DEF Filled
<1>6. Filled(d, l)
  BY <1>2, <1>5 DEF Filled
<1>7. d[1] = d[l]
  BY <1>2, <1>5
<1>8. OrderedBelow(d, l - 1, 1)
  <2>1. ASSUME NEW j \in 2 .. l - 1, j \div 2 # 1 PROVE d[j \div 2].cost <= d[j].cost
    <3>1. PICK q \in Nat : q = j \div 2 /\ q < j /\ q >= 1
      BY Half
    <3>2. q \in 1 .. l /\ q # 1 /\ j \in 1 .. l /\ j # 1 /\ j \in 2 .. l
      BY <3>1, <2>1, <1>2
    <3>3. h[q].cost <= h[j].cost
      BY <3>1, <3>2, <1>2 DEF Ordered
    <3> QED BY <3>1, <3>2, <3>3, <1>5
  <2> QED BY <2>1 DEF OrderedBelow, ChildrenAbove
<1> DEFINE u == SiftedDown(d, l)
<1>9. u.heap \in [1 .. m -> Slot] /\ Filled(u.heap, l) /\ Ordered(u.heap, l - 1)
  BY <1>2, <1>3, <1>6, <1>7, <1>8, SiftedDownIs
<1>10. u.wild = FALSE
  BY <1>2, <1>3, <1>6, <1>7, <1>8, SiftedDownIs
<1>11. \A e : Count(u.heap, l - 1, e) = Count(d, l - 1, e)
  BY <1>2, <1>3, <1>6, <1>7, <1>8, SiftedDownIs
<1> HIDE DEF u
<1>12. IsHeap(u.heap, l, m)
  <2>1. Filled(u.heap, l - 1)
    BY <1>9, <1>2 DEF Filled
  <2> QED BY <2>1, <1>9, <1>2 DEF IsHeap
<1>13. ASSUME NEW e
       PROVE  Count(h, l, e) = Count(d, l - 1, e) + (IF h[1] = e THEN 1 ELSE 0)
  <2> DEFINE g == Swapped(h, 1, l)
  <2>1. l \in 0 .. m /\ 1 \in 1 .. l /\ l \in 1 .. l
    BY <1>2
  <2>2. Count(g, l, e) = Count(h, l, e)
    BY <2>1, <1>2, SwappedIs
  <2>3. \A i \in 1 .. m : g[i] = IF i = l THEN h[1] ELSE IF i = 1 THEN h[l] ELSE h[i]
    BY <2>1, <1>2, SwappedIs
  <2> HIDE DEF g
  <2>4. g[l] = h[1]
    BY <2>3, <1>2
  <2>5. \A i \in 1 .. l - 1 : g[i] = d[i]
    BY <2>3, <1>5, <1>2
  <2>6. Count(g, l - 1, e) = Count(d, l - 1, e)
    BY <2>5, <1>2, CountAgrees
  <2>7. Count(g, (l - 1) + 1, e)
        = Count(g, l - 1, e) + (IF g[(l - 1) + 1] = e THEN 1 ELSE 0)
    BY <1>2, CountLast
  <2>8. (l - 1) + 1 = l
    BY <1>2
  <2> QED BY <2>2, <2>4, <2>6, <2>7, <2>8
<1>13a. TakenOff(r) = [heap |-> u.heap, tail |-> l, wild |-> FALSE, head |-> h[1]]
  <2>1. (r.wild \/ u.wild) = FALSE
    BY <1>10
  <2> QED BY <2>1, <1>4, Zenon DEF u
<1>14. TakenOff(r).heap = u.heap /\ TakenOff(r).tail = l /\ TakenOff(r).wild = FALSE
       /\ TakenOff(r).head = h[1]
  BY <1>13a
<1>15. TakenOff(r) = [heap |-> u.heap, tail |-> l, wild |-> FALSE, head |-> h[1]]
  BY <1>13a
<1>16. ASSUME NEW e
       PROVE  Count(h, t - 1, e) = Count(TakenOff(r).heap, t - 2, e)
                                   + (IF h[1] = e THEN 1 ELSE 0)
  BY <1>13, <1>14, <1>11, <1>1, <1>2
<1> QED BY <1>1, <1>2, <1>12, <1>14, <1>15, <1>16 DEF OneLess

-----------------------------------------------------------------------------
(* Taken *)

\* Before anything is taken.
AtFirst == [heap |-> heap, tail |-> heap_tail, wild |-> FALSE, head |-> NULL]

\* The states in the loop over an array of m slots, with n the first free slot.
Taking(n, m) ==
  { r \in [heap : [1 .. m -> Slot], tail : 1 .. n, wild : {FALSE}, head : Slot \cup {NULL}] :
      IsHeap(r.heap, r.tail, m) }

LEMMA TakingIs ==
  ASSUME NEW m \in Nat, NEW n \in Nat
  PROVE  /\ \A r \in Taking(n, m) : /\ IsHeap(r.heap, r.tail, m) /\ r.wild = FALSE
                                   /\ r.tail \in 1 .. n /\ r.tail \in Nat
                                   /\ r.heap \in [1 .. m -> Slot]
         /\ \A h, t, x : /\ IsHeap(h, t, m) /\ t \in 1 .. n /\ x \in Slot \cup {NULL}
                        => [heap |-> h, tail |-> t, wild |-> FALSE, head |-> x] \in Taking(n, m)
<1>1. ASSUME NEW r \in Taking(n, m)
      PROVE  /\ IsHeap(r.heap, r.tail, m) /\ r.wild = FALSE
             /\ r.tail \in 1 .. n /\ r.tail \in Nat
             /\ r.heap \in [1 .. m -> Slot]
  <2>1. IsHeap(r.heap, r.tail, m)
    BY DEF Taking
  <2>2. r \in [heap : [1 .. m -> Slot], tail : 1 .. n, wild : {FALSE},
               head : Slot \cup {NULL}]
    BY Zenon DEF Taking
  <2>3. r.tail \in 1 .. n /\ r.heap \in [1 .. m -> Slot]
    BY <2>2
  <2>4. r.wild = FALSE
    BY <2>2, Zenon
  <2>5. r.tail \in Nat
    BY <2>3
  <2> QED BY <2>1, <2>3, <2>4, <2>5
<1>2. ASSUME NEW h, NEW t, NEW x, IsHeap(h, t, m), t \in 1 .. n, x \in Slot \cup {NULL}
      PROVE  [heap |-> h, tail |-> t, wild |-> FALSE, head |-> x] \in Taking(n, m)
  <2>1. h \in [1 .. m -> Slot]
    BY <1>2 DEF IsHeap
  <2> QED BY <2>1, <1>2 DEF Taking
<1> QED BY <1>1, <1>2

\* Taken(k) is what is left when entries are taken off k times.
LEMMA TakenIs ==
  ASSUME NEW m \in Nat, IsHeap(heap, heap_tail, m)
  PROVE  /\ Taken(0) = AtFirst
         /\ \A k \in 0 .. heap_tail - 1 :
              /\ IsHeap(Taken(k).heap, heap_tail - k, m)
              /\ Taken(k).tail = heap_tail - k
              /\ Taken(k).wild = FALSE
         /\ \A k \in 1 .. heap_tail - 1 :
              OneLess(Taken(k), Taken(k - 1).heap, heap_tail - (k - 1), m)
<1> DEFINE c == heap_tail - 1
           S == Taking(heap_tail, m)
           Less(r) == IF r.tail >= 2 THEN TakenOff(r) ELSE r
           F == [r \in S |-> Less(r)]
           G(f, k) == [i \in 0 .. k |-> IF i = 0 THEN AtFirst ELSE TakenOff(f[i - 1])]
<1>1. c \in Nat /\ heap_tail \in Nat /\ heap_tail \in 1 .. m + 1
  BY DEF IsHeap
<1>2. AtFirst \in S /\ AtFirst.tail = heap_tail
  <2>1. heap_tail \in 1 .. heap_tail /\ NULL \in Slot \cup {NULL}
    BY <1>1
  <2> QED BY <2>1, <1>1, TakingIs DEF AtFirst
<1>3. ASSUME NEW r \in S, r.tail >= 2
      PROVE  TakenOff(r) \in S /\ OneLess(TakenOff(r), r.heap, r.tail, m)
  <2>1. PICK t : t = r.tail
    OBVIOUS
  <2>2. t \in 2 .. m + 1 /\ t \in 1 .. heap_tail /\ r.tail = t /\ r.wild = FALSE
        /\ IsHeap(r.heap, t, m) /\ r.heap \in [1 .. m -> Slot]
    <3>1. IsHeap(r.heap, t, m) /\ r.wild = FALSE /\ r.heap \in [1 .. m -> Slot]
          /\ t \in 1 .. heap_tail /\ t >= 2
      BY <2>1, <1>1, <1>3, TakingIs
    <3> QED BY <3>1, <2>1, <1>1
  <2>3. OneLess(TakenOff(r), r.heap, t, m)
    BY <2>2, TakenOffIs
  <2>4. TakenOff(r) = [heap |-> TakenOff(r).heap, tail |-> t - 1, wild |-> FALSE,
                       head |-> r.heap[1]]
    BY <2>2, TakenOffIs
  <2>5. IsHeap(TakenOff(r).heap, t - 1, m)
    BY <2>3 DEF OneLess
  <2>6. TakenOff(r).heap \in [1 .. m -> Slot]
    BY <2>5 DEF IsHeap
  <2>7. r.heap[1] \in Slot
    <3>1. 1 \in 1 .. m
      BY <2>2
    <3> QED BY <3>1, <2>2
  <2>8. t - 1 \in 1 .. heap_tail
    BY <2>2, <1>1
  <2>9. PICK x : x = TakenOff(r).heap
    OBVIOUS
  <2>10. TakenOff(r) = [heap |-> x, tail |-> t - 1, wild |-> FALSE, head |-> r.heap[1]]
    BY <2>4, <2>9, Zenon
  <2>11. [heap |-> x, tail |-> t - 1, wild |-> FALSE, head |-> r.heap[1]] \in S
    BY <2>5, <2>7, <2>8, <2>9, <1>1, TakingIs
  <2> QED BY <2>3, <2>10, <2>11, <2>1
<1>4. F \in [S -> S] /\ \A r \in S : r.tail >= 2 => F[r] = TakenOff(r)
  <2>1. ASSUME NEW r \in S PROVE Less(r) \in S
    BY <1>3
  <2> QED BY <2>1
<1>5. \A r \in S : IsHeap(r.heap, r.tail, m) /\ r.wild = FALSE /\ r.tail \in Nat
  BY <1>1, TakingIs
<1> HIDE DEF S, F
<1>6. PICK f : IsIteration(f, c, S, AtFirst, F)
  BY <1>1, <1>2, <1>4, Iterates
<1>7. f[0] = AtFirst /\ \A i \in 0 .. c - 1 : f[i + 1] = F[f[i]]
  <2>1. \A i \in 0 .. c - 1 : i + 1 \in 0 .. c /\ i + 1 # 0 /\ (i + 1) - 1 = i
    BY <1>1
  <2> QED BY <2>1, <1>1, <1>6 DEF IsIteration
<1>8. \A i \in 0 .. c : f[i] \in S
  BY <1>6 DEF IsIteration
<1>9. \A i \in 0 .. c : f[i].tail = heap_tail - i
  <2> DEFINE A == {i \in Int : i \in 0 .. c => f[i].tail = heap_tail - i}
             a == 0
  <2>1. a \in A
    BY <1>2, <1>7, <1>1
  <2>2. ASSUME NEW i \in a .. c - 1, i \in A PROVE i + 1 \in A
    <3>1. i \in 0 .. c /\ i + 1 \in Int /\ f[i] \in S /\ f[i].tail = heap_tail - i
      BY <2>2, <1>1, <1>8
    <3>2. f[i].tail >= 2
      BY <3>1, <2>2, <1>1
    <3>3. f[i + 1] = TakenOff(f[i])
      BY <3>1, <3>2, <1>4, <1>7, <2>2
    <3>4. TakenOff(f[i]).tail = heap_tail - i - 1
      BY <3>1, <3>2, <1>3 DEF OneLess
    <3> QED BY <3>1, <3>3, <3>4, <1>1
  <2> HIDE DEF A
  <2>3. a \in Int /\ c \in Int
    BY <1>1
  <2>4. a .. c \subseteq A
    BY <2>1, <2>2, <2>3, IntervalInduct
  <2> QED BY <2>4 DEF A
<1>10. \A i \in 0 .. c - 1 : f[i + 1] = TakenOff(f[i])
  <2> SUFFICES ASSUME NEW i \in 0 .. c - 1 PROVE f[i + 1] = TakenOff(f[i])
    OBVIOUS
  <2>1. i \in 0 .. c /\ f[i].tail >= 2
    BY <1>1, <1>9
  <2> QED BY <2>1, <1>4, <1>7, <1>8
<1>11. ASSUME NEW k \in 0 .. c PROVE Taken(k) = f[k]
  <2> DEFINE e == [i \in 0 .. k |-> f[i]]
             g == CHOOSE h : h = G(h, k)
  <2>1. k \in Nat /\ k \in 0 .. k /\ 0 \in 0 .. k
    BY <1>1
  <2>2. e = G(e, k)
    <3>1. ASSUME NEW i \in 0 .. k
          PROVE e[i] = IF i = 0 THEN AtFirst ELSE TakenOff(e[i - 1])
      <4>1. CASE i = 0
        BY <4>1, <1>7
      <4>2. CASE i # 0
        <5>1. i - 1 \in 0 .. c - 1 /\ i - 1 \in 0 .. k /\ (i - 1) + 1 = i
          BY <4>2, <2>1, <1>1
        <5>2. f[(i - 1) + 1] = TakenOff(f[i - 1])
          BY <5>1, <1>10
        <5> QED BY <5>1, <5>2, <4>2
      <4> QED BY <4>1, <4>2
    <3> DEFINE b == e
    <3>2. b \in [0 .. k -> {b[i] : i \in 0 .. k}]
      OBVIOUS
    <3>3. \A i \in 0 .. k : b[i] = IF i = 0 THEN AtFirst ELSE TakenOff(b[i - 1])
      BY <3>1
    <3> HIDE DEF b
    <3>4. b = G(b, k)
      BY <3>2, <3>3
    <3> QED BY <3>4 DEF b
  <2>3. g = G(g, k)
    BY <2>2
  <2>4. Taken(k) = g[k]
    BY Zenon DEF Taken, AtFirst
  <2> HIDE DEF g
  <2>5. g[0] = AtFirst /\ \A i \in 0 .. k - 1 : g[i + 1] = TakenOff(g[i])
    <3>1. \A i \in 0 .. k - 1 : i + 1 \in 0 .. k /\ i + 1 # 0 /\ (i + 1) - 1 = i
      BY <2>1
    <3> QED BY <3>1, <2>1, <2>3
  <2> DEFINE A == {i \in Int : g[i] = f[i]}
             a == 0
  <2>6. a \in A
    BY <2>5, <1>7
  <2>7. ASSUME NEW i \in a .. k - 1, i \in A PROVE i + 1 \in A
    <3>1. i \in 0 .. c - 1 /\ i \in 0 .. k - 1 /\ i + 1 \in Int
      BY <2>7, <2>1, <1>1
    <3>2. g[i] = f[i] /\ g[i + 1] = TakenOff(g[i]) /\ f[i + 1] = TakenOff(f[i])
      BY <3>1, <2>7, <2>5, <1>10
    <3>3. g[i + 1] = f[i + 1]
      BY <3>2
    <3> QED BY <3>1, <3>3
  <2> HIDE DEF A
  <2>8. a \in Int /\ k \in Int
    BY <2>1
  <2>9. a .. k \subseteq A
    BY <2>6, <2>7, <2>8, IntervalInduct
  <2>10. k \in A
    BY <2>9, <2>1
  <2> QED BY <2>10, <2>4 DEF A
<1>12. Taken(0) = AtFirst
  BY <1>11, <1>7, <1>1
<1>13. ASSUME NEW k \in 0 .. c
       PROVE  /\ IsHeap(Taken(k).heap, heap_tail - k, m)
              /\ Taken(k).tail = heap_tail - k
              /\ Taken(k).wild = FALSE
  <2>1. Taken(k) \in S /\ Taken(k).tail = heap_tail - k
    BY <1>8, <1>9, <1>11
  <2> QED BY <2>1, <1>5
<1>14. ASSUME NEW k \in 1 .. c
       PROVE  OneLess(Taken(k), Taken(k - 1).heap, heap_tail - (k - 1), m)
  <2>1. k \in 0 .. c /\ k - 1 \in 0 .. c /\ k - 1 \in 0 .. c - 1 /\ (k - 1) + 1 = k
    BY <1>1
  <2>2. f[(k - 1) + 1] = TakenOff(f[k - 1])
    BY <2>1, <1>10
  <2>3. f[k - 1] \in S /\ f[k - 1].tail = heap_tail - (k - 1)
    BY <2>1, <1>8, <1>9
  <2>4. f[k - 1].tail >= 2
    BY <2>3, <1>1
  <2>5. OneLess(TakenOff(f[k - 1]), f[k - 1].heap, heap_tail - (k - 1), m)
    BY <2>3, <2>4, <1>3
  <2>6. Taken(k) = f[k] /\ Taken(k - 1) = f[k - 1]
    BY <2>1, <1>11
  <2> QED BY <2>1, <2>2, <2>5, <2>6
<1> QED BY <1>12, <1>13, <1>14

-----------------------------------------------------------------------------
(* The invariant, and what each operation does to it and to the queue *)

IInv ==
  /\ wild = FALSE
  /\ \E m \in Nat \ {0} : IsHeap(heap, heap_tail, m)

\* The entries a caller puts in and gets back, and how often each is pending.
Proper == [cost : Cost, index : Index]
Pending == [e \in Proper |-> Count(heap, heap_tail - 1, e)]

LEMMA ProperIs ==
  ASSUME NEW e \in Proper
  PROVE  e \in Entry /\ e.index \in Index /\ IsValid(e) /\ e.cost \in Cost
  BY HeapAssumption DEF Proper, Entry, IsValid

LEMMA InitHolds == Init => IInv /\ Pending = [e \in Proper |-> 0]
<1> SUFFICES ASSUME Init PROVE IInv /\ Pending = [e \in Proper |-> 0]
  OBVIOUS
<1>1. InitSize \in Nat \ {0} /\ heap_tail = 1 /\ heap_tail - 1 = 0 /\ 0 \in Nat
  BY HeapAssumption DEF Init
<1>2. heap \in [1 .. InitSize -> Slot]
  BY DEF Init, Slot
<1>3. IsHeap(heap, heap_tail, InitSize)
  BY <1>1, <1>2 DEF IsHeap, Filled, Ordered
<1>4. ASSUME NEW e PROVE Count(heap, 0, e) = 0
  <2>1. \A i \in 1 .. 0 : heap[i] # e
    OBVIOUS
  <2> QED BY <2>1, <1>1, CountNone
<1>5. wild = FALSE
  BY DEF Init
<1> QED BY <1>1, <1>3, <1>4, <1>5 DEF IInv, Pending

\* add_to_heap: the heap keeps its order and holds one entry more, also when the
\* array has to grow.
LEMMA AddStep ==
  ASSUME IInv, NEW e \in Proper, AddToHeap(e)
  PROVE  IInv' /\ Pending' = [Pending EXCEPT ![e] = @ + 1] /\ head' = head
<1>1. PICK m \in Nat \ {0} : IsHeap(heap, heap_tail, m)
  BY DEF IInv
<1>2. /\ heap \in [1 .. m -> Slot] /\ heap_tail \in 1 .. m + 1 /\ heap_tail \in Nat
      /\ Filled(heap, heap_tail - 1) /\ Ordered(heap, heap_tail - 1)
  BY <1>1 DEF IsHeap
<1>3. heap_size(heap) = m
  <2>1. Cardinality(1 .. m) = m
    BY FS_Interval
  <2> QED BY <2>1, <1>2 DEF heap_size
<1> DEFINE l == IF heap_tail > m THEN 2 * m ELSE m
<1>4. l \in Nat /\ l \in Nat \ {0} /\ heap_tail \in 1 .. l /\ m <= l
  BY <1>2
<1>5. Grown \in [1 .. l -> Slot] /\ \A i \in 1 .. m : Grown[i] = heap[i]
  <2>1. CASE heap_tail > m
    <3>1. Grown = [i \in 1 .. 2 * m |-> IF i \in 1 .. m THEN heap[i] ELSE Junk]
      BY <2>1, <1>2, <1>3 DEF Grown
    <3>2. \A i \in 1 .. 2 * m : (IF i \in 1 .. m THEN heap[i] ELSE Junk) \in Slot
      BY <1>2 DEF Slot
    <3> QED BY <3>1, <3>2, <2>1
  <2>2. CASE ~(heap_tail > m)
    BY <2>2, <1>2, <1>3 DEF Grown
  <2> QED BY <2>1, <2>2
<1> DEFINE g == [Grown EXCEPT ![heap_tail] = e]
<1> HIDE DEF l
<1>6. /\ e \in Entry /\ e \in Slot
  BY ProperIs DEF Slot
<1>7. /\ g \in [1 .. l -> Slot] /\ g[heap_tail] = e
      /\ \A i \in 1 .. heap_tail - 1 : g[i] = heap[i]
  <2>1. \A i \in 1 .. heap_tail - 1 : i \in 1 .. m /\ i \in 1 .. l /\ i # heap_tail
    BY <1>2, <1>4
  <2> QED BY <2>1, <1>4, <1>5, <1>6
<1>8. heap' = SiftedUp(g, heap_tail) /\ wild' = wild /\ heap_tail' = heap_tail + 1
      /\ head' = head
  <2>1. heap_tail \in DOMAIN Grown
    BY <1>4, <1>5
  <2> QED BY <2>1 DEF AddToHeap
<1> HIDE DEF g
<1>9. Filled(g, heap_tail)
  <2> SUFFICES ASSUME NEW i \in 1 .. heap_tail PROVE g[i] \in Entry
    BY DEF Filled
  <2>1. CASE i = heap_tail
    BY <2>1, <1>6, <1>7
  <2>2. CASE i # heap_tail
    <3>1. i \in 1 .. heap_tail - 1
      BY <2>2, <1>2
    <3> QED BY <3>1, <1>7, <1>2 DEF Filled
  <2> QED BY <2>1, <2>2
<1>10. Ordered(g, heap_tail - 1)
  <2> SUFFICES ASSUME NEW j \in 2 .. heap_tail - 1
               PROVE  g[j \div 2].cost <= g[j].cost
    BY DEF Ordered
  <2>1. PICK q \in Nat : q = j \div 2 /\ q < j /\ q >= 1
    BY Half
  <2>2. q \in 1 .. heap_tail - 1 /\ j \in 1 .. heap_tail - 1
    BY <2>1, <1>2
  <2>3. heap[q].cost <= heap[j].cost
    BY <2>1, <1>2 DEF Ordered
  <2> QED BY <2>1, <2>2, <2>3, <1>7
<1> DEFINE u == SiftedUp(g, heap_tail)
<1>11. u \in [1 .. l -> Slot] /\ Filled(u, heap_tail) /\ Ordered(u, heap_tail)
  BY <1>4, <1>7, <1>9, <1>10, SiftedUpIs
<1>12. \A x : Count(u, heap_tail, x) = Count(g, heap_tail, x)
  BY <1>4, <1>7, <1>9, <1>10, SiftedUpIs
<1> HIDE DEF u
<1>13. IsHeap(u, heap_tail + 1, l)
  <2>1. (heap_tail + 1) - 1 = heap_tail /\ heap_tail + 1 \in 1 .. l + 1
    BY <1>2, <1>4
  <2> QED BY <2>1, <1>11 DEF IsHeap
<1>14. IInv'
  <2>1. heap' = u /\ heap_tail' = heap_tail + 1 /\ wild' = FALSE
    BY <1>8 DEF u, IInv
  <2> QED BY <2>1, <1>13, <1>4 DEF IInv
<1>15. ASSUME NEW x \in Proper
       PROVE  Count(u, heap_tail, x)
              = Count(heap, heap_tail - 1, x) + (IF e = x THEN 1 ELSE 0)
  <2>1. heap_tail - 1 \in Nat /\ (heap_tail - 1) + 1 = heap_tail
    BY <1>2
  <2>2. Count(g, (heap_tail - 1) + 1, x)
        = Count(g, heap_tail - 1, x) + (IF g[(heap_tail - 1) + 1] = x THEN 1 ELSE 0)
    BY <2>1, CountLast
  <2>3. Count(g, heap_tail - 1, x) = Count(heap, heap_tail - 1, x)
    <3>1. \A i \in 1 .. heap_tail - 1 : g[i] = heap[i]
      BY <1>7
    <3>2. PICK n \in Nat : n = heap_tail - 1
      BY <2>1
    <3>3. \A i \in 1 .. n : g[i] = heap[i]
      BY <3>1, <3>2
    <3>4. Count(g, n, x) = Count(heap, n, x)
      BY <3>3, CountAgrees
    <3> QED BY <3>2, <3>4
  <2> QED BY <2>1, <2>2, <2>3, <1>7, <1>12
<1>16. \A x \in Proper : Count(heap, heap_tail - 1, x) \in Nat
  <2>1. heap_tail - 1 \in Nat
    BY <1>2
  <2> QED BY <2>1, CountIsNat
<1>17. Pending' = [Pending EXCEPT ![e] = @ + 1]
  <2>1. heap' = u /\ heap_tail' - 1 = heap_tail
    BY <1>2, <1>8 DEF u
  <2>2. Pending' = [x \in Proper |-> Count(u, heap_tail, x)]
    BY <2>1 DEF Pending
  <2>3. \A x \in Proper : Count(u, heap_tail, x) =
          [Pending EXCEPT ![e] = @ + 1][x]
    BY <1>15, <1>16 DEF Pending
  <2>4. [Pending EXCEPT ![e] = @ + 1] = [x \in Proper |-> [Pending EXCEPT ![e] = @ + 1][x]]
    BY DEF Pending
  <2> QED BY <2>2, <2>3, <2>4
<1> QED BY <1>8, <1>14, <1>17

\* While only invalid entries come up, no proper entry is lost.
LEMMA SkippingKeeps ==
  ASSUME NEW m \in Nat, IsHeap(heap, heap_tail, m), NEW k \in 0 .. heap_tail - 1,
         \A j \in 1 .. k : ~IsValid(Taken(j).head)
  PROVE  \A e \in Proper : Count(Taken(k).heap, heap_tail - k - 1, e)
                           = Count(heap, heap_tail - 1, e)
<1>1. heap_tail \in Nat /\ k \in Nat
  BY DEF IsHeap
<1> DEFINE A == {i \in Int : \A e \in Proper :
                   Count(Taken(i).heap, heap_tail - i - 1, e) = Count(heap, heap_tail - 1, e)}
           a == 0
<1>2. a \in A
  <2>1. Taken(0).heap = heap
    <3>1. Taken(0) = AtFirst
      BY TakenIs
    <3> QED BY <3>1 DEF AtFirst
  <2>2. heap_tail - 0 - 1 = heap_tail - 1
    BY <1>1
  <2> QED BY <2>1, <2>2
<1>3. ASSUME NEW i \in a .. k - 1, i \in A PROVE i + 1 \in A
  <2>1. /\ i + 1 \in 1 .. k /\ i + 1 \in 1 .. heap_tail - 1 /\ (i + 1) - 1 = i /\ i + 1 \in Int
        /\ i \in 0 .. heap_tail - 1
    BY <1>1, <1>3
  <2>2. OneLess(Taken(i + 1), Taken((i + 1) - 1).heap, heap_tail - ((i + 1) - 1), m)
    BY <2>1, TakenIs
  <2>3. OneLess(Taken(i + 1), Taken(i).heap, heap_tail - i, m)
    BY <2>1, <2>2
  <2>4. ASSUME NEW e \in Proper
        PROVE  Count(Taken(i + 1).heap, heap_tail - (i + 1) - 1, e)
               = Count(heap, heap_tail - 1, e)
    <3>1. Taken(i + 1).head # e
      BY <2>1, ProperIs
    <3>2. Count(Taken(i).heap, heap_tail - i - 1, e)
          = Count(Taken(i + 1).heap, heap_tail - i - 2, e)
            + (IF Taken(i + 1).head = e THEN 1 ELSE 0)
      BY <2>3 DEF OneLess
    <3>3. heap_tail - i - 2 = heap_tail - (i + 1) - 1 /\ heap_tail - i - 2 \in Nat
      BY <1>1, <2>1
    <3>4. Count(Taken(i + 1).heap, heap_tail - i - 2, e) \in Nat
      BY <3>3, CountIsNat
    <3> QED BY <3>1, <3>2, <3>3, <3>4, <1>3
  <2> QED BY <2>1, <2>4
<1> HIDE DEF A
<1>4. a \in Int /\ k \in Int
  BY <1>1
<1>5. a .. k \subseteq A
  BY <1>2, <1>3, <1>4, IntervalInduct
<1> QED BY <1>5, <1>1 DEF A

\* get_heap_head: the invalid entries on the way are dropped, and the entry handed out
\* is a cheapest of the proper ones; NULL comes back only when there is none.
LEMMA GetStep ==
  ASSUME IInv, GetHeapHead
  PROVE  /\ IInv'
         /\ \/ \E e \in Proper :
                 /\ Pending[e] > 0
                 /\ \A f \in Proper : Pending[f] > 0 => e.cost <= f.cost
                 /\ Pending' = [Pending EXCEPT ![e] = @ - 1]
                 /\ head' = e
            \/ /\ \A e \in Proper : Pending[e] = 0
               /\ head' = NULL
               /\ Pending' = Pending
<1>1. PICK m \in Nat \ {0} : IsHeap(heap, heap_tail, m)
  BY DEF IInv
<1>2. heap_tail \in Nat /\ heap_tail - 1 \in Nat
  BY <1>1 DEF IsHeap
<1>3. PICK k \in 0 .. heap_tail - 1 :
        /\ \A j \in 1 .. k - 1 : ~IsValid(Taken(j).head)
        /\ IF k > 0 /\ IsValid(Taken(k).head) THEN head' = Taken(k).head
           ELSE k = heap_tail - 1 /\ head' = NULL
        /\ heap' = Taken(k).heap /\ heap_tail' = Taken(k).tail /\ wild' = Taken(k).wild
  BY DEF GetHeapHead
<1>4. IsHeap(heap', heap_tail', m) /\ wild' = FALSE /\ heap_tail' = heap_tail - k
  BY <1>1, <1>3, TakenIs
<1>5. IInv'
  BY <1>4 DEF IInv
<1>6. Pending' = [e \in Proper |-> Count(Taken(k).heap, heap_tail - k - 1, e)]
  BY <1>3, <1>4 DEF Pending
<1>7. \A e \in Proper : Count(heap, heap_tail - 1, e) \in Nat
  BY <1>2, CountIsNat
<1>8. CASE k > 0 /\ IsValid(Taken(k).head)
  <2>1. PICK i \in Nat : i = k - 1
    BY <1>8
  <2>2. i \in 0 .. heap_tail - 1 /\ k \in 1 .. heap_tail - 1
    BY <2>1, <1>2, <1>8
  <2>3. OneLess(Taken(k), Taken(k - 1).heap, heap_tail - (k - 1), m)
    BY <1>1, <2>2, TakenIs
  <2>4. PICK h, n : h = Taken(i).heap /\ n = heap_tail - i - 1
    OBVIOUS
  <2>5. /\ n \in Nat /\ n >= 1 /\ (n + 1) - 1 = n /\ (n + 1) - 2 = heap_tail - k - 1
        /\ heap_tail - i = n + 1 /\ heap_tail - k - 1 \in Nat
    BY <2>1, <2>2, <2>4, <1>2
  <2>6. IsHeap(h, n + 1, m) /\ OneLess(Taken(k), h, n + 1, m)
    <3>1. IsHeap(Taken(i).heap, heap_tail - i, m)
      BY <1>1, <2>2, TakenIs
    <3> QED BY <3>1, <2>1, <2>3, <2>4, <2>5
  <2>7. Filled(h, n) /\ Ordered(h, n)
    BY <2>5, <2>6 DEF IsHeap
  <2>8. ASSUME NEW e \in Proper PROVE Count(h, n, e) = Count(heap, heap_tail - 1, e)
    <3>1. \A j \in 1 .. i : ~IsValid(Taken(j).head)
      BY <1>3, <2>1
    <3> QED BY <3>1, <2>2, <2>4, <1>1, SkippingKeeps
  <2>9. PICK x : x = Taken(k).head
    OBVIOUS
  <2>10. x = h[1] /\ x \in Entry /\ head' = x /\ IsValid(x)
    <3>1. h[1] \in Entry
      BY <2>5, <2>7 DEF Filled
    <3> QED BY <3>1, <2>6, <2>9, <1>3, <1>8 DEF OneLess
  <2>11. x \in Proper
    BY <2>10 DEF Entry, Proper, IsValid
  <2>12. ASSUME NEW e \in Proper
         PROVE  Count(heap, heap_tail - 1, e)
                = Count(Taken(k).heap, heap_tail - k - 1, e) + (IF x = e THEN 1 ELSE 0)
    <3>1. Count(h, (n + 1) - 1, e)
          = Count(Taken(k).heap, (n + 1) - 2, e) + (IF h[1] = e THEN 1 ELSE 0)
      BY <2>6 DEF OneLess
    <3> QED BY <3>1, <2>5, <2>8, <2>10
  <2>13. \A e \in Proper : Count(Taken(k).heap, heap_tail - k - 1, e) \in Nat
    BY <2>5, CountIsNat
  <2>14. Pending[x] > 0
    BY <2>11, <2>12, <2>13 DEF Pending
  <2>15. ASSUME NEW f \in Proper, Pending[f] > 0 PROVE x.cost <= f.cost
    <3>1. Count(h, n, f) # 0
      BY <2>15, <2>8, <1>7 DEF Pending
    <3>2. PICK j \in 1 .. n : h[j] = f
      BY <3>1, <2>5, CountNone
    <3>3. h[1].cost <= h[j].cost
      BY <2>5, <2>7, RootIsCheapest
    <3> QED BY <3>2, <3>3, <2>10
  <2>16. Pending' = [Pending EXCEPT ![x] = @ - 1]
    <3>1. \A e \in Proper : Count(Taken(k).heap, heap_tail - k - 1, e)
                            = [Pending EXCEPT ![x] = @ - 1][e]
      BY <2>11, <2>12, <2>13 DEF Pending
    <3>2. [Pending EXCEPT ![x] = @ - 1]
          = [e \in Proper |-> [Pending EXCEPT ![x] = @ - 1][e]]
      BY DEF Pending
    <3> QED BY <3>1, <3>2, <1>6
  <2> QED BY <1>5, <2>10, <2>11, <2>14, <2>15, <2>16
<1>9. CASE ~(k > 0 /\ IsValid(Taken(k).head))
  <2>1. k = heap_tail - 1 /\ head' = NULL
    BY <1>3, <1>9
  <2>2. ASSUME NEW j \in 1 .. k PROVE ~IsValid(Taken(j).head)
    <3>1. CASE j = k
      BY <3>1, <1>9
    <3>2. CASE j # k
      <4>1. j \in 1 .. k - 1
        BY <3>2
      <4> QED BY <4>1, <1>3
    <3> QED BY <3>1, <3>2
  <2>3. \A e \in Proper : Count(Taken(k).heap, heap_tail - k - 1, e)
                          = Count(heap, heap_tail - 1, e)
    BY <2>2, <1>1, SkippingKeeps
  <2>4. Pending' = Pending
    BY <2>3, <1>6 DEF Pending
  <2>5. ASSUME NEW e \in Proper PROVE Pending[e] = 0
    <3>1. Count(Taken(k).heap, 0, e) = 0
      <4>1. \A i \in 1 .. 0 : Taken(k).heap[i] # e
        OBVIOUS
      <4> QED BY <4>1, CountNone
    <3>2. heap_tail - k - 1 = 0
      BY <2>1, <1>2
    <3> QED BY <3>1, <3>2, <2>3 DEF Pending
  <2> QED BY <1>5, <2>1, <2>4, <2>5
<1> QED BY <1>8, <1>9

\* invalidate_heap_entries: the order stays, and just the entries of n go.
LEMMA InvalidateStep ==
  ASSUME IInv, NEW n \in Index, InvalidateHeapEntries(n)
  PROVE  /\ IInv' /\ head' = head
         /\ Pending' = [e \in Proper |-> IF e.index = n THEN 0 ELSE Pending[e]]
<1>1. PICK m \in Nat \ {0} : IsHeap(heap, heap_tail, m)
  BY DEF IInv
<1>2. PICK l \in Nat : /\ heap_tail - 1 = l /\ heap_tail = l + 1 /\ heap_tail \in 1 .. m + 1
                       /\ heap \in [1 .. m -> Slot] /\ Filled(heap, l) /\ Ordered(heap, l)
  BY <1>1 DEF IsHeap
<1>3. /\ heap_tail' = heap_tail /\ head' = head /\ wild' = FALSE
      /\ heap' = [i \in 1 .. m |-> IF i < heap_tail /\ heap[i].index = n
                                   THEN [heap[i] EXCEPT !.index = OPEN] ELSE heap[i]]
  BY <1>2 DEF InvalidateHeapEntries, IInv
<1>4. ASSUME NEW x \in Entry
      PROVE  /\ [x EXCEPT !.index = OPEN] \in Entry
             /\ [x EXCEPT !.index = OPEN].cost = x.cost
             /\ [x EXCEPT !.index = OPEN].index = OPEN
  BY DEF Entry
<1>5. ASSUME NEW i \in 1 .. l
      PROVE  /\ i \in 1 .. m /\ heap[i] \in Entry
             /\ heap'[i] = IF heap[i].index = n THEN [heap[i] EXCEPT !.index = OPEN]
                           ELSE heap[i]
  BY <1>2, <1>3, SMTT(30) DEF Filled
<1>6. ASSUME NEW i \in 1 .. l
      PROVE  heap'[i] \in Entry /\ heap'[i].cost = heap[i].cost
  BY <1>4, <1>5
<1>7. heap' \in [1 .. m -> Slot]
  <2>1. ASSUME NEW i \in 1 .. m
        PROVE  (IF i < heap_tail /\ heap[i].index = n
                THEN [heap[i] EXCEPT !.index = OPEN] ELSE heap[i]) \in Slot
    <3>1. CASE i < heap_tail
      <4>1. i \in 1 .. l
        BY <3>1, <1>2
      <4> QED BY <4>1, <1>4, <1>5, <1>2 DEF Slot
    <3>2. CASE ~(i < heap_tail)
      BY <3>2, <1>2
    <3> QED BY <3>1, <3>2
  <2> QED BY <2>1, <1>3
<1>8. IsHeap(heap', heap_tail', m)
  <2>1. ASSUME NEW j \in 2 .. l PROVE heap'[j \div 2].cost <= heap'[j].cost
    <3>1. PICK q \in Nat : q = j \div 2 /\ q < j /\ q >= 1
      BY Half
    <3>2. q \in 1 .. l /\ j \in 1 .. l
      BY <3>1
    <3>3. heap[q].cost <= heap[j].cost
      BY <3>1, <1>2 DEF Ordered
    <3> QED BY <3>1, <3>2, <3>3, <1>6
  <2>2. Filled(heap', l) /\ Ordered(heap', l)
    BY <2>1, <1>6 DEF Filled, Ordered
  <2> QED BY <2>2, <1>2, <1>3, <1>7 DEF IsHeap
<1>9. ASSUME NEW e \in Proper
      PROVE  Count(heap', l, e) = IF e.index = n THEN 0 ELSE Count(heap, l, e)
  <2>1. e.index # OPEN
    BY ProperIs DEF IsValid
  <2>2. CASE e.index = n
    <3>1. ASSUME NEW i \in 1 .. l  PROVE heap'[i] # e
      <4>1. CASE heap[i].index = n
        <5>1. heap'[i].index = OPEN
          <6>1. heap[i] \in Entry /\ heap'[i] = [heap[i] EXCEPT !.index = OPEN]
            BY <4>1, <1>5
          <6>2. [heap[i] EXCEPT !.index = OPEN].index = OPEN
            BY <6>1, <1>4
          <6> QED BY <6>1, <6>2
        <5> QED BY <5>1, <2>1
      <4>2. CASE heap[i].index # n
        BY <4>2, <2>2, <1>5
      <4> QED BY <4>1, <4>2
    <3> QED BY <3>1, <2>2, CountNone
  <2>3. CASE e.index # n
    <3>1. ASSUME NEW i \in 1 .. l  PROVE heap'[i] = e <=> heap[i] = e
      <4>1. CASE heap[i].index = n
        <5>1. heap'[i].index = OPEN
          <6>1. heap[i] \in Entry /\ heap'[i] = [heap[i] EXCEPT !.index = OPEN]
            BY <4>1, <1>5
          <6>2. [heap[i] EXCEPT !.index = OPEN].index = OPEN
            BY <6>1, <1>4
          <6> QED BY <6>1, <6>2
        <5> QED BY <5>1, <4>1, <2>1, <2>3
      <4>2. CASE heap[i].index # n
        BY <4>2, <1>5
      <4> QED BY <4>1, <4>2
    <3>2. Holding(heap', l, e) = Holding(heap, l, e)
      BY <3>1 DEF Holding
    <3> QED BY <3>2, <2>3 DEF Count
  <2> QED BY <2>2, <2>3
<1>10. IInv'
  BY <1>3, <1>8 DEF IInv
<1>11. Pending' = [e \in Proper |-> IF e.index = n THEN 0 ELSE Pending[e]]
  BY <1>2, <1>3, <1>9 DEF Pending
<1> QED BY <1>3, <1>10, <1>11

\* empty_heap.
LEMMA EmptyStep ==
  ASSUME IInv, EmptyHeap
  PROVE  IInv' /\ head' = head /\ Pending' = [e \in Proper |-> 0]
<1>1. PICK m \in Nat \ {0} : IsHeap(heap, heap_tail, m)
  BY DEF IInv
<1>2. heap_tail' = 1 /\ heap' = heap /\ head' = head /\ wild' = FALSE
  BY DEF EmptyHeap, IInv
<1>3. IsHeap(heap', heap_tail', m)
  BY <1>1, <1>2 DEF IsHeap, Filled, Ordered
<1>4. ASSUME NEW e PROVE Count(heap', 0, e) = 0
  <2>1. \A i \in 1 .. 0 : heap'[i] # e
    OBVIOUS
  <2> QED BY <2>1, CountNone
<1>5. heap_tail' - 1 = 0
  BY <1>2
<1> QED BY <1>2, <1>3, <1>4, <1>5 DEF IInv, Pending

\* The invariant holds always.
LEMMA NextKeeps == IInv /\ [Next]_vars => IInv'
<1> SUFFICES ASSUME IInv, [Next]_vars PROVE IInv'
  OBVIOUS
<1>1. ASSUME NEW c \in Cost, NEW n \in Index, AddToHeap([cost |-> c, index |-> n])
      PROVE  IInv'
  <2>1. [cost |-> c, index |-> n] \in Proper
    BY DEF Proper
  <2> QED BY <2>1, <1>1, AddStep
<1>2. CASE GetHeapHead
  BY <1>2, GetStep
<1>3. ASSUME NEW n \in Index, InvalidateHeapEntries(n) PROVE IInv'
  BY <1>3, InvalidateStep
<1>4. CASE EmptyHeap
  BY <1>4, EmptyStep
<1>5. CASE UNCHANGED vars
  BY <1>5 DEF vars, IInv
<1> QED BY <1>1, <1>2, <1>3, <1>4, <1>5 DEF Next

LEMMA AlwaysIInv == Spec => []IInv
<1>1. Init => IInv
  BY InitHolds
<1> QED BY <1>1, NextKeeps, PTL DEF Spec

-----------------------------------------------------------------------------
(* Theorems *)

\* get_heap_head compares heap[ito + 1] although only ito < heap_tail was tested: for
\* every number of entries and every size of the array, that slot is inside the array
\* and has been written.
THEOREM ReadsWithinHeap == Spec => []NoWildAccess
<1>1. IInv => NoWildAccess
  BY DEF IInv, NoWildAccess
<1> QED BY <1>1, AlwaysIInv, PTL

\* The heap is a priority queue: it hands out a cheapest valid entry, loses none and
\* invents none, whatever is added, invalidated or thrown away in between.
THEOREM HeapIsQueue == Spec => ImplementsQueue
<1>1. Init => Queue!Init
  <2> SUFFICES ASSUME Init PROVE Queue!Init
    OBVIOUS
  <2>1. Pending = [e \in Proper |-> 0] /\ head = NULL
    BY InitHolds DEF Init
  <2> QED BY <2>1 DEF Queue!Init, Queue!Entry, Pending, Proper, Count, Holding
<1>2. IInv /\ [Next]_vars => [Queue!Next]_(Queue!vars)
  <2> SUFFICES ASSUME IInv, [Next]_vars PROVE Queue!Next \/ UNCHANGED Queue!vars
    OBVIOUS
  <2>1. ASSUME NEW c \in Cost, NEW n \in Index, AddToHeap([cost |-> c, index |-> n])
        PROVE  \E e \in Queue!Entry : Queue!Insert(e)
    <3>1. [cost |-> c, index |-> n] \in Proper
      BY DEF Proper
    <3>2. PICK e \in Proper : Pending' = [Pending EXCEPT ![e] = @ + 1] /\ head' = head
      BY <3>1, <2>1, AddStep
    <3> QED BY <3>2 DEF Queue!Insert, Queue!Entry, Pending, Proper, Count, Holding
  <2>2. ASSUME GetHeapHead PROVE Queue!GetHead
    BY <2>2, GetStep
       DEF Queue!GetHead, Queue!IsEmpty, Queue!Entry, Pending, Proper, Count, Holding
  <2>3. ASSUME NEW n \in Index, InvalidateHeapEntries(n) PROVE Queue!Invalidate(n)
    BY <2>3, InvalidateStep
       DEF Queue!Invalidate, Queue!Entry, Pending, Proper, Count, Holding
  <2>4. ASSUME EmptyHeap PROVE Queue!Clear
    BY <2>4, EmptyStep DEF Queue!Clear, Queue!Entry, Pending, Proper, Count, Holding
  <2>5. CASE UNCHANGED vars
    BY <2>5 DEF vars, Queue!vars
  <2> QED BY <2>1, <2>2, <2>3, <2>4, <2>5 DEF Next, Queue!Next
<1> QED BY <1>1, <1>2, AlwaysIInv, PTL DEF Spec, ImplementsQueue, Queue!Spec
=============================================================================
