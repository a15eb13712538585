-------------------------- MODULE MazeSearchProofs --------------------------
(***************************************************************************)
(* The search for a connection is right for every graph, all prices and    *)
(* estimates, and whatever earlier searches have left in rr_node_route_inf.*)
(*                                                                         *)
(* The invariant has three parts.  Along prev_node the backward cost       *)
(* falls, or stays and the node was expanded before: no way back can loop. *)
(* Every backward cost is that of a walk from the SOURCE whose nodes are   *)
(* noted with no more than the walk costs there: so no walk meets a node   *)
(* twice, and no cost comes near HUGE_POSITIVE_FLOAT.  And an edge from an *)
(* expanded node leads to an expanded node or to one on the heap.          *)
(***************************************************************************)
EXTENDS MazeSearch, DataInduction

N == Cardinality(Node)

TypeOK ==
  /\ path_cost \in [Node -> 0 .. HUGE]
  /\ back_cost \in [Node -> Nat]
  /\ prev_node \in [Node -> Node \cup {NO_PREVIOUS}]
  /\ modified \subseteq Node
  /\ heap \subseteq Entry
  /\ search \in 1 .. NumSearches + 1
  /\ price \in Prices
  /\ estimate \in Estimates
  /\ trace \in Seq(Node)
  /\ pc \in {"idle", "search"}

\* The nodes expanded by this search are those on the list.
Cleaned ==
  /\ \A n \in Node : n \in modified <=> path_cost[n] # HUGE
  /\ pc = "idle" => modified = {} /\ heap = {}
  /\ pc = "search" => search \in Search /\ TargetOf[search] \notin modified

\* Node n was expanded from an expanded node, at a cost that is still covered by
\* what is noted there; where nothing was added, that node was expanded first.
Upstream(n, t) ==
  LET p == prev_node[n]
  IN  /\ p \in modified
      /\ << p, n >> \in Edge
      /\ path_cost[n] = back_cost[n] + estimate[<< p, n >>]
      /\ back_cost[p] + price[<< p, n >>] <= back_cost[n]
      /\ back_cost[p] = back_cost[n] => t[p] < t[n]

Forest(t) ==
  \A n \in modified :
    IF n = SourceOf[search] THEN prev_node[n] = NO_PREVIOUS /\ back_cost[n] = 0
    ELSE Upstream(n, t)

\* t numbers the expansions.
InOrder == \E t \in [Node -> Nat], last \in Nat : Forest(t) /\ \A n \in Node : t[n] <= last

-----------------------------------------------------------------------------
(* The way back *)

\* A list that follows prev_node never comes back to a node.
LEMMA NoLoop ==
  ASSUME TypeOK, NEW t \in [Node -> Nat], Forest(t), NEW w \in Seq(modified),
         \A k \in 2 .. Len(w) : w[k] # SourceOf[search] /\ prev_node[w[k]] = w[k - 1]
  PROVE  \A i, j \in 1 .. Len(w) : w[i] = w[j] => i = j
<1> DEFINE Less(m, n) == \/ back_cost[m] < back_cost[n]
                         \/ back_cost[m] = back_cost[n] /\ t[m] < t[n]
<1>1. \A k \in 1 .. Len(w) : w[k] \in Node /\ back_cost[w[k]] \in Nat /\ t[w[k]] \in Nat
  BY DEF TypeOK
<1>2. ASSUME NEW k \in 2 .. Len(w)  PROVE Less(w[k - 1], w[k])
  <2>1. /\ w[k] \in modified /\ w[k] # SourceOf[search] /\ prev_node[w[k]] = w[k - 1]
        /\ w[k - 1] \in modified
    OBVIOUS
  <2>2. /\ << w[k - 1], w[k] >> \in Edge
        /\ back_cost[w[k - 1]] + price[<< w[k - 1], w[k] >>] <= back_cost[w[k]]
        /\ back_cost[w[k - 1]] = back_cost[w[k]] => t[w[k - 1]] < t[w[k]]
    <3>1. Upstream(w[k], t)
      BY <2>1 DEF Forest
    <3> QED BY <3>1, <2>1 DEF Upstream
  <2>3. << w[k - 1], w[k] >> \in Edge => price[<< w[k - 1], w[k] >>] \in Nat
    BY SearchAssumption DEF TypeOK
  <2>4. back_cost[w[k]] \in Nat /\ back_cost[w[k - 1]] \in Nat
    BY <2>1 DEF TypeOK
  <2> QED BY <2>2, <2>3, <2>4
<1>3. ASSUME NEW i \in 1 .. Len(w), NEW j \in 1 .. Len(w), i < j
      PROVE  Less(w[i], w[j])
  <2> DEFINE A == {l \in Int : l \in i + 1 .. Len(w) => Less(w[i], w[l])}
             b == Len(w)
             a == i + 1
  <2>1. a \in A
    BY <1>2
  <2>2. ASSUME NEW l \in a .. b - 1, l \in A  PROVE l + 1 \in A
    <3>1. Less(w[i], w[l])
      BY <2>2
    <3>2. l \in 1 .. Len(w) /\ l + 1 \in 2 .. Len(w) /\ (l + 1) - 1 = l /\ l + 1 \in 1 .. Len(w)
      OBVIOUS
    <3>3. Less(w[l], w[l + 1])
      BY <3>2, <1>2
    <3>4. Less(w[i], w[l + 1])
      <4>1. /\ back_cost[w[i]] \in Nat /\ back_cost[w[l]] \in Nat /\ back_cost[w[l + 1]] \in Nat
            /\ t[w[i]] \in Nat /\ t[w[l]] \in Nat /\ t[w[l + 1]] \in Nat
        BY <3>2, <1>1
      <4>2. PICK a1, a2, a3 \in Nat : /\ a1 = back_cost[w[i]] /\ a2 = back_cost[w[l]]
                                      /\ a3 = back_cost[w[l + 1]]
        BY <4>1
      <4>3. PICK b1, b2, b3 \in Nat : b1 = t[w[i]] /\ b2 = t[w[l]] /\ b3 = t[w[l + 1]]
        BY <4>1
      <4>4. /\ a1 < a2 \/ (a1 = a2 /\ b1 < b2)
            /\ a2 < a3 \/ (a2 = a3 /\ b2 < b3)
        BY <3>1, <3>3, <4>2, <4>3
      <4>5. a1 < a3 \/ (a1 = a3 /\ b1 < b3)
        BY <4>4
      <4> QED BY <4>2, <4>3, <4>5
    <3> QED BY <3>4
  <2>3. a \in Int /\ b \in Int
    OBVIOUS
  <2> HIDE DEF A, a, b
  <2>4. a .. b \subseteq A
    BY <2>1, <2>2, <2>3, IntervalInduct
  <2>5. j \in a .. b
    BY <1>3 DEF a, b
  <2> QED BY <2>4, <2>5 DEF A, a, b
<1> SUFFICES ASSUME NEW i \in 1 .. Len(w), NEW j \in 1 .. Len(w), i < j, w[i] = w[j]
             PROVE  FALSE
  OBVIOUS
<1>4. Less(w[i], w[i])
  BY <1>3
<1> QED BY <1>4, <1>1

\* The way back from an expanded node leads to the SOURCE.
LEMMA WayToIs ==
  ASSUME TypeOK, search \in Search, NEW t \in [Node -> Nat], Forest(t), NEW n \in modified
  PROVE  LET w == WayTo(n)
         IN  /\ w \in Seq(modified) /\ Len(w) >= 1
             /\ w[1] = SourceOf[search] /\ w[Len(w)] = n
             /\ \A k \in 2 .. Len(w) : w[k] # SourceOf[search] /\ prev_node[w[k]] = w[k - 1]
             /\ \A i, j \in 1 .. Len(w) : w[i] = w[j] => i = j
<1> DEFINE S == Seq(modified) \ {<<>>}
           longer(w) == IF prev_node[Head(w)] = NO_PREVIOUS THEN w
                        ELSE << prev_node[Head(w)] >> \o w
           F(f) == [i \in 0 .. N |-> IF i = 0 THEN << n >> ELSE longer(f[i - 1])]
           way == CHOOSE f : f = F(f)
           s == SourceOf[search]
           x0 == << n >>
           g == [x \in Nat \X S |-> longer(x[2])]
<1>1. N \in Nat /\ IsFiniteSet(Node) /\ NO_PREVIOUS \notin Node
  BY SearchAssumption, FS_CardinalityType DEF N
<1>2. \A m \in modified : m \in Node /\ (prev_node[m] = NO_PREVIOUS <=> m = s)
                          /\ (m # s => prev_node[m] \in modified)
  BY <1>1 DEF TypeOK, Forest, Upstream
<1>3. \A w \in S : Len(w) >= 1 /\ Head(w) = w[1] /\ w[1] \in modified /\ Len(w) \in Nat
  OBVIOUS
<1>4. \A w \in S : longer(w) \in S
  <2> TAKE w \in S
  <2>1. CASE w[1] = s
    BY <2>1, <1>2, <1>3
  <2>2. CASE w[1] # s
    <3>1. << prev_node[w[1]] >> \in Seq(modified)
      BY <2>2, <1>2, <1>3
    <3> QED BY <3>1, <1>3
  <2> QED BY <2>1, <2>2
<1>5. x0 \in S
  OBVIOUS
<1> HIDE DEF longer, S, x0
<1>6. g \in [Nat \X S -> S] /\ \A i \in Nat, w \in S : g[<< i, w >>] = longer(w)
  BY <1>4
<1> HIDE DEF g
<1>7. PICK f : IsRecursionUpTo(f, N, S, x0, g)
  <2>1. g \in [Nat \X S -> S] /\ N \in Nat
    BY <1>1, <1>6
  <2> QED BY <2>1, <1>5, RecursionUpTo
<1>8. f = F(f)
  <2>1. \A i \in 0 .. N : i # 0 => i - 1 \in Nat /\ f[i - 1] \in S
    <3>1. f \in [0 .. N -> S]
      BY <1>7 DEF IsRecursionUpTo
    <3> QED BY <3>1, <1>1
  <2>2. \A i \in 0 .. N : i # 0 => g[<< i - 1, f[i - 1] >>] = longer(f[i - 1])
    BY <2>1, <1>6
  <2>3. [i \in 0 .. N |-> IF i = 0 THEN x0 ELSE g[<< i - 1, f[i - 1] >>]] = F(f)
    BY <2>2 DEF x0
  <2> QED BY <2>3, <1>7 DEF IsRecursionUpTo
<1>9. way = F(way)
  BY <1>8
<1>10. WayTo(n) = way[N]
  BY Zenon DEF WayTo, N, longer
<1> HIDE DEF way
<1> DEFINE Good(w, i) ==
      /\ w \in S
      /\ w[Len(w)] = n
      /\ \A k \in 2 .. Len(w) : w[k] # s /\ prev_node[w[k]] = w[k - 1]
      /\ w[1] = s \/ Len(w) = i + 1
    A == {i \in Int : i \in 0 .. N => Good(way[i], i)}
<1>11. 0 \in A
  <2>1. way[0] = << n >>
    BY <1>9, <1>1
  <2>2. /\ << n >> \in S /\ Len(<< n >>) = 1 /\ << n >>[1] = n
        /\ \A k \in 2 .. Len(<< n >>) : FALSE
    BY <1>5 DEF x0
  <2>3. Good(<< n >>, 0)
    BY <2>2
  <2> HIDE DEF Good
  <2> QED BY <2>1, <2>3
<1>12. ASSUME NEW i \in 0 .. N - 1, i \in A  PROVE i + 1 \in A
  <2> DEFINE w == way[i]
             v == way[i + 1]
  <2>1. Good(w, i) /\ v = longer(w)
    <3>1. i + 1 \in 0 .. N /\ i + 1 # 0 /\ (i + 1) - 1 = i /\ i \in 0 .. N
      BY <1>1
    <3> QED BY <3>1, <1>9, <1>12
  <2> HIDE DEF w, v
  <2>2. v \in S
    BY <2>1, <1>4
  <2>4. CASE w[1] # s
    <3>1. v = << prev_node[w[1]] >> \o w
      BY <2>1, <2>4, <1>2, <1>3 DEF longer
    <3>2. w \in Seq(modified) /\ Len(w) \in Nat /\ Len(w) >= 1 /\ Len(w) = i + 1
          /\ prev_node[w[1]] \in modified
      BY <2>1, <2>4, <1>2, <1>3 DEF S
    <3>3. /\ Len(v) = Len(w) + 1 /\ v[1] = prev_node[w[1]]
          /\ \A k \in 2 .. Len(v) : v[k] = w[k - 1]
      BY <3>1, <3>2
    <3>4. v[Len(v)] = n
      BY <3>2, <3>3, <2>1
    <3>5. ASSUME NEW k \in 2 .. Len(v)  PROVE v[k] # s /\ prev_node[v[k]] = v[k - 1]
      <4>1. CASE k = 2
        BY <4>1, <3>3, <3>2, <2>4
      <4>2. CASE k # 2
        <5>1. k - 1 \in 2 .. Len(w) /\ k - 1 \in 2 .. Len(v)
          BY <4>2, <3>2, <3>3
        <5> QED BY <5>1, <3>3, <2>1
      <4> QED BY <4>1, <4>2
    <3> QED BY <2>2, <3>2, <3>3, <3>4, <3>5 DEF v
  <2>5. Good(v, i + 1) => i + 1 \in A
    BY DEF v
  <2>6. CASE w[1] = s
    <3>1. v = w
      BY <2>1, <2>6, <1>2, <1>3 DEF longer
    <3> QED BY <3>1, <2>1, <2>5, <2>6
  <2> QED BY <2>4, <2>6
<1>13. Good(way[N], N)
  <2> DEFINE b == N
             a == 0
  <2> HIDE DEF A, b, a
  <2>1. a .. b \subseteq A
    <3>1. a \in Int /\ b \in Int /\ a \in A
      BY <1>1, <1>11 DEF a, b
    <3>2. \A i \in a .. b - 1 : i \in A => i + 1 \in A
      BY <1>12 DEF a, b
    <3> QED BY <3>1, <3>2, IntervalInduct
  <2>2. b \in A
    BY <2>1, <1>1 DEF a, b
  <2> QED BY <2>2, <1>1 DEF A, b
<1> DEFINE w == way[N]
<1>14. w \in Seq(modified) /\ Len(w) >= 1 /\ Len(w) \in Nat
  BY <1>13, <1>3 DEF S
<1>15. \A i, j \in 1 .. Len(w) : w[i] = w[j] => i = j
  BY <1>13, <1>14, NoLoop
<1>16. w[1] = s
  <2> SUFFICES ASSUME Len(w) = N + 1  PROVE FALSE
    BY <1>13
  <2>1. w \in Seq(Node)
    BY <1>14 DEF TypeOK
  <2>2. Len(w) <= Cardinality(Node)
    <3> HIDE DEF w
    <3> QED BY <2>1, <1>1, <1>15, NoRepetition
  <2> QED BY <2>2, <1>1 DEF N
<1>17. w \in Seq(modified) /\ w[Len(w)] = n
       /\ \A k \in 2 .. Len(w) : w[k] # s /\ prev_node[w[k]] = w[k - 1]
  BY <1>13, <1>14
<1>18. WayTo(n) = w
  BY <1>10
<1> HIDE DEF w, Good, S, A, F, longer
<1> QED BY <1>14, <1>15, <1>16, <1>17, <1>18
-----------------------------------------------------------------------------
(* Walks and what they cost *)

\* c lists what the walk w has cost at each of its nodes.
Costing(p, w, c) ==
  /\ c \in Seq(Nat) /\ Len(c) = Len(w)
  /\ c[1] = 0
  /\ \A k \in 2 .. Len(w) : c[k] = c[k - 1] + p[<< w[k - 1], w[k] >>]

\* A walk of search s from its SOURCE over nodes it may use.
IsWalk(s, p, w, c) ==
  /\ w \in Seq(Node) /\ Len(w) >= 1
  /\ w[1] = SourceOf[s]
  /\ \A k \in 2 .. Len(w) : << w[k - 1], w[k] >> \in Edge /\ w[k] \in Open(s)
  /\ Costing(p, w, c)

\* PathCost, as an operator on prices.
CostOf(p, path) ==
  LET sum[i \in 0 .. Len(path)] ==
        IF i < 2 THEN 0 ELSE sum[i - 1] + p[<< path[i - 1], path[i] >>]
  IN  sum[Len(path)]

\* The cost of a path is that of the walk along it.
LEMMA PathCostIsCostOf == \A path : PathCost(path) = CostOf(price, path)
  BY Zenon DEF PathCost, CostOf

\* The cost of a path is the last entry of its list of costs.
LEMMA CostOfIs ==
  ASSUME NEW p \in [Edge -> Nat], NEW w \in Seq(Node), Len(w) >= 1,
         \A k \in 2 .. Len(w) : << w[k - 1], w[k] >> \in Edge
  PROVE  \E c : Costing(p, w, c) /\ CostOf(p, w) = c[Len(w)]
<1> DEFINE L == Len(w)
           F(f) == [i \in 0 .. L |-> IF i < 2 THEN 0
                                     ELSE f[i - 1] + p[<< w[i - 1], w[i] >>]]
           sum == CHOOSE f : f = F(f)
           x0 == 0
           S == Nat
           g == [x \in Nat \X S |-> IF x[1] + 1 \in 2 .. L
                                    THEN x[2] + p[<< w[x[1]], w[x[1] + 1] >>] ELSE 0]
<1>1. L \in Nat /\ L >= 1 /\ \A k \in 2 .. L : p[<< w[k - 1], w[k] >>] \in Nat
  OBVIOUS
<1>2. x0 \in S
  OBVIOUS
<1>3. /\ g \in [Nat \X S -> S]
      /\ \A i \in Nat, v \in S :
           g[<< i, v >>] = IF i + 1 \in 2 .. L THEN v + p[<< w[i], w[i + 1] >>] ELSE 0
  <2>1. ASSUME NEW i \in Nat, NEW v \in S
        PROVE (IF i + 1 \in 2 .. L THEN v + p[<< w[i], w[i + 1] >>] ELSE 0) \in S
    <3>1. CASE i + 1 \in 2 .. L
      <4>1. p[<< w[(i + 1) - 1], w[i + 1] >>] \in Nat /\ (i + 1) - 1 = i
        BY <3>1, <1>1
      <4> QED BY <4>1
    <3>2. CASE i + 1 \notin 2 .. L
      BY <3>2
    <3> QED BY <3>1, <3>2
  <2> QED BY <2>1
<1> HIDE DEF g, S, x0, L
<1>4. PICK f : IsRecursionUpTo(f, L, S, x0, g)
  BY <1>1, <1>2, <1>3, RecursionUpTo
<1>5. f = F(f)
  <2>1. f \in [0 .. L -> S]
    BY <1>4 DEF IsRecursionUpTo
  <2>2. \A i \in 0 .. L : i # 0 => i - 1 \in Nat /\ f[i - 1] \in S /\ (i - 1) + 1 = i
    BY <1>1, <2>1
  <2>3. ASSUME NEW i \in 0 .. L
        PROVE (IF i = 0 THEN x0 ELSE g[<< i - 1, f[i - 1] >>])
              = IF i < 2 THEN 0 ELSE f[i - 1] + p[<< w[i - 1], w[i] >>]
    <3>1. CASE i = 0
      BY <3>1 DEF x0
    <3>2. CASE i # 0
      <4>1. g[<< i - 1, f[i - 1] >>] = IF (i - 1) + 1 \in 2 .. L
                 THEN f[i - 1] + p[<< w[i - 1], w[(i - 1) + 1] >>] ELSE 0
        BY <2>2, <1>3, <3>2
      <4>2. (i - 1) + 1 = i /\ (i \in 2 .. L <=> ~(i < 2))
        BY <1>1, <3>2
      <4> QED BY <4>1, <4>2, <3>2
    <3> QED BY <3>1, <3>2
  <2>4. [i \in 0 .. L |-> IF i = 0 THEN x0 ELSE g[<< i - 1, f[i - 1] >>]] = F(f)
    BY <2>3
  <2> QED BY <2>4, <1>4 DEF IsRecursionUpTo
<1>6. sum = F(sum)
  BY <1>5
<1>7. CostOf(p, w) = sum[L]
  BY Zenon DEF CostOf, L
<1> HIDE DEF sum
<1>8. \A i \in 0 .. L : sum[i] = IF i < 2 THEN 0 ELSE sum[i - 1] + p[<< w[i - 1], w[i] >>]
  BY <1>6
<1> HIDE DEF F
<1>8a. sum[1] = 0
  <2>1. 1 \in 0 .. L /\ 1 < 2
    BY <1>1
  <2> QED BY <2>1, <1>8, Zenon
<1>9. 1 .. L \subseteq {i \in Int : i \in 1 .. L => sum[i] \in Nat}
  <2> DEFINE A == {i \in Int : i \in 1 .. L => sum[i] \in Nat}
             a == 1
  <2>1. a \in A
    BY <1>8a
  <2>2. ASSUME NEW i \in a .. L - 1, i \in A  PROVE i + 1 \in A
    <3>1. i + 1 \in 0 .. L /\ i + 1 \in 2 .. L /\ ~(i + 1 < 2) /\ (i + 1) - 1 = i /\ sum[i] \in Nat
      BY <1>1, <2>2
    <3>2. sum[i + 1] = sum[i] + p[<< w[(i + 1) - 1], w[i + 1] >>]
      BY <3>1, <1>8
    <3> QED BY <3>1, <3>2, <1>1
  <2>3. a \in Int /\ L \in Int
    BY <1>1
  <2> HIDE DEF A, a
  <2>4. a .. L \subseteq A
    BY <2>1, <2>2, <2>3, IntervalInduct
  <2> QED BY <2>4 DEF A, a
<1> DEFINE c == [i \in 1 .. L |-> sum[i]]
<1>10. c \in Seq(Nat) /\ Len(c) = L
  BY <1>1, <1>9
<1>11. c[1] = 0
  BY <1>1, <1>8a
<1>12. ASSUME NEW k \in 2 .. L  PROVE c[k] = c[k - 1] + p[<< w[k - 1], w[k] >>]
  <2>1. k \in 0 .. L /\ ~(k < 2) /\ k \in 1 .. L /\ k - 1 \in 1 .. L
    BY <1>1
  <2>2. sum[k] = sum[k - 1] + p[<< w[k - 1], w[k] >>]
    BY <2>1, <1>8
  <2> QED BY <2>1, <2>2
<1>13. c[L] = sum[L]
  BY <1>1
<1>14. Costing(p, w, c)
  <2> HIDE DEF c
  <2> QED BY <1>10, <1>11, <1>12 DEF Costing, L
<1> QED BY <1>7, <1>13, <1>14 DEF L

\* A walk goes on over an edge.
LEMMA WalkOn ==
  ASSUME NEW s \in Search, NEW p \in [Edge -> Nat], NEW w, NEW c, IsWalk(s, p, w, c),
         NEW n \in Open(s), << w[Len(w)], n >> \in Edge
  PROVE  \E v, d : /\ IsWalk(s, p, v, d)
                   /\ Len(v) = Len(w) + 1 /\ v[Len(v)] = n
                   /\ d[Len(v)] = c[Len(w)] + p[<< w[Len(w)], n >>]
                   /\ \A k \in 1 .. Len(w) : v[k] = w[k] /\ d[k] = c[k]
<1> DEFINE L == Len(w)
           x == c[L] + p[<< w[L], n >>]
           w1 == Append(w, n)
           c1 == Append(c, x)
<1>1. w \in Seq(Node) /\ c \in Seq(Nat) /\ Len(c) = L /\ L \in Nat /\ L >= 1 /\ n \in Node
  BY SearchAssumption DEF IsWalk, Costing, Open
<1>2. p[<< w[L], n >>] \in Nat /\ c[L] \in Nat
  BY <1>1
<1>3. x \in Nat
  BY <1>2
<1> HIDE DEF x
<1>4. /\ w1 \in Seq(Node) /\ Len(w1) = L + 1 /\ w1[L + 1] = n
      /\ \A k \in 1 .. L : w1[k] = w[k]
  BY <1>1
<1>5. /\ c1 \in Seq(Nat) /\ Len(c1) = L + 1 /\ c1[L + 1] = x
      /\ \A k \in 1 .. L : c1[k] = c[k]
  BY <1>1, <1>3
<1> HIDE DEF w1, c1
<1>6. ASSUME NEW k \in 2 .. L + 1
      PROVE  /\ << w1[k - 1], w1[k] >> \in Edge /\ w1[k] \in Open(s)
             /\ c1[k] = c1[k - 1] + p[<< w1[k - 1], w1[k] >>]
  <2>1. CASE k = L + 1
    <3>1. k - 1 = L /\ L \in 1 .. L
      BY <1>1, <2>1
    <3> QED BY <2>1, <3>1, <1>4, <1>5 DEF x
  <2>2. CASE k # L + 1
    <3>1. k \in 2 .. L /\ k \in 1 .. L /\ k - 1 \in 1 .. L
      BY <1>1, <2>2
    <3> QED BY <3>1, <1>4, <1>5 DEF IsWalk, Costing
  <2> QED BY <2>1, <2>2
<1>7. w1[1] = SourceOf[s] /\ c1[1] = 0
  BY <1>1, <1>4, <1>5 DEF IsWalk, Costing
<1>8. IsWalk(s, p, w1, c1)
  BY <1>1, <1>4, <1>5, <1>6, <1>7 DEF IsWalk, Costing
<1>9. /\ Len(w1) = Len(w) + 1 /\ w1[Len(w1)] = n
      /\ c1[Len(w1)] = c[Len(w)] + p[<< w[Len(w)], n >>]
      /\ \A k \in 1 .. Len(w) : w1[k] = w[k] /\ c1[k] = c[k]
  BY <1>4, <1>5 DEF x
<1> HIDE DEF L
<1>10. \E v, d : /\ IsWalk(s, p, v, d)
                 /\ Len(v) = Len(w) + 1 /\ v[Len(v)] = n
                 /\ d[Len(v)] = c[Len(w)] + p[<< w[Len(w)], n >>]
                 /\ \A k \in 1 .. Len(w) : v[k] = w[k] /\ d[k] = c[k]
  BY <1>8, <1>9
<1> QED BY <1>10

\* The costs along a walk only rise, and two lists of costs of it are the same.
LEMMA CostsRise ==
  ASSUME NEW p \in [Edge -> Nat], NEW w \in Seq(Node), Len(w) >= 1,
         \A k \in 2 .. Len(w) : << w[k - 1], w[k] >> \in Edge,
         NEW c, Costing(p, w, c)
  PROVE  /\ \A i, j \in 1 .. Len(w) : i <= j => c[i] <= c[j]
         /\ \A d : Costing(p, w, d) => d[Len(w)] = c[Len(w)]
<1> DEFINE L == Len(w)
<1>1. L \in Nat /\ c \in Seq(Nat) /\ Len(c) = L /\ \A k \in 1 .. L : c[k] \in Nat
  BY DEF Costing
<1>2. \A k \in 2 .. L : p[<< w[k - 1], w[k] >>] \in Nat
  OBVIOUS
<1>3. ASSUME NEW k \in 1 .. L - 1
      PROVE  /\ c[k] <= c[k + 1]
             /\ \A d : Costing(p, w, d) /\ d[k] = c[k] => d[k + 1] = c[k + 1]
  <2>1. k + 1 \in 2 .. L /\ (k + 1) - 1 = k /\ k \in 1 .. L /\ k + 1 \in 1 .. L
    BY <1>1
  <2>2. c[k + 1] = c[k] + p[<< w[(k + 1) - 1], w[k + 1] >>]
    BY <2>1 DEF Costing
  <2>3. \A d : Costing(p, w, d) => d[k + 1] = d[k] + p[<< w[(k + 1) - 1], w[k + 1] >>]
    BY <2>1 DEF Costing
  <2>4. c[k] <= c[k + 1]
    BY <2>1, <2>2, <1>1, <1>2
  <2> QED BY <2>2, <2>3, <2>4
<1>4. ASSUME NEW i \in 1 .. L, NEW j \in 1 .. L, i <= j  PROVE c[i] <= c[j]
  <2> DEFINE A == {k \in Int : k \in i .. L => c[i] <= c[k]}
             b == L
  <2>1. i \in A
    BY <1>1
  <2>2. ASSUME NEW k \in i .. b - 1, k \in A  PROVE k + 1 \in A
    <3>1. k \in 1 .. L - 1 /\ k \in i .. L /\ k + 1 \in 1 .. L /\ k \in 1 .. L
      BY <1>1
    <3>2. c[i] <= c[k] /\ c[k] <= c[k + 1]
      BY <3>1, <2>2, <1>3
    <3> QED BY <3>1, <3>2, <1>1, SMTT(30)
  <2>3. b \in Int /\ i \in Int
    BY <1>1
  <2> HIDE DEF A, b
  <2>4. i .. b \subseteq A
    BY <2>1, <2>2, <2>3, IntervalInduct
  <2> QED BY <2>4, <1>1, <1>4 DEF A, b
<1>5. ASSUME NEW d, Costing(p, w, d)  PROVE d[L] = c[L]
  <2> DEFINE A == {k \in Int : k \in 1 .. L => d[k] = c[k]}
             b == L
             a == 1
  <2>1. a \in A
    BY <1>5 DEF Costing
  <2>2. ASSUME NEW k \in a .. b - 1, k \in A  PROVE k + 1 \in A
    <3>1. k \in 1 .. L - 1 /\ k \in 1 .. L
      BY <1>1
    <3> QED BY <3>1, <2>2, <1>3, <1>5
  <2>3. b \in Int /\ a \in Int
    BY <1>1
  <2> HIDE DEF A, b, a
  <2>4. a .. b \subseteq A
    BY <2>1, <2>2, <2>3, IntervalInduct
  <2> QED BY <2>4, <1>1 DEF A, b, a
<1> QED BY <1>4, <1>5

\* A walk is a path with the cost up to every node; costs only grow along it.
LEMMA WalkIs ==
  ASSUME NEW s, NEW p \in [Edge -> Nat], NEW w, NEW c, IsWalk(s, p, w, c)
  PROVE  /\ w \in Seq(Node) /\ c \in Seq(Nat) /\ Len(c) = Len(w)
         /\ Len(w) \in Nat /\ Len(w) >= 1
         /\ \A k \in 1 .. Len(w) : w[k] \in Node /\ c[k] \in Nat
         /\ \A i, j \in 1 .. Len(w) : i <= j => c[i] <= c[j]
<1>1. w \in Seq(Node) /\ c \in Seq(Nat) /\ Len(c) = Len(w) /\ Len(w) \in Nat /\ Len(w) >= 1
  BY DEF IsWalk, Costing
<1>2. \A k \in 1 .. Len(w) : w[k] \in Node /\ c[k] \in Nat
  BY <1>1
<1>3. Costing(p, w, c) /\ \A k \in 2 .. Len(w) : << w[k - 1], w[k] >> \in Edge
  BY DEF IsWalk
<1>4. \A i, j \in 1 .. Len(w) : i <= j => c[i] <= c[j]
  BY <1>1, <1>3, CostsRise
<1> QED BY <1>1, <1>2, <1>4

\* Multiplication.
LEMMA TimesRises ==
  ASSUME NEW a \in Nat, NEW b \in Nat, NEW x \in Nat, a <= b
  PROVE  /\ a * x <= b * x /\ a * x \in Nat /\ b * x \in Nat
         /\ b >= 1 => x <= b * x
<1>1. PICK k \in Nat : b = a + k
  <2>1. b - a \in Nat /\ b = a + (b - a)
    OBVIOUS
  <2> QED BY <2>1
<1>2. b * x = a * x + k * x
  BY <1>1
<1>3. k * x \in Nat /\ a * x \in Nat
  OBVIOUS
<1>4. b >= 1 => x <= b * x
  <2> SUFFICES ASSUME b >= 1  PROVE x <= b * x
    OBVIOUS
  <2>1. b - 1 \in Nat /\ b * x = (b - 1) * x + x
    OBVIOUS
  <2>2. (b - 1) * x \in Nat
    BY <2>1
  <2> QED BY <2>1, <2>2
<1> QED BY <1>2, <1>3, <1>4

\* A walk that meets no node twice, and one edge more, cost less than HUGE.
LEMMA Affordable ==
  ASSUME NEW s \in Search, NEW p \in Prices, NEW h \in Estimates, NEW w, NEW c,
         IsWalk(s, p, w, c),
         \A i, j \in 1 .. Len(w) : w[i] = w[j] => i = j,
         NEW n, << w[Len(w)], n >> \in Edge
  PROVE  c[Len(w)] + p[<< w[Len(w)], n >>] + h[<< w[Len(w)], n >>] < HUGE
<1> DEFINE L == Len(w)
           e == << w[L], n >>
<1>1. /\ p \in [Edge -> Nat] /\ h \in [Edge -> Nat] /\ N \in Nat /\ HUGE \in Nat
      /\ IsFiniteSet(Node)
  BY SearchAssumption, FS_CardinalityType DEF N
<1>2. L \in Nat /\ w \in Seq(Node) /\ c \in Seq(Nat) /\ Len(c) = L /\ L >= 1 /\ e \in Edge
  BY DEF IsWalk, Costing
<1>3. L <= N
  <2> HIDE DEF e
  <2> QED BY <1>1, <1>2, NoRepetition DEF N
<1> HIDE DEF e
<1>4. \A d \in Edge : N * p[d] + h[e] < HUGE /\ p[d] \in Nat /\ h[e] \in Nat
  BY HugeAssumption, <1>1, <1>2 DEF N
<1> DEFINE B == {x \in Nat : \A d \in Edge : p[d] <= x}
<1>5. HUGE \in B
  <2> SUFFICES ASSUME NEW d \in Edge  PROVE p[d] <= HUGE
    BY <1>1
  <2>1. N >= 1 /\ N * p[d] + h[e] < HUGE /\ p[d] \in Nat /\ h[e] \in Nat
    BY <1>1, <1>2, <1>3, <1>4
  <2>2. p[d] <= N * p[d]
    BY <2>1, <1>1, TimesRises
  <2>3. N * p[d] \in Nat
    BY <2>1, <1>1
  <2> QED BY <2>1, <2>2, <2>3, <1>1
<1>6. PICK P \in B : \A x \in B : P <= x
  <2>1. B \in SUBSET Nat /\ B # {}
    BY <1>5
  <2> HIDE DEF B
  <2> QED BY <2>1, Least
<1>7. P \in Nat /\ \A d \in Edge : p[d] <= P
  OBVIOUS
<1>8. P = 0 \/ \E d \in Edge : p[d] = P
  <2> SUFFICES ASSUME P # 0, \A d \in Edge : p[d] # P  PROVE FALSE
    OBVIOUS
  <2>1. \A d \in Edge : p[d] <= P - 1
    BY <1>1, <1>7
  <2>2. P - 1 \in B
    BY <2>1, <1>7
  <2> QED BY <2>2, <1>6, <1>7
<1>9. N * P + h[e] < HUGE
  <2>1. CASE P = 0
    <3>1. N * p[e] + h[e] < HUGE /\ p[e] = 0 /\ N * 0 = 0
      BY <1>1, <1>2, <1>4, <1>7, <2>1
    <3> QED BY <3>1, <2>1
  <2>2. CASE \E d \in Edge : p[d] = P
    BY <2>2, <1>4
  <2> QED BY <2>1, <2>2, <1>8
<1> HIDE DEF B
<1>10. c[L] <= (L - 1) * P
  <2> DEFINE A == {k \in Int : k \in 1 .. L => c[k] <= (k - 1) * P}
             b == L
             a == 1
  <2>1. a \in A
    <3>1. c[1] = 0 /\ (1 - 1) * P = 0
      BY <1>7 DEF IsWalk, Costing
    <3> QED BY <3>1
  <2>2. ASSUME NEW k \in a .. b - 1, k \in A  PROVE k + 1 \in A
    <3>1. k \in 1 .. L /\ k + 1 \in 1 .. L /\ k + 1 \in 2 .. L /\ (k + 1) - 1 = k
      BY <1>2
    <3>2. c[k] <= (k - 1) * P /\ c[k] \in Nat
      BY <3>1, <2>2, <1>2
    <3>3. c[k + 1] = c[k] + p[<< w[(k + 1) - 1], w[k + 1] >>]
          /\ << w[(k + 1) - 1], w[k + 1] >> \in Edge
      BY <3>1 DEF IsWalk, Costing
    <3>4. p[<< w[(k + 1) - 1], w[k + 1] >>] <= P /\ p[<< w[(k + 1) - 1], w[k + 1] >>] \in Nat
      BY <3>3, <1>1, <1>7
    <3>5. (k - 1) * P + P = k * P /\ (k - 1) * P \in Int /\ k * P \in Int
      BY <3>1, <1>7
    <3>6. c[k + 1] <= k * P
      BY <3>2, <3>3, <3>4, <3>5, <1>7
    <3> QED BY <3>1, <3>6
  <2>3. b \in Int /\ a \in Int
    BY <1>2
  <2> HIDE DEF A, b, a
  <2>4. a .. b \subseteq A
    BY <2>1, <2>2, <2>3, IntervalInduct
  <2> QED BY <2>4, <1>2 DEF A, b, a
<1>11. c[L] + p[e] <= N * P
  <2>1. c[L] \in Nat /\ p[e] \in Nat /\ p[e] <= P /\ (L - 1) * P \in Nat /\ N * P \in Nat
    <3>1. c[L] \in Nat /\ p[e] \in Nat /\ p[e] <= P
      BY <1>1, <1>2, <1>7
    <3>2. L - 1 \in Nat /\ L - 1 <= N
      BY <1>1, <1>2, <1>3
    <3> QED BY <3>1, <3>2, <1>1, <1>7, TimesRises
  <2>2. (L - 1) * P + P <= N * P
    <3>1. L * P <= N * P
      BY <1>1, <1>2, <1>3, <1>7, TimesRises
    <3>2. (L - 1) * P + P = L * P
      BY <1>2, <1>7
    <3> QED BY <3>1, <3>2
  <2> QED BY <2>1, <2>2, <1>7, <1>10
<1>12. c[L] + p[e] + h[e] < HUGE
  <2>1. c[L] \in Nat /\ p[e] \in Nat /\ h[e] \in Nat /\ N * P \in Nat
    BY <1>1, <1>2, <1>7
  <2> QED BY <2>1, <1>1, <1>9, <1>11
<1> QED BY <1>12 DEF e

-----------------------------------------------------------------------------
(* What can be reached, and at what cost *)

\* Within(s) is the least set that holds the SOURCE and all a further edge leads to.
LEMMA WithinIs ==
  ASSUME NEW s \in Search
  PROVE  /\ SourceOf[s] \in Within(s)
         /\ \A m \in Within(s), n \in Open(s) : << m, n >> \in Edge => n \in Within(s)
         /\ \A X : /\ SourceOf[s] \in X
                   /\ \A m \in X, n \in Open(s) : << m, n >> \in Edge => n \in X
                   => Within(s) \subseteq X
<1> DEFINE near(X) == X \cup { n \in Open(s) : \E m \in X : << m, n >> \in Edge }
           x0 == {SourceOf[s]}
           F(f) == [i \in 0 .. N |-> IF i = 0 THEN x0 ELSE near(f[i - 1])]
           w == CHOOSE f : f = F(f)
           S == SUBSET Node
           g == [x \in Nat \X S |-> near(x[2])]
<1>1. N \in Nat /\ IsFiniteSet(Node) /\ SourceOf[s] \in Node /\ Open(s) \subseteq Node
  BY SearchAssumption, FS_CardinalityType DEF N, Open
<1>2. x0 \in S /\ \A X \in S : near(X) \in S
  BY <1>1
<1> HIDE DEF near, S, x0
<1>3. g \in [Nat \X S -> S] /\ \A i \in Nat, X \in S : g[<< i, X >>] = near(X)
  BY <1>2
<1> HIDE DEF g
<1>4. PICK f : IsRecursion(f, S, x0, g)
  BY <1>2, <1>3, Recursion
<1>5. f \in [Nat -> S] /\ f[0] = x0 /\ \A i \in Nat : f[i + 1] = near(f[i])
  BY <1>3, <1>4 DEF IsRecursion
<1>6. \E h : h = F(h)
  <2> DEFINE h == [i \in 0 .. N |-> f[i]]
  <2>1. ASSUME NEW i \in 0 .. N  PROVE h[i] = IF i = 0 THEN x0 ELSE near(h[i - 1])
    <3>1. CASE i = 0
      BY <3>1, <1>5
    <3>2. CASE i # 0
      <4>1. i - 1 \in Nat /\ (i - 1) + 1 = i /\ i - 1 \in 0 .. N
        BY <3>2, <1>1
      <4>2. f[i] = near(f[i - 1])
        BY <4>1, <1>5
      <4> QED BY <4>1, <4>2, <3>2
    <3> QED BY <3>1, <3>2
  <2>2. h = [i \in 0 .. N |-> h[i]]
    OBVIOUS
  <2> HIDE DEF h
  <2>3. h = F(h)
    BY <2>1, <2>2
  <2> QED BY <2>3
<1>7. w = F(w)
  BY <1>6
<1>8. Within(s) = w[N]
  BY Zenon DEF Within, N, near, x0
<1> HIDE DEF w
<1>9. \A i \in 0 .. N : w[i] = f[i]
  <2> DEFINE A == {i \in Int : i \in 0 .. N => w[i] = f[i]}
             a == 0
  <2>1. a \in A
    BY <1>1, <1>5, <1>7
  <2>2. ASSUME NEW i \in a .. N - 1, i \in A  PROVE i + 1 \in A
    <3>1. i + 1 \in 0 .. N /\ i + 1 # 0 /\ (i + 1) - 1 = i /\ i \in Nat /\ i \in 0 .. N
      BY <1>1
    <3>2. w[i + 1] = near(w[i])
      BY <3>1, <1>7
    <3> QED BY <3>1, <3>2, <2>2, <1>5
  <2>3. a \in Int /\ N \in Int
    BY <1>1
  <2> HIDE DEF A, a
  <2>4. a .. N \subseteq A
    BY <2>1, <2>2, <2>3, IntervalInduct
  <2> QED BY <2>4 DEF A, a
<1>10. Within(s) = f[N]
  BY <1>1, <1>8, <1>9
<1>11. \A k \in Nat : f[k] \subseteq f[N]
  <2>1. \A k \in Nat : f[k] \subseteq f[k + 1]
    BY <1>5 DEF near
  <2>2. \A k \in Nat : f[k + 1] = f[k] => f[k + 2] = f[k + 1]
    <3> TAKE k \in Nat
    <3>1. k + 1 \in Nat /\ (k + 1) + 1 = k + 2
      OBVIOUS
    <3>2. f[k + 2] = near(f[k + 1]) /\ f[k + 1] = near(f[k])
      BY <3>1, <1>5
    <3> QED BY <3>2
  <2>3. f \in [Nat -> SUBSET Node]
    BY <1>5 DEF S
  <2>4. \A k \in Nat : f[k] \subseteq f[Cardinality(Node)]
    BY <2>1, <2>2, <2>3, <1>1, Saturates
  <2> QED BY <2>4 DEF N
<1>12. SourceOf[s] \in Within(s)
  BY <1>5, <1>10, <1>11 DEF x0
<1>13. \A m \in Within(s), n \in Open(s) : << m, n >> \in Edge => n \in Within(s)
  <2>1. near(f[N]) \subseteq f[N]
    <3>1. f[N + 1] = near(f[N]) /\ N + 1 \in Nat
      BY <1>1, <1>5
    <3> QED BY <3>1, <1>11
  <2> QED BY <2>1, <1>10 DEF near
<1>14. ASSUME NEW X, SourceOf[s] \in X,
              \A m \in X, n \in Open(s) : << m, n >> \in Edge => n \in X
       PROVE  Within(s) \subseteq X
  <2> DEFINE A == {k \in Nat : f[k] \subseteq X}
  <2>1. 0 \in A
    BY <1>5, <1>14 DEF x0
  <2>2. ASSUME NEW k \in Nat, k \in A  PROVE k + 1 \in A
    <3>1. near(f[k]) \subseteq X
      BY <2>2, <1>14 DEF near
    <3> QED BY <3>1, <1>5
  <2> HIDE DEF A
  <2>3. Nat \subseteq A
    BY <2>1, <2>2, NatInduct
  <2> QED BY <2>3, <1>1, <1>10 DEF A
<1> QED BY <1>12, <1>13, <1>14

\* A walk stays within what can be reached.
LEMMA WalkWithin ==
  ASSUME NEW s \in Search, NEW p, NEW w, NEW c, IsWalk(s, p, w, c)
  PROVE  \A k \in 1 .. Len(w) : w[k] \in Within(s)
<1> DEFINE A == {k \in Int : k \in 1 .. Len(w) => w[k] \in Within(s)}
           a == 1
           b == Len(w)
<1>1. w \in Seq(Node) /\ b \in Nat
  BY DEF IsWalk
<1>2. a \in A
  BY WithinIs DEF IsWalk
<1>3. ASSUME NEW k \in a .. b - 1, k \in A  PROVE k + 1 \in A
  <2>1. k + 1 \in 2 .. Len(w) /\ (k + 1) - 1 = k /\ k \in 1 .. Len(w)
    BY <1>1
  <2>2. << w[k], w[k + 1] >> \in Edge /\ w[k + 1] \in Open(s)
    BY <2>1 DEF IsWalk
  <2>3. w[k] \in Within(s)
    BY <2>1, <1>3
  <2> QED BY <2>2, <2>3, WithinIs
<1>4. a \in Int /\ b \in Int
  BY <1>1
<1> HIDE DEF A, a, b
<1>5. a .. b \subseteq A
  BY <1>2, <1>3, <1>4, IntervalInduct
<1> QED BY <1>5, <1>1 DEF A, a, b

\* Distance, as an operator on prices.
DistOf(p, s) ==
  LET d[i \in 0 .. Cardinality(Node)] ==
        IF i = 0 THEN [n \in Node |-> IF n = SourceOf[s] THEN 0 ELSE HUGE]
        ELSE LET last == d[i - 1]
                 best(n) == { last[e[1]] + p[e] :
                                e \in {f \in Edge : f[2] = n /\ last[f[1]] < HUGE} }
                            \cup {last[n]}
             IN  [n \in Node |->
                    IF n \in Open(s)
                    THEN CHOOSE c \in best(n) : \A b \in best(n) : c <= b
                    ELSE last[n]]
  IN  d[Cardinality(Node)]

\* Distance is the distance by the prices of the search.
LEMMA DistanceIsDistOf == \A s : Distance(s) = DistOf(price, s)
  BY Zenon DEF Distance, DistOf

\* The entries a node may get from its neighbours; the lowest is taken.
Offers(p, last, n) ==
  { last[e[1]] + p[e] : e \in {f \in Edge : f[2] = n /\ last[f[1]] < HUGE} } \cup {last[n]}

Relaxed(p, s, last) ==
  [n \in Node |->
     IF n \in Open(s)
     THEN CHOOSE c \in Offers(p, last, n) : \A b \in Offers(p, last, n) : c <= b
     ELSE last[n]]

\* One round of relaxation: no distance gets worse, every edge is taken into account, and
\* what changes comes along an edge.
LEMMA RelaxedIs ==
  ASSUME NEW p \in [Edge -> Nat], NEW s \in Search, NEW last \in [Node -> Nat]
  PROVE  /\ Relaxed(p, s, last) \in [Node -> Nat]
         /\ \A n \in Node :
              /\ Relaxed(p, s, last)[n] <= last[n]
              /\ \A m \in Node :
                   n \in Open(s) /\ << m, n >> \in Edge /\ last[m] < HUGE
                     => Relaxed(p, s, last)[n] <= last[m] + p[<< m, n >>]
              /\ \/ Relaxed(p, s, last)[n] = last[n]
                 \/ \E m \in Node :
                      /\ n \in Open(s) /\ << m, n >> \in Edge /\ last[m] < HUGE
                      /\ Relaxed(p, s, last)[n] = last[m] + p[<< m, n >>]
<1>1. \A e \in Edge : e \in Node \X Node
  BY SearchAssumption
<1>2. ASSUME NEW n \in Node
      PROVE  /\ Offers(p, last, n) \subseteq Nat /\ Offers(p, last, n) # {}
             /\ last[n] \in Offers(p, last, n)
             /\ \A m \in Node : << m, n >> \in Edge /\ last[m] < HUGE
                   => last[m] + p[<< m, n >>] \in Offers(p, last, n)
             /\ \A x \in Offers(p, last, n) :
                  \/ x = last[n]
                  \/ \E m \in Node : << m, n >> \in Edge /\ last[m] < HUGE
                                     /\ x = last[m] + p[<< m, n >>]
  <2>1. \A e \in Edge : e[1] \in Node /\ e = << e[1], e[2] >> /\ p[e] \in Nat
    BY <1>1
  <2>2. \A e \in Edge : last[e[1]] + p[e] \in Nat
    BY <2>1
  <2>3. Offers(p, last, n) \subseteq Nat /\ last[n] \in Offers(p, last, n)
    BY <2>2 DEF Offers
  <2>4. ASSUME NEW m \in Node, << m, n >> \in Edge, last[m] < HUGE
        PROVE  last[m] + p[<< m, n >>] \in Offers(p, last, n)
    BY <2>4 DEF Offers
  <2>5. ASSUME NEW x \in Offers(p, last, n), x # last[n]
        PROVE  \E m \in Node : << m, n >> \in Edge /\ last[m] < HUGE
                                     /\ x = last[m] + p[<< m, n >>]
    <3>1. PICK e \in Edge : e[2] = n /\ last[e[1]] < HUGE /\ x = last[e[1]] + p[e]
      BY <2>5 DEF Offers
    <3>2. e[1] \in Node /\ e = << e[1], n >>
      BY <2>1, <3>1
    <3> QED BY <3>1, <3>2
  <2> QED BY <2>3, <2>4, <2>5
<1>3. ASSUME NEW n \in Node
      PROVE  LET x == CHOOSE c \in Offers(p, last, n) : \A b \in Offers(p, last, n) : c <= b
             IN  x \in Offers(p, last, n) /\ \A b \in Offers(p, last, n) : x <= b
  <2>1. \E c \in Offers(p, last, n) : \A b \in Offers(p, last, n) : c <= b
    BY <1>2, Least
  <2> QED BY <2>1
<1>4. ASSUME NEW n \in Node
      PROVE  \/ n \in Open(s) /\ Relaxed(p, s, last)[n] \in Offers(p, last, n)
                /\ \A b \in Offers(p, last, n) : Relaxed(p, s, last)[n] <= b
             \/ n \notin Open(s) /\ Relaxed(p, s, last)[n] = last[n]
  BY <1>3 DEF Relaxed
<1>5. Relaxed(p, s, last) \in [Node -> Nat]
  <2>1. \A n \in Node : Relaxed(p, s, last)[n] \in Nat
    BY <1>2, <1>4
  <2>2. Relaxed(p, s, last) = [n \in Node |-> Relaxed(p, s, last)[n]]
    BY DEF Relaxed
  <2> QED BY <2>1, <2>2
<1>6. ASSUME NEW n \in Node
      PROVE  /\ Relaxed(p, s, last)[n] <= last[n]
             /\ \A m \in Node :
                   n \in Open(s) /\ << m, n >> \in Edge /\ last[m] < HUGE
                     => Relaxed(p, s, last)[n] <= last[m] + p[<< m, n >>]
             /\ \/ Relaxed(p, s, last)[n] = last[n]
                \/ \E m \in Node :
                      /\ n \in Open(s) /\ << m, n >> \in Edge /\ last[m] < HUGE
                      /\ Relaxed(p, s, last)[n] = last[m] + p[<< m, n >>]
  <2>1. CASE n \in Open(s)
    BY <2>1, <1>2, <1>4
  <2>2. CASE n \notin Open(s)
    BY <2>2, <1>4
  <2> QED BY <2>1, <2>2
<1> QED BY <1>5, <1>6

\* Distance is the cost of a walk, and no walk costs less.
LEMMA DistOfIs ==
  ASSUME NEW p \in [Edge -> Nat], NEW s \in Search
  PROVE  /\ \A w, c : IsWalk(s, p, w, c) /\ Len(w) <= N /\ c[Len(w)] < HUGE
                        => DistOf(p, s)[w[Len(w)]] <= c[Len(w)]
         /\ \A n \in Node : DistOf(p, s)[n] \in Nat
         /\ \A n \in Node : DistOf(p, s)[n] < HUGE =>
              \E w, c : IsWalk(s, p, w, c) /\ w[Len(w)] = n /\ c[Len(w)] = DistOf(p, s)[n]
<1> DEFINE x0 == [n \in Node |-> IF n = SourceOf[s] THEN 0 ELSE HUGE]
           F(f) == [i \in 0 .. N |-> IF i = 0 THEN x0 ELSE Relaxed(p, s, f[i - 1])]
           d == CHOOSE f : f = F(f)
           S == [Node -> Nat]
           g == [x \in Nat \X S |-> Relaxed(p, s, x[2])]
<1>1. N \in Nat /\ HUGE \in Nat /\ SourceOf[s] \in Node /\ Open(s) \subseteq Node
  BY SearchAssumption, FS_CardinalityType DEF N, Open
<1>2. x0 \in S
  BY <1>1
<1>3. \A X \in S : Relaxed(p, s, X) \in S
  BY RelaxedIs
<1>3a. \A n \in Node : x0[n] = IF n = SourceOf[s] THEN 0 ELSE HUGE
  OBVIOUS
<1> HIDE DEF S, x0
<1>4. g \in [Nat \X S -> S] /\ \A i \in Nat, X \in S : g[<< i, X >>] = Relaxed(p, s, X)
  BY <1>3
<1> HIDE DEF g
<1>5. PICK f : IsRecursionUpTo(f, N, S, x0, g)
  BY <1>1, <1>2, <1>4, RecursionUpTo
<1>6. f = F(f)
  <2>1. f \in [0 .. N -> S]
    BY <1>5 DEF IsRecursionUpTo
  <2>2. \A i \in 0 .. N : i # 0 => i - 1 \in Nat /\ f[i - 1] \in S
    BY <1>1, <2>1
  <2>3. \A i \in 0 .. N : i # 0 => g[<< i - 1, f[i - 1] >>] = Relaxed(p, s, f[i - 1])
    BY <2>2, <1>4
  <2>4. [i \in 0 .. N |-> IF i = 0 THEN x0 ELSE g[<< i - 1, f[i - 1] >>]] = F(f)
    BY <2>3
  <2> QED BY <2>4, <1>5 DEF IsRecursionUpTo
<1>7. d = F(d)
  BY <1>6
<1>8. DistOf(p, s) = d[N]
  BY Zenon DEF DistOf, Relaxed, Offers, N, x0
<1> HIDE DEF d
<1>9. d[0] = x0 /\ \A i \in 0 .. N - 1 : d[i + 1] = Relaxed(p, s, d[i])
  <2>1. \A i \in 0 .. N - 1 : i + 1 \in 0 .. N /\ i + 1 # 0 /\ (i + 1) - 1 = i
    BY <1>1
  <2> QED BY <2>1, <1>1, <1>7
<1>10. \A i \in 0 .. N : d[i] \in [Node -> Nat]
  <2> DEFINE A == {i \in Int : d[i] \in [Node -> Nat]}
             a == 0
  <2>1. a \in A
    BY <1>2, <1>9 DEF S
  <2>2. ASSUME NEW i \in a .. N - 1, i \in A  PROVE i + 1 \in A
    BY <2>2, <1>1, <1>9, RelaxedIs
  <2>3. a \in Int /\ N \in Int
    BY <1>1
  <2> HIDE DEF A, a
  <2>4. a .. N \subseteq A
    BY <2>1, <2>2, <2>3, IntervalInduct
  <2> QED BY <2>4 DEF A, a
<1>11. ASSUME NEW w, NEW c, IsWalk(s, p, w, c), Len(w) <= N, c[Len(w)] < HUGE
       PROVE  DistOf(p, s)[w[Len(w)]] <= c[Len(w)]
  <2> DEFINE L == Len(w)
  <2>1. /\ w \in Seq(Node) /\ c \in Seq(Nat) /\ L \in Nat /\ L >= 1 /\ Len(c) = L
        /\ \A k \in 1 .. L : w[k] \in Node /\ c[k] \in Nat
    <3>1. IsWalk(s, p, w, c)
      BY <1>11
    <3>2. w \in Seq(Node) /\ c \in Seq(Nat) /\ Len(c) = Len(w)
      <4>1. w \in Seq(Node)
        BY <3>1 DEF IsWalk
      <4>2. c \in Seq(Nat)
        BY <3>1 DEF IsWalk, Costing
      <4>3. Len(c) = Len(w)
        BY <3>1 DEF IsWalk, Costing
      <4> QED BY <4>1, <4>2, <4>3
    <3>3. Len(w) \in Nat /\ Len(w) >= 1
      BY <3>1, WalkIs
    <3>4. \A k \in 1 .. Len(w) : w[k] \in Node /\ c[k] \in Nat
      BY <3>1, WalkIs
    <3> QED BY <3>2, <3>3, <3>4
  <2>2. \A k \in 1 .. L : c[k] <= c[L]
    <3>1. \A i, j \in 1 .. Len(w) : i <= j => c[i] <= c[j]
      BY <1>11, WalkIs
    <3> QED BY <3>1, <2>1
  <2> DEFINE A == {k \in Int : k \in 1 .. L => d[k - 1][w[k]] <= c[k]}
             a == 1
  <2>3. a \in A
    <3>1. d[1 - 1][w[1]] = 0 /\ c[1] = 0
      BY <1>1, <1>3a, <1>9, <1>11 DEF IsWalk, Costing
    <3> QED BY <3>1
  <2>4. ASSUME NEW k \in a .. L - 1, k \in A  PROVE k + 1 \in A
    <3>1. k \in 1 .. L /\ k + 1 \in 2 .. L /\ k + 1 \in 1 .. L /\ (k + 1) - 1 = k /\ k - 1 \in 0 .. N - 1
          /\ (k - 1) + 1 = k /\ k \in 0 .. N /\ k - 1 \in 0 .. N
      <4>1. PICK l \in Nat : l = L
        BY <2>1
      <4>2. l <= N /\ N \in Nat /\ k \in 1 .. l - 1
        BY <4>1, <2>4, <1>1, <1>11
      <4>3. /\ k \in 1 .. l /\ k + 1 \in 2 .. l /\ k + 1 \in 1 .. l /\ (k + 1) - 1 = k
            /\ k - 1 \in 0 .. N - 1 /\ (k - 1) + 1 = k /\ k \in 0 .. N /\ k - 1 \in 0 .. N
        BY <4>2
      <4> QED BY <4>1, <4>3
    <3>2. d[k - 1][w[k]] <= c[k]
      BY <3>1, <2>4
    <3>3. << w[k], w[k + 1] >> \in Edge /\ w[k + 1] \in Open(s)
          /\ c[k + 1] = c[k] + p[<< w[k], w[k + 1] >>]
      <4>1. << w[(k + 1) - 1], w[k + 1] >> \in Edge /\ w[k + 1] \in Open(s)
            /\ c[k + 1] = c[(k + 1) - 1] + p[<< w[(k + 1) - 1], w[k + 1] >>]
        BY <3>1, <1>11 DEF IsWalk, Costing
      <4> QED BY <4>1, <3>1
    <3>4. d[k - 1][w[k]] \in Nat /\ d[k - 1] \in [Node -> Nat] /\ w[k] \in Node /\ w[k + 1] \in Node
      BY <3>1, <2>1, <1>10
    <3>5. d[k - 1][w[k]] < HUGE
      BY <3>1, <3>2, <3>4, <2>1, <2>2, <1>1, <1>11, SMTT(30)
    <3>6. d[k] = Relaxed(p, s, d[k - 1])
      BY <3>1, <1>9
    <3>7. d[k][w[k + 1]] <= d[k - 1][w[k]] + p[<< w[k], w[k + 1] >>]
      BY <3>3, <3>4, <3>5, <3>6, RelaxedIs
    <3>8. d[k] \in [Node -> Nat] /\ p[<< w[k], w[k + 1] >>] \in Nat /\ d[k][w[k + 1]] \in Nat
      BY <3>1, <3>3, <3>4, <1>10
    <3>9. d[k][w[k + 1]] <= c[k + 1]
      <4> DEFINE x == d[k][w[k + 1]]
                 y == d[k - 1][w[k]]
                 q == p[<< w[k], w[k + 1] >>]
      <4>1. x \in Nat /\ y \in Nat /\ q \in Nat /\ c[k] \in Nat
        BY <3>1, <3>4, <3>8, <2>1
      <4>2. x <= y + q /\ y <= c[k] /\ c[k + 1] = c[k] + q
        BY <3>2, <3>3, <3>7
      <4> HIDE DEF x, y, q
      <4>3. x <= c[k + 1]
        BY <4>1, <4>2
      <4> QED BY <4>3 DEF x
    <3> QED BY <3>1, <3>9
  <2>5. L \in A
    <3>1. a \in Int /\ L \in Int
      BY <2>1
    <3> HIDE DEF A, a, L
    <3>2. a .. L \subseteq A
      BY <2>3, <2>4, <3>1, IntervalInduct
    <3> QED BY <3>2, <2>1 DEF a
  <2>6. d[L - 1][w[L]] <= c[L] /\ L - 1 \in 0 .. N /\ w[L] \in Node
    BY <2>1, <2>5, <1>1, <1>11
  <2> DEFINE B == {i \in Int : i \in 0 .. N => d[i][w[L]] <= c[L]}
             b == L - 1
  <2>7. b \in B
    BY <2>6
  <2>8. ASSUME NEW i \in b .. N - 1, i \in B  PROVE i + 1 \in B
    <3>1. i \in 0 .. N - 1 /\ i \in 0 .. N /\ i + 1 \in 0 .. N
      BY <2>1, <1>1
    <3>2. d[i] \in [Node -> Nat] /\ d[i + 1] \in [Node -> Nat] /\ d[i + 1] = Relaxed(p, s, d[i])
      BY <3>1, <1>9, <1>10
    <3>3. d[i + 1][w[L]] <= d[i][w[L]]
      BY <3>2, <2>6, RelaxedIs, ZenonT(60)
    <3>4. d[i + 1][w[L]] \in Nat /\ d[i][w[L]] \in Nat /\ c[L] \in Nat /\ d[i][w[L]] <= c[L]
      BY <3>1, <3>2, <2>1, <2>6, <2>8
    <3> QED BY <3>3, <3>4
  <2>9. N \in B
    <3>1. b \in Int /\ N \in Int /\ N \in b .. N
      BY <2>1, <1>1, <1>11
    <3> HIDE DEF B, b
    <3>2. b .. N \subseteq B
      BY <2>7, <2>8, <3>1, IntervalInduct
    <3> QED BY <3>1, <3>2
  <2> QED BY <2>9, <1>1, <1>8
<1>12. \A n \in Node : DistOf(p, s)[n] \in Nat
  BY <1>1, <1>8, <1>10
<1> DEFINE Cost(n, x) == \E w, c : IsWalk(s, p, w, c) /\ w[Len(w)] = n /\ c[Len(w)] = x
           A == {i \in Int : i \in 0 .. N => \A n \in Node : d[i][n] < HUGE => Cost(n, d[i][n])}
           a == 0
<1>13. a \in A
  <2> SUFFICES ASSUME NEW n \in Node, d[0][n] < HUGE  PROVE Cost(n, d[0][n])
    OBVIOUS
  <2>1. n = SourceOf[s] /\ d[0][n] = 0
    BY <1>1, <1>3a, <1>9
  <2>2. IsWalk(s, p, << n >>, << 0 >>)
    BY <2>1, <1>1 DEF IsWalk, Costing
  <2>3. << n >>[Len(<< n >>)] = n /\ << 0 >>[Len(<< n >>)] = d[0][n]
    BY <2>1
  <2> QED BY <2>2, <2>3
<1>14. ASSUME NEW i \in a .. N - 1, i \in A  PROVE i + 1 \in A
  <2> SUFFICES ASSUME NEW n \in Node, d[i + 1][n] < HUGE  PROVE Cost(n, d[i + 1][n])
    OBVIOUS
  <2>1. /\ d[i] \in [Node -> Nat] /\ d[i + 1] = Relaxed(p, s, d[i])
        /\ \A m \in Node : d[i][m] < HUGE => Cost(m, d[i][m])
    <3>1. i \in 0 .. N /\ i \in 0 .. N - 1
      BY <1>1
    <3> QED BY <3>1, <1>9, <1>10, <1>14
  <2> HIDE DEF Cost
  <2>2. CASE d[i + 1][n] = d[i][n]
    BY <2>1, <2>2
  <2>3. CASE d[i + 1][n] # d[i][n]
    <3>1. PICK m \in Node : /\ n \in Open(s) /\ << m, n >> \in Edge /\ d[i][m] < HUGE
                            /\ d[i + 1][n] = d[i][m] + p[<< m, n >>]
      <4>1. \/ Relaxed(p, s, d[i])[n] = d[i][n]
            \/ \E m \in Node : /\ n \in Open(s) /\ << m, n >> \in Edge /\ d[i][m] < HUGE
                              /\ Relaxed(p, s, d[i])[n] = d[i][m] + p[<< m, n >>]
        BY <2>1, RelaxedIs
      <4> QED BY <4>1, <2>1, <2>3
    <3>2. PICK w, c : IsWalk(s, p, w, c) /\ w[Len(w)] = m /\ c[Len(w)] = d[i][m]
      BY <2>1, <3>1 DEF Cost
    <3>3. PICK v, e : /\ IsWalk(s, p, v, e) /\ v[Len(v)] = n
                      /\ e[Len(v)] = c[Len(w)] + p[<< w[Len(w)], n >>]
      <4>1. IsWalk(s, p, w, c) /\ << w[Len(w)], n >> \in Edge /\ n \in Open(s)
        BY <3>1, <3>2
      <4> QED BY <4>1, WalkOn
    <3>4. v[Len(v)] = n /\ e[Len(v)] = d[i + 1][n]
      BY <3>1, <3>2, <3>3
    <3> QED BY <3>3, <3>4 DEF Cost
  <2> QED BY <2>2, <2>3
<1>15. \A n \in Node : DistOf(p, s)[n] < HUGE => Cost(n, DistOf(p, s)[n])
  <2>1. a \in Int /\ N \in Int /\ N \in a .. N
    BY <1>1
  <2>2. N \in A
    <3> HIDE DEF A, a
    <3>1. a .. N \subseteq A
      BY <1>13, <1>14, <2>1, IntervalInduct
    <3> QED BY <2>1, <3>1
  <2> HIDE DEF Cost
  <2> QED BY <2>1, <2>2, <1>8
<1> QED BY <1>11, <1>12, <1>15

-----------------------------------------------------------------------------
(* The invariant *)

\* A walk from the SOURCE to n for x, over nodes of M that are noted in b with no
\* more than it costs there, none of them met twice.
Known(s, p, M, b, n, x) ==
  \E w, c :
    /\ IsWalk(s, p, w, c) /\ w[Len(w)] = n /\ c[Len(w)] = x
    /\ \A k \in 1 .. Len(w) : w[k] \in M /\ b[w[k]] <= c[k]
    /\ \A i, j \in 1 .. Len(w) : w[i] = w[j] => i = j

\* The cost noted for an expanded node is that of such a walk.
Ways == \A n \in modified : Known(search, price, modified, back_cost, n, back_cost[n])

\* An entry of the heap: the SOURCE, or an edge further than an expanded node.
IsEntry(s, p, h, M, b, e) ==
  /\ e.back <= e.cost /\ e.cost < HUGE
  /\ \/ e.prev = NO_PREVIOUS /\ e.index = SourceOf[s] /\ e.back = 0 /\ e.cost = 0
     \/ LET edge == << e.prev, e.index >>
        IN  /\ e.prev \in M /\ edge \in Edge /\ e.index \notin Pruned[s]
            /\ e.cost = e.back + h[edge]
            /\ \E x \in Nat : Known(s, p, M, b, e.prev, x) /\ e.back = x + p[edge]

Entries == \A e \in heap : IsEntry(search, price, estimate, modified, back_cost, e)

\* Node n is expanded, or on the heap H; for x at most, if the estimates are good.
Settled(good, M, b, H, n, x) ==
  \/ n \in M /\ (good => b[n] <= x)
  \/ \E f \in H : f.index = n /\ (good => f.back <= x)

Frontier ==
  LET settled(n, x) == Settled(IsConsistent(search), modified, back_cost, heap, n, x)
  IN  /\ settled(SourceOf[search], 0)
      /\ \A m \in modified, n \in Node :
           << m, n >> \in Edge /\ n \notin Pruned[search]
             => settled(n, back_cost[m] + price[<< m, n >>])

Searching == pc = "search" => InOrder /\ Ways /\ Entries /\ Frontier

IInv == TypeOK /\ Cleaned /\ Searching

-----------------------------------------------------------------------------
(* A step of the search *)

\* Whether the estimates are consistent does not change while the search runs.
LEMMA SameConsistency ==
  ASSUME UNCHANGED << search, price, estimate >>
  PROVE  IsConsistent(search)' <=> IsConsistent(search)
  BY DEF IsConsistent

\* Walks are still known when more nodes are expanded and costs fall.
LEMMA StillKnown ==
  ASSUME NEW s \in Search, NEW p \in [Edge -> Nat],
         NEW M \in SUBSET Node, NEW L \in SUBSET Node, M \subseteq L,
         NEW b \in [Node -> Nat], NEW d \in [Node -> Nat], \A n \in M : d[n] <= b[n],
         NEW n, NEW x, Known(s, p, M, b, n, x)
  PROVE  Known(s, p, L, d, n, x)
<1>1. PICK w, c :
        /\ IsWalk(s, p, w, c) /\ w[Len(w)] = n /\ c[Len(w)] = x
        /\ \A k \in 1 .. Len(w) : w[k] \in M /\ b[w[k]] <= c[k]
        /\ \A i, j \in 1 .. Len(w) : w[i] = w[j] => i = j
  BY DEF Known
<1>2. \A k \in 1 .. Len(w) : c[k] \in Nat
  BY <1>1, WalkIs
<1>3. ASSUME NEW k \in 1 .. Len(w)  PROVE w[k] \in L /\ d[w[k]] <= c[k]
  <2>1. w[k] \in M /\ w[k] \in Node /\ c[k] \in Nat /\ b[w[k]] <= c[k] /\ d[w[k]] <= b[w[k]]
    BY <1>1, <1>2
  <2>2. d[w[k]] \in Nat /\ b[w[k]] \in Nat
    BY <2>1
  <2> QED BY <2>1, <2>2
<1> QED BY <1>1, <1>3, Zenon DEF Known

\* Types of what an entry holds.
LEMMA EntryTypes ==
  ASSUME TypeOK, NEW e \in heap
  PROVE  /\ e.index \in Node /\ e.cost \in Nat /\ e.back \in Nat
         /\ e.prev \in Node \cup {NO_PREVIOUS}
  BY DEF TypeOK, Entry

\* The walk to the node of an entry that improves on it: none of its nodes is that
\* node, for those are noted with no more than the walk costs.
LEMMA NewWay ==
  ASSUME IInv, pc = "search", NEW e \in heap, IsBetter(e),
         NEW d, d = [back_cost EXCEPT ![e.index] = e.back]
  PROVE  /\ Known(search, price, modified \cup {e.index}, d, e.index, e.back)
         /\ e.prev # e.index
         /\ \A m \in modified : d[m] <= back_cost[m]
         /\ e.index \in modified => e.back < back_cost[e.index]
<1> DEFINE n == e.index
           s == search
           M == modified \cup {n}
<1>1. TypeOK /\ Cleaned /\ IsEntry(s, price, estimate, modified, back_cost, e) /\ s \in Search
  BY DEF IInv, Searching, Entries, Cleaned
<1>2. n \in Node /\ e.cost \in Nat /\ e.back \in Nat /\ e.prev \in Node \cup {NO_PREVIOUS}
  BY <1>1, EntryTypes
<1>3. /\ back_cost \in [Node -> Nat] /\ modified \subseteq Node /\ price \in [Edge -> Nat]
      /\ path_cost \in [Node -> 0 .. HUGE] /\ NO_PREVIOUS \notin Node /\ HUGE \in Nat
  BY <1>1, SearchAssumption DEF TypeOK
<1>4. n \in modified => e.back < back_cost[n]
  BY <1>1, <1>2, <1>3 DEF IsBetter, OldBackCost, Cleaned
<1>5. /\ d \in [Node -> Nat] /\ d[n] = e.back
      /\ \A m \in Node : m # n => d[m] = back_cost[m]
  BY <1>2, <1>3
<1>6. \A m \in modified : d[m] <= back_cost[m]
  BY <1>2, <1>3, <1>4, <1>5
<1>7. CASE e.prev = NO_PREVIOUS
  <2>1. n = SourceOf[s] /\ e.back = 0
    BY <1>1, <1>3, <1>7 DEF IsEntry
  <2>2. IsWalk(s, price, << n >>, << 0 >>)
    BY <1>2, <2>1 DEF IsWalk, Costing
  <2>3. \A k \in 1 .. Len(<< n >>) : << n >>[k] \in M /\ d[<< n >>[k]] <= << 0 >>[k]
    BY <1>5, <2>1
  <2>4. \A i, j \in 1 .. Len(<< n >>) : i = j
    OBVIOUS
  <2>5. << n >>[Len(<< n >>)] = n /\ << 0 >>[Len(<< n >>)] = e.back
    BY <2>1
  <2>6. Known(s, price, M, d, n, e.back)
    BY <2>2, <2>3, <2>4, <2>5, SMTT(30) DEF Known
  <2> QED BY <2>6, <1>2, <1>3, <1>4, <1>6, <1>7
<1>8. CASE e.prev # NO_PREVIOUS
  <2>1. /\ e.prev \in modified /\ << e.prev, n >> \in Edge /\ n \notin Pruned[s]
        /\ \E x \in Nat : Known(s, price, modified, back_cost, e.prev, x)
                          /\ e.back = x + price[<< e.prev, n >>]
    BY <1>1, <1>8 DEF IsEntry
  <2>2. PICK w, c :
          /\ IsWalk(s, price, w, c) /\ w[Len(w)] = e.prev
          /\ e.back = c[Len(w)] + price[<< e.prev, n >>]
          /\ \A k \in 1 .. Len(w) : w[k] \in modified /\ back_cost[w[k]] <= c[k]
          /\ \A i, j \in 1 .. Len(w) : w[i] = w[j] => i = j
    BY <2>1 DEF Known
  <2>3. /\ \A k \in 1 .. Len(w) : w[k] \in Node /\ c[k] \in Nat
        /\ \A i, j \in 1 .. Len(w) : i <= j => c[i] <= c[j]
        /\ Len(w) \in Nat /\ Len(w) >= 1
    BY <2>2, <1>3, WalkIs
  <2>4. ASSUME NEW k \in 1 .. Len(w)  PROVE w[k] # n
    <3> SUFFICES ASSUME w[k] = n  PROVE FALSE
      OBVIOUS
    <3>1. n \in modified /\ back_cost[n] <= c[k]
      BY <2>2
    <3>2. Len(w) \in 1 .. Len(w) /\ k <= Len(w) /\ k \in 1 .. Len(w)
      BY <2>3
    <3>3. c[k] <= c[Len(w)] /\ c[k] \in Nat /\ c[Len(w)] \in Nat
      BY <2>3, <3>2
    <3>4. price[<< e.prev, n >>] \in Nat /\ back_cost[n] \in Nat
      BY <2>1, <1>2, <1>3
    <3> QED BY <3>1, <3>3, <3>4, <2>2, <1>2, <1>4, SMTT(30)
  <2>5. n \in Open(s)
    BY <2>1, <1>2 DEF Open
  <2>6. PICK v, y :
          /\ IsWalk(s, price, v, y)
          /\ Len(v) = Len(w) + 1 /\ v[Len(v)] = n
          /\ y[Len(v)] = c[Len(w)] + price[<< w[Len(w)], n >>]
          /\ \A k \in 1 .. Len(w) : v[k] = w[k] /\ y[k] = c[k]
    <3>1. /\ s \in Search /\ price \in [Edge -> Nat] /\ IsWalk(s, price, w, c)
          /\ n \in Open(s) /\ << w[Len(w)], n >> \in Edge
      BY <2>1, <2>2, <2>5, <1>1, <1>3
    <3> HIDE DEF s, n
    <3> QED BY <3>1, WalkOn
  <2>7. y[Len(v)] = e.back
    BY <2>2, <2>6
  <2>8. \A k \in 1 .. Len(v) : k \in 1 .. Len(w) \/ k = Len(v)
    BY <2>3, <2>6
  <2>9. ASSUME NEW k \in 1 .. Len(v)  PROVE v[k] \in M /\ d[v[k]] <= y[k]
    <3>1. CASE k = Len(v)
      BY <3>1, <2>6, <2>7, <1>2, <1>5
    <3>2. CASE k \in 1 .. Len(w)
      <4>1. v[k] = w[k] /\ y[k] = c[k] /\ w[k] \in modified /\ back_cost[w[k]] <= c[k]
        BY <3>2, <2>2, <2>6
      <4>2. d[w[k]] = back_cost[w[k]]
        BY <4>1, <3>2, <2>4, <1>3, <1>5
      <4> QED BY <4>1, <4>2
    <3> QED BY <3>1, <3>2, <2>8
  <2>10. \A i, j \in 1 .. Len(v) : v[i] = v[j] => i = j
    <3>1. \A i \in 1 .. Len(w) : v[i] = w[i] /\ v[i] # v[Len(v)]
      BY <2>4, <2>6
    <3> QED BY <3>1, <2>2, <2>8
  <2>11. Known(s, price, M, d, n, e.back)
    BY <2>6, <2>7, <2>9, <2>10, Zenon DEF Known
  <2>12. e.prev # n
    <3>1. Len(w) \in 1 .. Len(w)
      BY <2>3
    <3> QED BY <3>1, <2>2, <2>4
  <2> QED BY <2>11, <2>12, <1>4, <1>6
<1> QED BY <1>7, <1>8

\* What an edge from the node of an improving entry leads to.
LEMMA ReachedIs ==
  ASSUME IInv, pc = "search", NEW e \in heap, IsBetter(e), e.index # TargetOf[search],
         NEW edge \in Edge, edge[1] = e.index, edge[2] \notin Pruned[search]
  PROVE  LET f == Reached(e, edge)
         IN  /\ f \in Entry /\ f.index = edge[2] /\ f.prev = e.index
             /\ f.back = e.back + price[edge] /\ f.cost = f.back + estimate[edge]
             /\ f.cost < HUGE
             /\ edge = << e.index, edge[2] >> /\ edge[2] \in Open(search)
<1> DEFINE d == [back_cost EXCEPT ![e.index] = e.back]
           f == Reached(e, edge)
<1>1. /\ e.index \in Node /\ e.back \in Nat /\ price \in Prices /\ estimate \in Estimates
      /\ search \in Search
  BY EntryTypes DEF IInv, TypeOK, Cleaned
<1>2. edge \in Node \X Node /\ edge = << e.index, edge[2] >> /\ edge[2] \in Node
  BY SearchAssumption
<1>3. price[edge] \in Nat /\ estimate[edge] \in Nat
  BY <1>1, SearchAssumption
<1>4. Known(search, price, modified \cup {e.index}, d, e.index, e.back)
  BY NewWay
<1> HIDE DEF d
<1>5. PICK w, c : /\ IsWalk(search, price, w, c) /\ w[Len(w)] = e.index /\ c[Len(w)] = e.back
                  /\ \A i, j \in 1 .. Len(w) : w[i] = w[j] => i = j
  BY <1>4, Zenon DEF Known
<1>6. c[Len(w)] + price[<< w[Len(w)], edge[2] >>] + estimate[<< w[Len(w)], edge[2] >>] < HUGE
  <2> DEFINE n == edge[2]
  <2>1. << w[Len(w)], n >> \in Edge
    BY <1>2, <1>5
  <2> HIDE DEF n
  <2>2. c[Len(w)] + price[<< w[Len(w)], n >>] + estimate[<< w[Len(w)], n >>] < HUGE
    BY <2>1, <1>1, <1>5, Affordable
  <2> QED BY <2>2 DEF n
<1>7. e.back + price[edge] + estimate[edge] < HUGE
  BY <1>2, <1>5, <1>6
<1>8. f \in Entry /\ f.index = edge[2] /\ f.prev = e.index
      /\ f.back = e.back + price[edge] /\ f.cost = f.back + estimate[edge]
  BY <1>1, <1>2, <1>3 DEF Reached, Entry
<1>9. edge[2] \in Open(search)
  BY <1>2 DEF Open
<1> QED BY <1>2, <1>7, <1>8, <1>9

\* Expanding a heap entry keeps the types, and clean what has not been reached.
LEMMA ExpandTypes ==
  ASSUME IInv, NEW e \in heap, ExpandNode(e)
  PROVE  TypeOK' /\ Cleaned'
<1>1. /\ pc = "search" /\ e.index # TargetOf[search] /\ IsBetter(e)
      /\ prev_node' = [prev_node EXCEPT ![e.index] = e.prev]
      /\ path_cost' = [path_cost EXCEPT ![e.index] = e.cost]
      /\ back_cost' = [back_cost EXCEPT ![e.index] = e.back]
      /\ modified'  = modified \cup {e.index}
      /\ heap' = (heap \ {e}) \cup Expansion(e)
      /\ UNCHANGED << search, price, estimate, trace, pc >>
  BY DEF ExpandNode, Rest
<1>2. e.index \in Node /\ e.cost \in Nat /\ e.back \in Nat /\ e.prev \in Node \cup {NO_PREVIOUS}
      /\ TypeOK /\ Cleaned
  BY EntryTypes DEF IInv
<1>3. e.cost \in 0 .. HUGE /\ e.cost # HUGE
  <2>1. IsEntry(search, price, estimate, modified, back_cost, e)
    BY <1>1 DEF IInv, Searching, Entries
  <2> QED BY <2>1, <1>2, SearchAssumption DEF IsEntry
<1>4. Expansion(e) \subseteq Entry
  <2> SUFFICES ASSUME NEW f \in Expansion(e)  PROVE f \in Entry
    OBVIOUS
  <2>1. PICK edge \in Edge : edge[1] = e.index /\ f = Reached(e, edge) /\ f.index \notin Pruned[search]
    BY DEF Expansion
  <2>2. edge[2] \notin Pruned[search]
    BY <2>1 DEF Reached
  <2> QED BY <2>1, <2>2, <1>1, ReachedIs
<1>5. TypeOK'
  BY <1>1, <1>2, <1>3, <1>4 DEF TypeOK
<1>6. \A n \in Node : n \in modified' <=> path_cost'[n] # HUGE
  BY <1>1, <1>2, <1>3 DEF TypeOK, Cleaned
<1>7. pc' = "search" /\ search' \in Search /\ TargetOf[search'] \notin modified'
  BY <1>1, <1>2 DEF Cleaned
<1> QED BY <1>5, <1>6, <1>7 DEF Cleaned

\* With consistent estimates nodes still come up in order of their known costs.
LEMMA ExpandInOrder ==
  ASSUME IInv, NEW e \in heap, ExpandNode(e)
  PROVE  InOrder'
<1> DEFINE n == e.index
<1>1. /\ pc = "search" /\ IsBetter(e)
      /\ prev_node' = [prev_node EXCEPT ![n] = e.prev]
      /\ path_cost' = [path_cost EXCEPT ![n] = e.cost]
      /\ back_cost' = [back_cost EXCEPT ![n] = e.back]
      /\ modified'  = modified \cup {n}
      /\ search' = search /\ price' = price /\ estimate' = estimate
  BY DEF ExpandNode
<1>2. /\ n \in Node /\ e.cost \in Nat /\ e.back \in Nat /\ e.prev \in Node \cup {NO_PREVIOUS}
      /\ TypeOK /\ IsEntry(search, price, estimate, modified, back_cost, e) /\ InOrder
      /\ search \in Search
  BY <1>1, EntryTypes DEF IInv, Searching, Entries, Cleaned
<1>3. /\ e.prev # n
      /\ n \in modified => e.back < back_cost[n]
  BY <1>1, NewWay
<1> HIDE DEF n
<1>4. /\ back_cost \in [Node -> Nat] /\ modified \subseteq Node /\ price \in [Edge -> Nat]
      /\ prev_node \in [Node -> Node \cup {NO_PREVIOUS}] /\ NO_PREVIOUS \notin Node
      /\ path_cost \in [Node -> 0 .. HUGE]
  BY <1>2, SearchAssumption DEF TypeOK
<1>5. PICK t \in [Node -> Nat], last \in Nat : Forest(t) /\ \A m \in Node : t[m] <= last
  BY <1>2 DEF InOrder
<1> DEFINE u == [t EXCEPT ![n] = last + 1]
<1>6. u \in [Node -> Nat] /\ last + 1 \in Nat /\ \A m \in Node : u[m] <= last + 1
  BY <1>2, <1>5
<1>7. /\ prev_node'[n] = e.prev /\ path_cost'[n] = e.cost /\ back_cost'[n] = e.back
      /\ u[n] = last + 1
      /\ \A m \in Node : m # n => /\ prev_node'[m] = prev_node[m] /\ path_cost'[m] = path_cost[m]
                                  /\ back_cost'[m] = back_cost[m] /\ u[m] = t[m]
  BY <1>1, <1>2, <1>4
<1> HIDE DEF u
<1>8. ASSUME NEW m \in modified', m = SourceOf[search]
      PROVE  prev_node'[m] = NO_PREVIOUS /\ back_cost'[m] = 0
  <2>1. CASE m = n
    <3>1. \A edge \in Edge : edge[2] # n
      BY <2>1, <1>2, <1>8, TerminalAssumption
    <3>2. e.prev = NO_PREVIOUS /\ e.back = 0
      BY <3>1, <1>2 DEF IsEntry, n
    <3> QED BY <3>2, <2>1, <1>7
  <2>2. CASE m # n
    <3>1. m \in modified /\ m \in Node
      BY <2>2, <1>1, <1>4
    <3>2. prev_node[m] = NO_PREVIOUS /\ back_cost[m] = 0
      BY <3>1, <1>5, <1>8 DEF Forest
    <3> QED BY <3>1, <3>2, <2>2, <1>7
  <2> QED BY <2>1, <2>2
<1>9. ASSUME NEW m \in modified', m # SourceOf[search]
      PROVE  LET p == prev_node'[m]
             IN  /\ p \in modified'
                 /\ << p, m >> \in Edge
                 /\ path_cost'[m] = back_cost'[m] + estimate[<< p, m >>]
                 /\ back_cost'[p] + price[<< p, m >>] <= back_cost'[m]
                 /\ back_cost'[p] = back_cost'[m] => u[p] < u[m]
  <2>1. CASE m = n
    <3> DEFINE p == e.prev
    <3>1. /\ p \in modified /\ << p, n >> \in Edge
          /\ e.cost = e.back + estimate[<< p, n >>]
          /\ \E x \in Nat : Known(search, price, modified, back_cost, p, x)
                            /\ e.back = x + price[<< p, n >>]
      BY <2>1, <1>2, <1>9 DEF IsEntry, n
    <3>2. PICK x \in Nat : Known(search, price, modified, back_cost, p, x)
                            /\ e.back = x + price[<< p, n >>]
      BY <3>1
    <3>3. back_cost[p] <= x
      <4>1. PICK w, c : /\ IsWalk(search, price, w, c) /\ w[Len(w)] = p /\ c[Len(w)] = x
                        /\ \A k \in 1 .. Len(w) : w[k] \in modified /\ back_cost[w[k]] <= c[k]
        BY <3>2, Zenon DEF Known
      <4>2. Len(w) \in 1 .. Len(w)
        <5>1. Len(w) \in Nat /\ Len(w) >= 1
          BY <4>1, <1>4, WalkIs
        <5> QED BY <5>1
      <4> QED BY <4>1, <4>2
    <3>4. p # n /\ p \in Node /\ back_cost'[p] = back_cost[p] /\ u[p] = t[p] /\ p \in modified'
      BY <3>1, <1>1, <1>3, <1>4, <1>7
    <3>5. price[<< p, n >>] \in Nat /\ back_cost[p] \in Nat /\ t[p] \in Nat /\ t[p] <= last
      BY <3>1, <3>4, <1>4, <1>5
    <3>6. back_cost[p] + price[<< p, n >>] <= e.back /\ t[p] < last + 1
      BY <3>2, <3>3, <3>5, <1>5
    <3> HIDE DEF p
    <3>7. prev_node'[m] = p
      BY <2>1, <1>7 DEF p
    <3> QED BY <3>1, <3>4, <3>6, <3>7, <2>1, <1>7
  <2>2. CASE m # n
    <3> DEFINE p == prev_node[m]
    <3>1. m \in modified /\ m \in Node
      BY <2>2, <1>1, <1>4
    <3>2. /\ p \in modified
          /\ << p, m >> \in Edge
          /\ path_cost[m] = back_cost[m] + estimate[<< p, m >>]
          /\ back_cost[p] + price[<< p, m >>] <= back_cost[m]
          /\ back_cost[p] = back_cost[m] => t[p] < t[m]
      BY <3>1, <1>5, <1>9 DEF Forest, Upstream
    <3> HIDE DEF p
    <3>3. /\ price[<< p, m >>] \in Nat /\ back_cost[p] \in Nat /\ back_cost[m] \in Nat
          /\ p \in Node /\ p \in modified'
      BY <3>1, <3>2, <1>1, <1>4
    <3>4. /\ prev_node'[m] = p /\ path_cost'[m] = path_cost[m] /\ back_cost'[m] = back_cost[m]
          /\ u[m] = t[m]
      BY <3>1, <2>2, <1>7 DEF p
    <3>5. /\ back_cost'[p] + price[<< p, m >>] <= back_cost[m]
          /\ back_cost'[p] = back_cost[m] => u[p] < t[m]
      <4>1. CASE p = n
        <5>1. back_cost'[p] = e.back /\ e.back < back_cost[p]
          BY <4>1, <3>2, <1>3, <1>7
        <5> QED BY <5>1, <3>2, <3>3, <1>2
      <4>2. CASE p # n
        BY <4>2, <3>2, <3>3, <1>7
      <4> QED BY <4>1, <4>2
    <3> QED BY <3>2, <3>3, <3>4, <3>5
  <2> QED BY <2>1, <2>2
<1>10. Forest(u)'
  BY <1>1, <1>8, <1>9 DEF Forest, Upstream
<1> QED BY <1>6, <1>10 DEF InOrder

\* What is known before an expansion is known after it.
LEMMA ExpandKnown ==
  ASSUME IInv, NEW e \in heap, ExpandNode(e)
  PROVE  /\ \A n, x : Known(search, price, modified, back_cost, n, x)
                        => Known(search, price, modified', back_cost', n, x)
         /\ Known(search, price, modified', back_cost', e.index, e.back)
<1>1. /\ pc = "search" /\ IsBetter(e)
      /\ back_cost' = [back_cost EXCEPT ![e.index] = e.back]
      /\ modified'  = modified \cup {e.index}
  BY DEF ExpandNode
<1>2. /\ search \in Search /\ price \in [Edge -> Nat]
      /\ modified \in SUBSET Node /\ modified' \in SUBSET Node /\ modified \subseteq modified'
      /\ back_cost \in [Node -> Nat] /\ back_cost' \in [Node -> Nat]
  BY <1>1, EntryTypes, SearchAssumption DEF IInv, TypeOK, Cleaned
<1>3. \A m \in modified : back_cost'[m] <= back_cost[m]
  BY <1>1, NewWay
<1>4. Known(search, price, modified', back_cost', e.index, e.back)
  BY <1>1, NewWay
<1> QED BY <1>2, <1>3, <1>4, StillKnown

\* Every node that has been reached, and every entry, still has its way back.
LEMMA ExpandWays ==
  ASSUME IInv, NEW e \in heap, ExpandNode(e)
  PROVE  Ways' /\ Entries'
<1>1. /\ pc = "search" /\ IsBetter(e) /\ e.index # TargetOf[search]
      /\ back_cost' = [back_cost EXCEPT ![e.index] = e.back]
      /\ modified'  = modified \cup {e.index}
      /\ heap' = (heap \ {e}) \cup Expansion(e)
      /\ search' = search /\ price' = price /\ estimate' = estimate
  BY DEF ExpandNode, Rest
<1>2. /\ e.index \in Node /\ e.back \in Nat
      /\ back_cost \in [Node -> Nat] /\ modified \subseteq Node
      /\ price \in [Edge -> Nat] /\ estimate \in [Edge -> Nat]
      /\ Ways /\ Entries
  BY <1>1, EntryTypes, SearchAssumption DEF IInv, TypeOK, Searching
<1>3. ASSUME NEW n \in modified'
      PROVE  Known(search, price, modified', back_cost', n, back_cost'[n])
  <2>1. CASE n = e.index
    BY <2>1, <1>1, <1>2, ExpandKnown
  <2>2. CASE n # e.index
    <3>1. n \in modified /\ back_cost'[n] = back_cost[n]
      BY <2>2, <1>1, <1>2
    <3>2. Known(search, price, modified, back_cost, n, back_cost[n])
      BY <3>1, <1>2 DEF Ways
    <3> QED BY <3>1, <3>2, ExpandKnown
  <2> QED BY <2>1, <2>2
<1>4. ASSUME NEW f \in heap'
      PROVE  IsEntry(search, price, estimate, modified', back_cost', f)
  <2>1. CASE f \in heap
    <3>1. IsEntry(search, price, estimate, modified, back_cost, f)
      BY <2>1, <1>2 DEF Entries
    <3>2. modified \subseteq modified'
      BY <1>1
    <3>3. \A x \in Nat : Known(search, price, modified, back_cost, f.prev, x)
                            => Known(search, price, modified', back_cost', f.prev, x)
      BY ExpandKnown
    <3> QED BY <3>1, <3>2, <3>3, Zenon DEF IsEntry
  <2>2. CASE f \in Expansion(e)
    <3>1. PICK edge \in Edge : edge[1] = e.index /\ f = Reached(e, edge) /\ f.index \notin Pruned[search]
      BY <2>2 DEF Expansion
    <3>2. edge[2] \notin Pruned[search]
      BY <3>1 DEF Reached
    <3>3. /\ f.index = edge[2] /\ f.prev = e.index
          /\ f.back = e.back + price[edge] /\ f.cost = f.back + estimate[edge]
          /\ f.cost < HUGE
          /\ edge = << e.index, edge[2] >> /\ edge[2] \in Open(search)
      BY <3>1, <3>2, <1>1, ReachedIs
    <3>4. f.back <= f.cost
      BY <3>3, <1>2
    <3>5. << f.prev, f.index >> = edge /\ f.prev \in modified'
      BY <3>3, <1>1
    <3>6. Known(search, price, modified', back_cost', f.prev, e.back)
      BY <3>3, ExpandKnown
    <3> QED BY <3>1, <3>2, <3>3, <3>4, <3>5, <3>6, <1>2 DEF IsEntry
  <2> QED BY <2>1, <2>2, <1>1
<1> QED BY <1>1, <1>3, <1>4 DEF Ways, Entries

\* What is one edge from an expanded node is expanded or on the heap itself.
LEMMA ExpandFrontier ==
  ASSUME IInv, NEW e \in heap, ExpandNode(e)
  PROVE  Frontier'
<1> DEFINE good == IsConsistent(search)
           before(n, x) == Settled(good, modified, back_cost, heap, n, x)
           after(n, x) == Settled(good, modified', back_cost', heap', n, x)
<1>1. /\ pc = "search" /\ IsBetter(e) /\ e.index # TargetOf[search]
      /\ back_cost' = [back_cost EXCEPT ![e.index] = e.back]
      /\ modified'  = modified \cup {e.index}
      /\ heap' = (heap \ {e}) \cup Expansion(e)
      /\ search' = search /\ price' = price /\ estimate' = estimate
  BY DEF ExpandNode, Rest
<1>2. /\ e.index \in Node /\ e.back \in Nat
      /\ back_cost \in [Node -> Nat] /\ modified \subseteq Node
      /\ price \in [Edge -> Nat] /\ estimate \in [Edge -> Nat]
      /\ path_cost \in [Node -> 0 .. HUGE] /\ HUGE \in Nat
      /\ Frontier /\ InOrder /\ Cleaned /\ search \in Search
  BY <1>1, EntryTypes, SearchAssumption DEF IInv, TypeOK, Searching, Cleaned
<1>3. e.index \in modified => e.back < back_cost[e.index]
  BY <1>1, NewWay
<1>4. good' <=> good
  BY <1>1, SameConsistency
<1> HIDE DEF good
<1>5. ASSUME NEW n \in Node, NEW x \in Nat, before(n, x)
      PROVE  after(n, x)
  <2>1. CASE n \in modified /\ (good => back_cost[n] <= x)
    <3>1. n \in modified' /\ back_cost'[n] <= back_cost[n]
      BY <2>1, <1>1, <1>2, <1>3
    <3>2. back_cost'[n] \in Nat /\ back_cost[n] \in Nat
      BY <1>1, <1>2
    <3>3. good => back_cost'[n] <= x
      BY <2>1, <3>1, <3>2
    <3> QED BY <3>1, <3>3 DEF Settled
  <2>2. CASE \E f \in heap : f.index = n /\ (good => f.back <= x)
    <3>1. PICK f \in heap : f.index = n /\ (good => f.back <= x)
      BY <2>2
    <3>2. CASE f = e
      <4>1. n \in modified' /\ back_cost'[n] = e.back
        BY <3>1, <3>2, <1>1, <1>2
      <4> QED BY <3>1, <3>2, <4>1 DEF Settled
    <3>3. CASE f # e
      <4>1. f \in heap'
        BY <3>3, <1>1
      <4> QED BY <3>1, <4>1 DEF Settled
    <3> QED BY <3>2, <3>3
  <2> QED BY <2>1, <2>2, <1>5 DEF Settled
<1>6. /\ before(SourceOf[search], 0)
      /\ \A m \in modified, n \in Node :
           << m, n >> \in Edge /\ n \notin Pruned[search]
             => before(n, back_cost[m] + price[<< m, n >>])
  BY <1>2 DEF Frontier, good
<1>7. after(SourceOf[search], 0)
  BY <1>2, <1>5, <1>6, SearchAssumption
<1>8. ASSUME NEW m \in modified', NEW n \in Node, << m, n >> \in Edge, n \notin Pruned[search]
      PROVE  after(n, back_cost'[m] + price[<< m, n >>])
  <2> DEFINE edge == << m, n >>
  <2>1. price[edge] \in Nat /\ estimate[edge] \in Nat
    BY <1>2, <1>8
  <2>2. CASE m # e.index
    <3>1. m \in modified /\ back_cost'[m] = back_cost[m] /\ back_cost[m] + price[edge] \in Nat
      BY <2>1, <2>2, <1>1, <1>2
    <3>2. before(n, back_cost[m] + price[edge])
      BY <3>1, <1>6, <1>8
    <3> QED BY <3>1, <3>2, <1>5
  <2>3. CASE m = e.index
    <3> DEFINE f == Reached(e, edge)
    <3>1. back_cost'[m] = e.back /\ edge[1] = e.index /\ edge[2] = n
      BY <2>3, <1>1, <1>2
    <3>2. /\ f.index = n /\ f.back = e.back + price[edge] /\ f.cost = f.back + estimate[edge]
          /\ f.cost < HUGE
      <4> HIDE DEF edge
      <4> QED BY <3>1, <1>1, <1>8, ReachedIs DEF edge
    <3>3. CASE f.cost < path_cost[n]
      <4>1. f \in Expansion(e)
        BY <3>1, <3>2, <3>3, <1>8 DEF Expansion
      <4>2. f \in heap'
        BY <4>1, <1>1
      <4> HIDE DEF f
      <4>3. \E g \in heap' : g.index = n /\ g.back = back_cost'[m] + price[<< m, n >>]
        BY <3>1, <3>2, <4>2
      <4>4. back_cost'[m] \in Nat /\ price[<< m, n >>] \in Nat
        BY <3>1, <2>1, <1>1, <1>2
      <4> QED BY <4>3, <4>4 DEF Settled
    <3>4. CASE ~(f.cost < path_cost[n])
      <4> HIDE DEF f
      <4>1. n \in modified /\ n \in modified' /\ path_cost[n] <= f.cost
        BY <3>2, <3>4, <2>1, <1>1, <1>2 DEF Cleaned
      <4>2. ASSUME good  PROVE back_cost'[n] <= e.back + price[edge]
        <5>1. CASE n = e.index
          BY <5>1, <2>1, <1>1, <1>2
        <5>2. CASE n # e.index
          <6>1. n # SourceOf[search]
            BY <1>2, <1>8, TerminalAssumption
          <6>2. << prev_node[n], n >> \in Edge
                /\ path_cost[n] = back_cost[n] + estimate[<< prev_node[n], n >>]
            BY <4>1, <6>1, <1>2 DEF InOrder, Forest, Upstream
          <6>3. estimate[<< prev_node[n], n >>] = estimate[edge]
            BY <4>2, <6>2, <1>8 DEF good, IsConsistent
          <6>4. back_cost'[n] = back_cost[n] /\ back_cost[n] \in Nat
            BY <5>2, <1>1, <1>2
          <6> HIDE DEF edge
          <6> QED BY <3>2, <4>1, <6>2, <6>3, <6>4, <2>1, <1>2
        <5> QED BY <5>1, <5>2
      <4> QED BY <3>1, <4>1, <4>2 DEF Settled
    <3> QED BY <3>3, <3>4
  <2> QED BY <2>2, <2>3
<1>9. /\ Settled(good', modified', back_cost', heap', SourceOf[search'], 0)
      /\ \A m \in modified', n \in Node :
           << m, n >> \in Edge /\ n \notin Pruned[search']
             => Settled(good', modified', back_cost', heap', n,
                        back_cost'[m] + price'[<< m, n >>])
  BY <1>1, <1>4, <1>7, <1>8 DEF Settled
<1> QED BY <1>9 DEF Frontier, good

\* So the invariant holds after a node has been expanded.
LEMMA ExpandIInv ==
  ASSUME IInv, NEW e \in heap, ExpandNode(e)
  PROVE  IInv'
  BY ExpandTypes, ExpandInOrder, ExpandWays, ExpandFrontier DEF IInv, Searching

\* An entry that does not improve on its node is not needed any more: without
\* having been expanded the node would be improved on, and with good estimates a
\* total that is no higher comes from a backward cost that is no higher.
LEMMA SkipIInv ==
  ASSUME IInv, NEW e \in heap, SkipEntry(e)
  PROVE  IInv'
<1> DEFINE n == e.index
           good == IsConsistent(search)
<1>1. /\ pc = "search" /\ ~IsBetter(e) /\ heap' = heap \ {e}
      /\ UNCHANGED << path_cost, back_cost, prev_node, modified, search, price, estimate, trace, pc >>
  BY DEF SkipEntry, Rest, routeInf
<1>2. TypeOK /\ Cleaned /\ InOrder /\ Ways /\ Entries /\ Frontier
  BY <1>1 DEF IInv, Searching
<1>3. /\ n \in Node /\ e.back \in Nat /\ e.cost \in Nat
      /\ IsEntry(search, price, estimate, modified, back_cost, e)
      /\ path_cost[n] \in 0 .. HUGE /\ back_cost[n] \in Nat /\ HUGE \in Nat
      /\ estimate \in [Edge -> Nat] /\ search \in Search
  BY <1>1, <1>2, EntryTypes, SearchAssumption DEF TypeOK, Entries, Cleaned
<1>4. e.back <= e.cost /\ e.cost < HUGE
  BY <1>3 DEF IsEntry
<1>5. n \in modified /\ path_cost[n] # HUGE
  <2> SUFFICES ASSUME path_cost[n] = HUGE  PROVE FALSE
    BY <1>2, <1>3 DEF Cleaned
  <2> QED BY <1>1, <1>3, <1>4 DEF IsBetter, OldBackCost
<1>6. path_cost[n] <= e.cost \/ back_cost[n] <= e.back
  BY <1>1, <1>3, <1>5 DEF IsBetter, OldBackCost
<1>7. ASSUME good  PROVE back_cost[n] <= e.back
  <2>1. CASE n = SourceOf[search]
    BY <2>1, <1>2, <1>3, <1>5 DEF InOrder, Forest
  <2>2. CASE n # SourceOf[search]
    <3>1. << prev_node[n], n >> \in Edge
          /\ path_cost[n] = back_cost[n] + estimate[<< prev_node[n], n >>]
      BY <2>2, <1>2, <1>5 DEF InOrder, Forest, Upstream
    <3>2. << e.prev, n >> \in Edge /\ e.cost = e.back + estimate[<< e.prev, n >>]
      BY <2>2, <1>3 DEF IsEntry
    <3>3. estimate[<< prev_node[n], n >>] = estimate[<< e.prev, n >>]
      BY <1>7, <3>1, <3>2 DEF IsConsistent
    <3>4. estimate[<< e.prev, n >>] \in Nat
      BY <3>2, <1>3
    <3> HIDE DEF n
    <3> QED BY <3>1, <3>2, <3>3, <3>4, <1>3, <1>6
  <2> QED BY <2>1, <2>2
<1>8. good' <=> good
  BY <1>1, SameConsistency
<1> HIDE DEF good
<1>9. ASSUME NEW m \in Node, NEW x \in Nat, Settled(good, modified, back_cost, heap, m, x)
      PROVE  Settled(good, modified, back_cost, heap \ {e}, m, x)
  <2> SUFFICES ASSUME m = n, good => e.back <= x
               PROVE  m \in modified /\ (good => back_cost[m] <= x)
    BY <1>9 DEF Settled
  <2> QED BY <1>3, <1>5, <1>7
<1>10. Frontier'
  <2>1. price \in [Edge -> Nat] /\ back_cost \in [Node -> Nat] /\ modified \subseteq Node
        /\ SourceOf[search] \in Node
    BY <1>2, <1>3, SearchAssumption DEF TypeOK
  <2>2. Settled(good, modified, back_cost, heap \ {e}, SourceOf[search], 0)
    BY <1>2, <1>9, <2>1 DEF Frontier, good
  <2>3. ASSUME NEW l \in modified, NEW m \in Node, << l, m >> \in Edge, m \notin Pruned[search]
        PROVE  Settled(good, modified, back_cost, heap \ {e}, m, back_cost[l] + price[<< l, m >>])
    <3>1. Settled(good, modified, back_cost, heap, m, back_cost[l] + price[<< l, m >>])
      BY <2>3, <1>2 DEF Frontier, good
    <3>2. back_cost[l] + price[<< l, m >>] \in Nat
      BY <2>1, <2>3
    <3> QED BY <3>1, <3>2, <1>9
  <2>4. /\ Settled(good', modified', back_cost', heap', SourceOf[search'], 0)
        /\ \A l \in modified', m \in Node :
             << l, m >> \in Edge /\ m \notin Pruned[search']
               => Settled(good', modified', back_cost', heap', m,
                          back_cost'[l] + price'[<< l, m >>])
    BY <1>1, <1>8, <2>2, <2>3 DEF Settled
  <2> QED BY <2>4 DEF Frontier, good
<1>11. InOrder' /\ Ways' /\ Entries'
  BY <1>1, <1>2 DEF InOrder, Forest, Upstream, Ways, Entries
<1>12. TypeOK' /\ Cleaned'
  BY <1>1, <1>2 DEF TypeOK, Cleaned
<1> QED BY <1>10, <1>11, <1>12 DEF IInv, Searching

\* A search starts on a clean slate, with the SOURCE on the heap.
LEMMA StartIInv ==
  ASSUME IInv, NEW p \in Prices, NEW h \in Estimates, StartSearch(p, h)
  PROVE  IInv'
<1> DEFINE s == SourceOf[search]
           e == [index |-> s, cost |-> 0, back |-> 0, prev |-> NO_PREVIOUS]
<1>1. /\ pc = "idle" /\ search \in Search /\ price' = p /\ estimate' = h
      /\ heap' = IF 0 < path_cost[s] THEN {e} ELSE {}
      /\ trace' = << >> /\ pc' = "search"
      /\ UNCHANGED << path_cost, back_cost, prev_node, modified, search >>
  BY DEF StartSearch, routeInf
<1>2. /\ TypeOK /\ Cleaned /\ modified = {} /\ s \in Node /\ HUGE \in Nat \ {0}
      /\ path_cost[s] = HUGE
  BY <1>1, SearchAssumption DEF IInv, Cleaned
<1>3. heap' = {e} /\ e \in Entry
  BY <1>1, <1>2 DEF Entry
<1>4. TypeOK' /\ Cleaned'
  BY <1>1, <1>2, <1>3 DEF TypeOK, Cleaned
<1>5. InOrder'
  <2>1. [n \in Node |-> 0] \in [Node -> Nat] /\ modified' = {}
    BY <1>1, <1>2
  <2>2. \A t : Forest(t)'
    BY <2>1 DEF Forest
  <2>3. \A n \in Node : [m \in Node |-> 0][n] <= 0
    OBVIOUS
  <2> QED BY <2>1, <2>2, <2>3 DEF InOrder
<1>6. Ways'
  BY <1>1, <1>2 DEF Ways
<1>7. Entries'
  <2>1. e.index = s /\ e.prev = NO_PREVIOUS /\ e.back = 0 /\ e.cost = 0
    OBVIOUS
  <2>2. IsEntry(search', price', estimate', modified', back_cost', e)
    <3> HIDE DEF e
    <3> QED BY <1>1, <1>2, <2>1 DEF IsEntry
  <2> QED BY <1>3, <2>2 DEF Entries
<1>8. Frontier'
  <2>1. Settled(IsConsistent(search)', modified', back_cost', heap', SourceOf[search'], 0)
    BY <1>1, <1>3 DEF Settled
  <2> QED BY <2>1, <1>1, <1>2 DEF Frontier
<1> QED BY <1>4, <1>5, <1>6, <1>7, <1>8 DEF IInv, Searching

\* reset_path_costs cleans up every node the search has touched.
LEMMA EndIInv ==
  ASSUME IInv, pc = "search", EndSearch, trace' \in Seq(Node)
  PROVE  IInv'
<1>1. TypeOK /\ Cleaned /\ search \in Search /\ NumSearches \in Nat /\ HUGE \in Nat
  BY SearchAssumption DEF IInv, Cleaned
<1>2. path_cost' = [n \in Node |-> IF n \in modified THEN HUGE ELSE path_cost[n]]
  BY DEF EndSearch, ResetPathCost
<1>3. \A n \in Node : path_cost'[n] = HUGE
  BY <1>1, <1>2 DEF Cleaned
<1>4. path_cost' \in [Node -> 0 .. HUGE]
  BY <1>1, <1>2 DEF TypeOK
<1>5. search' \in 1 .. NumSearches + 1
  BY <1>1 DEF EndSearch, Search
<1>6. TypeOK'
  BY <1>1, <1>4, <1>5 DEF TypeOK, EndSearch
<1>7. Cleaned'
  BY <1>3 DEF Cleaned, EndSearch
<1> QED BY <1>6, <1>7 DEF IInv, Searching, EndSearch

-----------------------------------------------------------------------------
(* What a search ends with *)

\* A node a walk leads to is one the search may use.
LEMMA KnownIsOpen ==
  ASSUME NEW s, NEW p \in [Edge -> Nat], NEW M, NEW b, NEW n, NEW x, Known(s, p, M, b, n, x)
  PROVE  n \in Open(s)
<1>1. PICK w, c : IsWalk(s, p, w, c) /\ w[Len(w)] = n
  BY DEF Known
<1>2. Len(w) \in Nat /\ Len(w) >= 1
  BY <1>1, WalkIs
<1>3. CASE Len(w) = 1
  BY <1>1, <1>3 DEF IsWalk, Open
<1>4. CASE Len(w) # 1
  <2>1. \A l \in Nat : l >= 1 /\ l # 1 => l \in 2 .. l
    OBVIOUS
  <2>2. Len(w) \in 2 .. Len(w)
    BY <1>2, <1>4, <2>1
  <2> QED BY <1>1, <2>2 DEF IsWalk
<1> QED BY <1>3, <1>4

\* The cost of a walk is its PathCost.
LEMMA WalkCost ==
  ASSUME NEW s, NEW p \in [Edge -> Nat], NEW w, NEW c, IsWalk(s, p, w, c)
  PROVE  CostOf(p, w) = c[Len(w)]
<1>1. w \in Seq(Node) /\ Len(w) >= 1 /\ Costing(p, w, c)
      /\ \A k \in 2 .. Len(w) : << w[k - 1], w[k] >> \in Edge
  BY DEF IsWalk
<1>2. PICK d : Costing(p, w, d) /\ CostOf(p, w) = d[Len(w)]
  BY <1>1, CostOfIs
<1> QED BY <1>1, <1>2, CostsRise

\* A walk that meets no node twice is a path.
LEMMA WalkIsPath ==
  ASSUME NEW s, NEW p, NEW w, NEW c, IsWalk(s, p, w, c),
         \A i, j \in 1 .. Len(w) : w[i] = w[j] => i = j
  PROVE  IsPath(s, w)
<1>1. w \in Seq(Node) /\ Len(w) >= 1 /\ w[1] = SourceOf[s]
      /\ \A k \in 2 .. Len(w) : << w[k - 1], w[k] >> \in Edge
  BY DEF IsWalk
<1>2. w # << >> /\ Head(w) = w[1]
  BY <1>1
<1> QED BY <1>1, <1>2 DEF IsPath

\* The way back from an expanded node is a walk without a node twice, for no more
\* than the backward cost noted for the node: node by node, what the walk has cost
\* is covered by what is noted.
LEMMA WayIsWalk ==
  ASSUME IInv, pc = "search", NEW n \in modified
  PROVE  \E c : /\ IsWalk(search, price, WayTo(n), c)
                /\ c[Len(WayTo(n))] <= back_cost[n]
<1> DEFINE w == WayTo(n)
<1>1. /\ TypeOK /\ search \in Search /\ Ways
      /\ back_cost \in [Node -> Nat] /\ modified \subseteq Node /\ price \in [Edge -> Nat]
  BY SearchAssumption DEF IInv, Cleaned, Searching, TypeOK
<1>2. PICK t \in [Node -> Nat] : Forest(t)
  BY DEF IInv, Searching, InOrder
<1>3. /\ w \in Seq(modified) /\ Len(w) >= 1
      /\ w[1] = SourceOf[search] /\ w[Len(w)] = n
      /\ \A k \in 2 .. Len(w) : w[k] # SourceOf[search] /\ prev_node[w[k]] = w[k - 1]
  BY <1>1, <1>2, WayToIs, Zenon
<1> HIDE DEF w
<1>4. w \in Seq(Node) /\ Len(w) \in Nat
  BY <1>1, <1>3
<1>5. ASSUME NEW k \in 2 .. Len(w)
      PROVE  /\ << w[k - 1], w[k] >> \in Edge /\ w[k] \in Open(search)
             /\ back_cost[w[k - 1]] + price[<< w[k - 1], w[k] >>] <= back_cost[w[k]]
  <2>1. w[k] \in modified /\ w[k] # SourceOf[search] /\ prev_node[w[k]] = w[k - 1]
    BY <1>3
  <2>2. Upstream(w[k], t)
    BY <2>1, <1>2 DEF Forest
  <2>3. w[k] \in Open(search)
    BY <2>1, <1>1, KnownIsOpen DEF Ways
  <2> QED BY <2>1, <2>2, <2>3 DEF Upstream
<1>6. PICK c : Costing(price, w, c)
  BY <1>1, <1>3, <1>4, <1>5, CostOfIs
<1>7. IsWalk(search, price, w, c)
  BY <1>3, <1>4, <1>5, <1>6 DEF IsWalk
<1>8. \A k \in 1 .. Len(w) : w[k] \in Node /\ w[k] \in modified /\ c[k] \in Nat
  BY <1>1, <1>7, <1>3, WalkIs
<1> DEFINE A == {k \in Int : k \in 1 .. Len(w) => c[k] <= back_cost[w[k]]}
           a == 1
           b == Len(w)
<1>9. a \in A
  BY <1>1, <1>6, <1>8 DEF Costing
<1>10. ASSUME NEW k \in a .. b - 1, k \in A  PROVE k + 1 \in A
  <2>1. k \in 1 .. Len(w) /\ k + 1 \in 2 .. Len(w) /\ (k + 1) - 1 = k /\ k + 1 \in 1 .. Len(w)
    BY <1>4
  <2>2. /\ << w[k], w[k + 1] >> \in Edge
        /\ back_cost[w[k]] + price[<< w[k], w[k + 1] >>] <= back_cost[w[k + 1]]
    BY <2>1, <1>5
  <2>3. c[k + 1] = c[k] + price[<< w[k], w[k + 1] >>]
    BY <2>1, <1>6 DEF Costing
  <2>4. c[k] <= back_cost[w[k]]
    BY <2>1, <1>10
  <2>5. /\ price[<< w[k], w[k + 1] >>] \in Nat
        /\ back_cost[w[k]] \in Nat /\ back_cost[w[k + 1]] \in Nat /\ c[k] \in Nat
    BY <2>1, <2>2, <1>1, <1>8
  <2>6. c[k + 1] <= back_cost[w[k + 1]]
    BY <2>2, <2>3, <2>4, <2>5
  <2> QED BY <2>6
<1>11. a \in Int /\ b \in Int
  BY <1>4
<1> HIDE DEF A, a, b
<1>12. a .. b \subseteq A
  BY <1>9, <1>10, <1>11, IntervalInduct
<1>13. c[Len(w)] <= back_cost[n]
  BY <1>12, <1>3, <1>4 DEF A, a, b
<1> QED BY <1>7, <1>13 DEF w

\* The path the search returns: a walk to the SINK without a node twice, for no more
\* than the entry of the SINK has cost.
LEMMA TracebackIs ==
  ASSUME IInv, pc = "search", NEW e \in heap, e.index = TargetOf[search]
  PROVE  LET w == Traceback(e)
         IN  /\ w[Len(w)] = TargetOf[search]
             /\ \A i, j \in 1 .. Len(w) : w[i] = w[j] => i = j
             /\ \E c : IsWalk(search, price, w, c) /\ c[Len(w)] <= e.back
<1> DEFINE n == e.index
<1>1. /\ TypeOK /\ search \in Search /\ n \notin modified /\ n \in Node /\ e.back \in Nat
      /\ back_cost \in [Node -> Nat] /\ modified \subseteq Node /\ price \in [Edge -> Nat]
      /\ IsEntry(search, price, estimate, modified, back_cost, e)
      /\ NO_PREVIOUS \notin Node
  BY EntryTypes, SearchAssumption DEF IInv, Cleaned, Searching, Entries, TypeOK
<1>2. CASE e.prev = NO_PREVIOUS
  <2>1. n = SourceOf[search] /\ e.back = 0
    BY <1>1, <1>2 DEF IsEntry
  <2> DEFINE w == << n >>
             c == << 0 >>
  <2>2. /\ w \in Seq(Node) /\ Len(w) = 1 /\ w[1] = n
        /\ c \in Seq(Nat) /\ Len(c) = 1 /\ c[1] = 0
    BY <1>1
  <2>3. Traceback(e) = w
    BY <1>2 DEF Traceback
  <2> HIDE DEF w, c
  <2>4. IsWalk(search, price, w, c)
    BY <2>1, <2>2 DEF IsWalk, Costing
  <2>5. c[Len(w)] <= e.back
    BY <2>1, <2>2
  <2>6. /\ w[Len(w)] = TargetOf[search]
        /\ \A i, j \in 1 .. Len(w) : w[i] = w[j] => i = j
    BY <2>2
  <2> QED BY <2>3, <2>4, <2>5, <2>6
<1>3. CASE e.prev # NO_PREVIOUS
  <2> DEFINE v == WayTo(e.prev)
             w == Append(v, n)
  <2>1. PICK x \in Nat :
          /\ e.prev \in modified /\ << e.prev, n >> \in Edge /\ n \notin Pruned[search]
          /\ Known(search, price, modified, back_cost, e.prev, x)
          /\ e.back = x + price[<< e.prev, n >>]
    BY <1>1, <1>3, Zenon DEF IsEntry
  <2>2. n \in Open(search) /\ price[<< e.prev, n >>] \in Nat
        /\ back_cost[e.prev] \in Nat /\ e.prev \in Node
    BY <1>1, <2>1 DEF Open
  <2>3. back_cost[e.prev] <= x
    <3>1. PICK u, k : /\ IsWalk(search, price, u, k)
                      /\ u[Len(u)] = e.prev /\ k[Len(u)] = x
                      /\ \A l \in 1 .. Len(u) : back_cost[u[l]] <= k[l]
      BY <2>1 DEF Known
    <3>2. Len(u) \in Nat /\ Len(u) >= 1
      BY <3>1, <1>1, WalkIs
    <3>3. \A l \in Nat : l >= 1 => l \in 1 .. l
      OBVIOUS
    <3> QED BY <3>1, <3>2, <3>3
  <2>4. PICK t \in [Node -> Nat] : Forest(t)
    BY DEF IInv, Searching, InOrder
  <2>5. /\ v \in Seq(modified) /\ v[Len(v)] = e.prev
        /\ \A i, j \in 1 .. Len(v) : v[i] = v[j] => i = j
    BY <1>1, <2>1, <2>4, WayToIs, Zenon
  <2>6. PICK c : IsWalk(search, price, v, c) /\ c[Len(v)] <= back_cost[e.prev]
    BY <2>1, WayIsWalk
  <2>7. Traceback(e) = w
    BY <1>3 DEF Traceback
  <2> HIDE DEF v
  <2>8. PICK u, d : /\ IsWalk(search, price, u, d)
                    /\ Len(u) = Len(v) + 1 /\ u[Len(u)] = n
                    /\ d[Len(u)] = c[Len(v)] + price[<< v[Len(v)], n >>]
                    /\ \A k \in 1 .. Len(v) : u[k] = v[k] /\ d[k] = c[k]
    <3>1. << v[Len(v)], n >> \in Edge
      BY <2>1, <2>5
    <3> HIDE DEF n
    <3>2. IsWalk(search, price, v, c) /\ n \in Open(search)
          /\ search \in Search /\ price \in [Edge -> Nat]
      BY <1>1, <2>2, <2>6
    <3> QED BY <3>1, <3>2, WalkOn
  <2>9. v \in Seq(Node) /\ u \in Seq(Node) /\ Len(v) \in Nat /\ Len(v) >= 1 /\ c[Len(v)] \in Nat
    <3>1. /\ v \in Seq(Node) /\ Len(v) \in Nat /\ Len(v) >= 1
          /\ \A k \in 1 .. Len(v) : c[k] \in Nat
      BY <2>6, <1>1, WalkIs
    <3>2. u \in Seq(Node)
      BY <2>8 DEF IsWalk
    <3> QED BY <3>1, <3>2
  <2>10. u = w
    <3>1. w \in Seq(Node) /\ Len(w) = Len(u) /\ \A k \in 1 .. Len(u) : w[k] = u[k]
      <4>1. w \in Seq(Node) /\ Len(w) = Len(v) + 1 /\ w[Len(v) + 1] = n
        BY <2>9, <1>1
      <4>2. \A k \in 1 .. Len(v) : w[k] = v[k]
        BY <2>9, <1>1
      <4> HIDE DEF w
      <4>3. ASSUME NEW k \in 1 .. Len(u)  PROVE w[k] = u[k]
        <5>1. k \in 1 .. Len(v) \/ k = Len(v) + 1
          BY <2>8, <2>9
        <5> QED BY <5>1, <4>1, <4>2, <2>8
      <4> QED BY <4>1, <4>3, <2>8
    <3> HIDE DEF w
    <3>2. w \in [1 .. Len(u) -> Node] /\ u \in [1 .. Len(u) -> Node]
      BY <2>9, <3>1
    <3> QED BY <3>1, <3>2
  <2>11. d[Len(u)] <= e.back
    <3>1. d[Len(u)] = c[Len(v)] + price[<< e.prev, n >>]
      BY <2>5, <2>8
    <3>2. c[Len(v)] <= x /\ e.back = x + price[<< e.prev, n >>]
      BY <2>1, <2>2, <2>3, <2>6, <2>9
    <3>3. /\ c[Len(v)] \in Nat /\ price[<< e.prev, n >>] \in Nat
      BY <2>2, <2>9
    <3> HIDE DEF n
    <3> QED BY <3>1, <3>2, <3>3
  <2>12. ASSUME NEW i \in 1 .. Len(u), NEW j \in 1 .. Len(u), u[i] = u[j]  PROVE i = j
    <3>1. ASSUME NEW k \in 1 .. Len(v)  PROVE u[k] = v[k] /\ v[k] \in modified
      BY <2>5, <2>8
    <3>2. \A k \in 1 .. Len(u) : k \in 1 .. Len(v) \/ k = Len(u)
      BY <2>8, <2>9
    <3>3. n \notin modified
      BY <1>1
    <3>4. CASE i \in 1 .. Len(v) /\ j \in 1 .. Len(v)
      <4>1. u[i] = v[i] /\ u[j] = v[j]
        BY <3>1, <3>4
      <4> QED BY <2>5, <2>12, <3>4, <4>1
    <3>5. CASE i = Len(u) /\ j \in 1 .. Len(v)
      BY <2>8, <2>12, <3>1, <3>3, <3>5
    <3>6. CASE j = Len(u) /\ i \in 1 .. Len(v)
      BY <2>8, <2>12, <3>1, <3>3, <3>6
    <3> QED BY <3>2, <3>4, <3>5, <3>6, Zenon
  <2> QED BY <2>7, <2>8, <2>10, <2>11, <2>12
<1> QED BY <1>2, <1>3

\* While the SINK is the cheapest on the heap, with good estimates no walk to it
\* costs less than its entry: the walk would have to leave the expanded nodes, at a
\* node whose entry has a lower total.
LEMMA NoCheaperWalk ==
  ASSUME IInv, pc = "search", NEW e \in heap, IsCheapest(e), IsConsistent(search),
         NEW w, NEW c, IsWalk(search, price, w, c), w[Len(w)] = TargetOf[search]
  PROVE  e.back <= c[Len(w)]
<1>1. /\ TypeOK /\ Cleaned /\ Entries /\ Frontier /\ search \in Search
      /\ price \in [Edge -> Nat] /\ estimate \in [Edge -> Nat]
      /\ back_cost \in [Node -> Nat] /\ modified \subseteq Node
      /\ TargetOf[search] \notin modified
      /\ IsConsistent(search)
  BY SearchAssumption DEF IInv, Searching, Cleaned, TypeOK
<1>2. PICK h \in [Node -> {estimate[d] : d \in Edge} \cup {0}] :
        /\ h[TargetOf[search]] = 0
        /\ \A d \in Edge : estimate[d] = h[d[2]] /\ h[d[1]] <= price[d] + h[d[2]]
  BY DEF IsConsistent
<1>3. h \in [Node -> Nat]
  BY <1>1, <1>2
<1>4. /\ w \in Seq(Node) /\ Len(w) \in Nat /\ Len(w) >= 1
      /\ \A k \in 1 .. Len(w) : w[k] \in Node /\ c[k] \in Nat /\ h[w[k]] \in Nat
      /\ \A i, j \in 1 .. Len(w) : i <= j => c[i] <= c[j]
  BY <1>1, <1>3, WalkIs
<1>5. \A k \in 2 .. Len(w) :
        /\ << w[k - 1], w[k] >> \in Edge /\ w[k] \in Open(search)
        /\ c[k] = c[k - 1] + price[<< w[k - 1], w[k] >>]
  BY DEF IsWalk, Costing
<1>6. \A k \in 2 .. Len(w) :
        h[w[k - 1]] <= price[<< w[k - 1], w[k] >>] + h[w[k]]
  BY <1>2, <1>5
\* Along the walk cost and estimate never fall.
<1>7. ASSUME NEW i \in 1 .. Len(w)
      PROVE  c[i] + h[w[i]] <= c[Len(w)]
  <2> DEFINE A == {k \in Int : k \in i .. Len(w) => c[i] + h[w[i]] <= c[k] + h[w[k]]}
             a == i
             b == Len(w)
  <2>1. a \in A
    BY <1>4
  <2>2. ASSUME NEW k \in a .. b - 1, k \in A  PROVE k + 1 \in A
    <3>1. k \in 1 .. Len(w) /\ k + 1 \in 2 .. Len(w) /\ (k + 1) - 1 = k /\ k + 1 \in 1 .. Len(w)
          /\ k \in i .. Len(w)
      BY <1>4
    <3>2. /\ c[i] + h[w[i]] <= c[k] + h[w[k]]
          /\ h[w[k]] <= price[<< w[k], w[k + 1] >>] + h[w[k + 1]]
          /\ c[k + 1] = c[k] + price[<< w[k], w[k + 1] >>]
          /\ << w[k], w[k + 1] >> \in Edge
      BY <2>2, <3>1, <1>5, <1>6
    <3>3. /\ price[<< w[k], w[k + 1] >>] \in Nat /\ c[i] \in Nat /\ c[k] \in Nat
          /\ h[w[i]] \in Nat /\ h[w[k]] \in Nat /\ h[w[k + 1]] \in Nat
      BY <1>1, <1>4, <3>1, <3>2
    <3>4. c[i] + h[w[i]] <= c[k + 1] + h[w[k + 1]]
      <4> DEFINE x == c[i] + h[w[i]]
                 y == c[k]
                 u == h[w[k]]
                 q == price[<< w[k], w[k + 1] >>]
                 z == h[w[k + 1]]
      <4>1. x \in Nat /\ y \in Nat /\ u \in Nat /\ q \in Nat /\ z \in Nat
        BY <3>3, SMTT(30)
      <4>2. x <= y + u /\ u <= q + z
        BY <3>2
      <4> HIDE DEF x, y, u, q, z
      <4>3. x <= (y + q) + z
        BY <4>1, <4>2
      <4> QED BY <3>2, <4>3 DEF x, y, q, z
    <3> QED BY <3>4
  <2>3. a \in Int /\ b \in Int
    BY <1>4
  <2> HIDE DEF A, a, b
  <2>4. a .. b \subseteq A
    BY <2>1, <2>2, <2>3, IntervalInduct
  <2>5. Len(w) \in a .. b /\ Len(w) \in i .. Len(w)
    BY <1>4 DEF a, b
  <2>6. c[i] + h[w[i]] <= c[Len(w)] + h[w[Len(w)]]
    BY <2>4, <2>5 DEF A
  <2>7. h[w[Len(w)]] = 0 /\ c[Len(w)] \in Nat
    BY <1>2, <1>4, <2>5
  <2> QED BY <2>6, <2>7
<1> SUFFICES ASSUME ~(e.back <= c[Len(w)])  PROVE FALSE
  OBVIOUS
\* No entry for a node of the walk is as cheap as the walk.
<1>8. ASSUME NEW i \in 1 .. Len(w), NEW f \in heap, f.index = w[i], f.back <= c[i]
      PROVE  FALSE
  <2>1. e.back \in Nat /\ e.cost \in Nat /\ f.back \in Nat /\ f.cost \in Nat
    BY <1>1, EntryTypes
  <2>2. e.back <= e.cost /\ e.cost <= f.cost
    BY <1>1 DEF IsCheapest, Entries, IsEntry
  <2>3. IsEntry(search, price, estimate, modified, back_cost, f)
    BY <1>1 DEF Entries
  <2>4. f.cost <= f.back + h[w[i]]
    <3>1. CASE f.cost = 0
      BY <3>1, <2>1, <1>4
    <3>2. CASE f.cost # 0
      <4>1. << f.prev, f.index >> \in Edge
            /\ f.cost = f.back + estimate[<< f.prev, f.index >>]
        BY <2>3, <3>2 DEF IsEntry
      <4>2. estimate[<< f.prev, f.index >>] = h[w[i]]
        BY <1>2, <4>1, <1>8
      <4> QED BY <4>1, <4>2, <2>1, <1>4
    <3> QED BY <3>1, <3>2
  <2>5. c[i] + h[w[i]] <= c[Len(w)] /\ c[i] \in Nat /\ h[w[i]] \in Nat /\ c[Len(w)] \in Nat
    BY <1>4, <1>7
  <2> QED BY <2>1, <2>2, <2>4, <2>5, <1>8, SMTT(30)
\* So the walk never leaves the expanded nodes.
<1> DEFINE A == {k \in Int : k \in 1 .. Len(w) => w[k] \in modified /\ back_cost[w[k]] <= c[k]}
           a == 1
           b == Len(w)
<1>9. a \in A
  <2>1. Settled(IsConsistent(search), modified, back_cost, heap, SourceOf[search], 0)
    BY <1>1 DEF Frontier
  <2>2. w[1] = SourceOf[search] /\ c[1] = 0 /\ 1 \in 1 .. Len(w)
    BY <1>4 DEF IsWalk, Costing
  <2>3. w[1] \in modified /\ back_cost[w[1]] <= c[1]
    BY <2>1, <2>2, <1>1, <1>8 DEF Settled
  <2> QED BY <2>3
<1>10. ASSUME NEW k \in a .. b - 1, k \in A  PROVE k + 1 \in A
  <2> DEFINE m == w[k]
             n == w[k + 1]
  <2>1. k \in 1 .. Len(w) /\ k + 1 \in 2 .. Len(w) /\ (k + 1) - 1 = k /\ k + 1 \in 1 .. Len(w)
    BY <1>4
  <2>2. /\ m \in modified /\ back_cost[m] <= c[k] /\ n \in Node
        /\ << m, n >> \in Edge /\ n \in Open(search)
        /\ c[k + 1] = c[k] + price[<< m, n >>]
    BY <1>10, <2>1, <1>4, <1>5
  <2>3. n # SourceOf[search]
    BY <2>2, <1>1, TerminalAssumption
  <2>4. n \notin Pruned[search]
    BY <2>2, <2>3 DEF Open
  <2>5. Settled(IsConsistent(search), modified, back_cost, heap, n, back_cost[m] + price[<< m, n >>])
    BY <2>2, <2>4, <1>1 DEF Frontier
  <2>6. /\ back_cost[m] \in Nat /\ price[<< m, n >>] \in Nat /\ c[k] \in Nat
        /\ back_cost[n] \in Nat
    BY <2>1, <2>2, <1>1, <1>4
  <2>7. back_cost[m] + price[<< m, n >>] <= c[k + 1]
    BY <2>2, <2>6
  <2>8. \A f \in heap : f.back \in Nat
    BY <1>1, EntryTypes
  <2> HIDE DEF n, m
  <2>9. n \in modified /\ back_cost[n] <= c[k + 1]
    <3>1. \/ n \in modified /\ back_cost[n] <= back_cost[m] + price[<< m, n >>]
          \/ \E f \in heap : f.index = n /\ f.back <= back_cost[m] + price[<< m, n >>]
      BY <2>5, <1>1 DEF Settled
    <3>2. c[k + 1] \in Nat
      BY <2>2, <2>6
    <3>3. ASSUME NEW f \in heap, f.index = n, f.back <= back_cost[m] + price[<< m, n >>]
          PROVE  FALSE
      <4>1. f.back <= c[k + 1]
        BY <3>2, <3>3, <2>6, <2>7, <2>8
      <4> QED BY <4>1, <3>3, <2>1, <1>8 DEF n
    <3> QED BY <3>1, <3>2, <3>3, <2>6, <2>7, SMTT(30)
  <2> QED BY <2>1, <2>9 DEF n
<1>11. a \in Int /\ b \in Int
  BY <1>4
<1> HIDE DEF A, a, b
<1>12. a .. b \subseteq A
  BY <1>9, <1>10, <1>11, IntervalInduct
<1>13. Len(w) \in a .. b /\ Len(w) \in 1 .. Len(w)
  BY <1>4 DEF a, b
<1>14. w[Len(w)] \in modified
  BY <1>12, <1>13 DEF A
<1> QED BY <1>14, <1>1

\* What the reference definitions say of the search that has just ended.
Outcome == FindsAWay /\ CheapestPath

\* The SINK came up: the path is one, it shows that the SINK can be reached, and with
\* good estimates it costs what Distance says.
LEMMA ReachOutcome ==
  ASSUME IInv, NEW e \in heap, ReachTarget(e)
  PROVE  trace' \in Seq(Node) /\ Outcome'
<1> DEFINE s == search
           w == Traceback(e)
<1>1. /\ pc = "search" /\ IsCheapest(e) /\ e.index = TargetOf[s] /\ trace' = w
      /\ search' = s + 1 /\ pc' = "idle" /\ price' = price /\ estimate' = estimate
  BY DEF ReachTarget, EndSearch
<1>2. /\ TypeOK /\ s \in Search /\ price \in [Edge -> Nat] /\ e.back \in Nat /\ e.cost \in Nat
      /\ s \in Int /\ search' - 1 = s /\ HUGE \in Nat
      /\ e.back <= e.cost /\ e.cost < HUGE /\ TargetOf[s] \in Node /\ IsFiniteSet(Node)
  <2>1. TypeOK /\ s \in Search /\ IsEntry(search, price, estimate, modified, back_cost, e)
    BY <1>1 DEF IInv, Cleaned, Searching, Entries
  <2>2. s \in Int /\ search' - 1 = s
    BY <2>1, <1>1 DEF Search
  <2> QED BY <2>1, <2>2, EntryTypes, SearchAssumption DEF TypeOK, IsEntry
<1>3. /\ w[Len(w)] = TargetOf[s]
      /\ \A i, j \in 1 .. Len(w) : w[i] = w[j] => i = j
      /\ \E c : IsWalk(s, price, w, c) /\ c[Len(w)] <= e.back
  BY <1>1, TracebackIs, Zenon
<1>4. PICK c : IsWalk(s, price, w, c) /\ c[Len(w)] <= e.back
  BY <1>3
<1> HIDE DEF w
<1>5. /\ w \in Seq(Node) /\ Len(w) \in Nat /\ Len(w) >= 1
      /\ \A k \in 1 .. Len(w) : c[k] \in Nat
  BY <1>2, <1>4, WalkIs
<1>6. Len(w) \in 1 .. Len(w)
  BY <1>5
<1>7. IsPath(s, w)
  BY <1>3, <1>4, WalkIsPath
<1>8. TargetOf[s] \in Within(s)
  BY <1>2, <1>3, <1>4, <1>6, WalkWithin
<1>9. FindsAWay'
  <2>1. IsPath(search' - 1, trace') /\ trace'[Len(trace')] = TargetOf[search' - 1]
        /\ TargetOf[search' - 1] \in Within(search' - 1)
    BY <1>1, <1>2, <1>3, <1>7, <1>8
  <2> QED BY <2>1 DEF FindsAWay, IsPath, Within, Open
<1>10. ASSUME IsConsistent(s)
       PROVE  CostOf(price, w) = DistOf(price, s)[TargetOf[s]]
  <2> DEFINE d == DistOf(price, s)[TargetOf[s]]
             x == c[Len(w)]
  <2>1. Len(w) <= N
    BY <1>2, <1>3, <1>5, NoRepetition DEF N
  <2>2. x \in Nat /\ x <= e.back /\ x < HUGE
    BY <1>2, <1>4, <1>5, <1>6
  <2>3. d \in Nat /\ d <= x
    BY <1>2, <1>3, <1>4, <2>1, <2>2, DistOfIs
  <2>4. PICK v, k : IsWalk(s, price, v, k) /\ v[Len(v)] = TargetOf[s] /\ k[Len(v)] = d
    BY <1>2, <2>2, <2>3, DistOfIs
  <2>5. e.back <= d
    BY <1>1, <1>10, <2>4, NoCheaperWalk
  <2>6. CostOf(price, w) = x
    BY <1>2, <1>4, WalkCost
  <2> HIDE DEF d, x
  <2>7. x = d
    BY <2>2, <2>3, <2>5, <1>2
  <2> QED BY <2>6, <2>7 DEF d
<1>11. CheapestPath'
  <2> SUFFICES ASSUME IsConsistent(search - 1)'
               PROVE  (PathCost(trace) = Distance(search - 1)[TargetOf[search - 1]])'
    BY DEF CheapestPath
  <2>1. IsConsistent(s)
    BY <1>1, <1>2 DEF IsConsistent
  <2>2. PathCost(trace)' = CostOf(price', trace')
    BY Zenon DEF PathCost, CostOf
  <2>3. Distance(search - 1)' = DistOf(price', search' - 1)
    BY Zenon DEF Distance, DistOf
  <2> QED BY <1>1, <1>2, <1>10, <2>1, <2>2, <2>3
<1> QED BY <1>1, <1>5, <1>9, <1>11 DEF Outcome

\* The heap ran empty: the expanded nodes are all that can be reached, and the SINK is
\* not one of them.
LEMMA FailOutcome ==
  ASSUME IInv, SearchFails
  PROVE  trace' \in Seq(Node) /\ Outcome'
<1>1. /\ pc = "search" /\ heap = {} /\ trace' = << >> /\ search' = search + 1
  BY DEF SearchFails, EndSearch
<1>2. /\ Frontier /\ search \in Search /\ TargetOf[search] \notin modified
      /\ modified \subseteq Node
  BY <1>1 DEF IInv, Searching, Cleaned, TypeOK
<1>3. search' - 1 = search
  BY <1>1, <1>2 DEF Search
<1>4. SourceOf[search] \in modified
  BY <1>1, <1>2 DEF Frontier, Settled
<1>5. ASSUME NEW m \in modified, NEW n \in Open(search), << m, n >> \in Edge
      PROVE  n \in modified
  <2>1. n \in Node /\ n # SourceOf[search]
    BY <1>2, <1>5, SearchAssumption, TerminalAssumption
  <2>2. n \notin Pruned[search]
    BY <2>1, <1>5 DEF Open
  <2> QED BY <1>1, <1>2, <1>5, <2>1, <2>2 DEF Frontier, Settled
<1>6. Within(search) \subseteq modified
  BY <1>2, <1>4, <1>5, WithinIs
<1>7. TargetOf[search' - 1] \notin Within(search' - 1)
  BY <1>2, <1>3, <1>6
<1>8. Outcome'
  BY <1>1, <1>7 DEF Outcome, FindsAWay, CheapestPath, Within, Open
<1> QED BY <1>1, <1>8

-----------------------------------------------------------------------------
(* The theorems *)

\* The invariant holds at the start, is kept by every step, and so holds always.
LEMMA InitIInv == Init => IInv /\ Outcome
  BY SearchAssumption
  DEF Init, IInv, TypeOK, Cleaned, Searching, Outcome, FindsAWay, CheapestPath

\* Every step keeps it.
LEMMA NextIInv == IInv /\ Outcome /\ [Next]_vars => IInv' /\ Outcome'
<1> SUFFICES ASSUME IInv, Outcome, [Next]_vars  PROVE IInv' /\ Outcome'
  OBVIOUS
<1>1. CASE \E p \in Prices, h \in Estimates : StartSearch(p, h)
  <2>1. pc' = "search"
    BY <1>1 DEF StartSearch
  <2> QED BY <1>1, <2>1, StartIInv DEF Outcome, FindsAWay, CheapestPath
<1>2. ASSUME NEW e \in heap, ExpandNode(e)  PROVE IInv' /\ Outcome'
  <2>1. pc' = "search"
    BY <1>2 DEF ExpandNode
  <2> QED BY <1>2, <2>1, ExpandIInv DEF Outcome, FindsAWay, CheapestPath
<1>3. ASSUME NEW e \in heap, SkipEntry(e)  PROVE IInv' /\ Outcome'
  <2>1. pc' = "search"
    BY <1>3 DEF SkipEntry
  <2> QED BY <1>3, <2>1, SkipIInv DEF Outcome, FindsAWay, CheapestPath
<1>4. ASSUME NEW e \in heap, ReachTarget(e)  PROVE IInv' /\ Outcome'
  <2>1. trace' \in Seq(Node) /\ Outcome'
    BY <1>4, ReachOutcome
  <2>2. IInv'
    BY <1>4, <2>1, EndIInv DEF ReachTarget
  <2> QED BY <2>1, <2>2
<1>5. CASE SearchFails
  <2>1. trace' \in Seq(Node) /\ Outcome'
    BY <1>5, FailOutcome
  <2>2. IInv'
    BY <1>5, <2>1, EndIInv DEF SearchFails
  <2> QED BY <2>1, <2>2
<1>6. CASE UNCHANGED vars
  <2>1. IInv'
    <3>1. /\ UNCHANGED << path_cost, back_cost, prev_node, modified >>
          /\ UNCHANGED << heap, search, price, estimate, trace, pc >>
      BY <1>6 DEF vars, routeInf
    <3>2. TypeOK' /\ Cleaned'
      BY <3>1 DEF IInv, TypeOK, Cleaned
    <3>3. ASSUME pc = "search"  PROVE InOrder' /\ Ways' /\ Entries' /\ Frontier'
      <4>1. InOrder'
        BY <3>1, <3>3 DEF IInv, Searching, InOrder, Forest, Upstream
      <4>2. Ways' /\ Entries'
        BY <3>1, <3>3 DEF IInv, Searching, Ways, Entries
      <4>3. IsConsistent(search)' <=> IsConsistent(search)
        BY <3>1, SameConsistency
      <4>4. Frontier'
        BY <3>1, <3>3, <4>3 DEF IInv, Searching, Frontier, Settled
      <4> QED BY <4>1, <4>2, <4>4
    <3> QED BY <3>1, <3>2, <3>3 DEF IInv, Searching
  <2>2. Outcome'
    <3>1. /\ pc' = pc /\ search' = search /\ price' = price /\ estimate' = estimate
          /\ trace' = trace /\ modified' = modified /\ back_cost' = back_cost
      BY <1>6 DEF vars, routeInf
    <3>2. FindsAWay'
      BY <3>1 DEF Outcome, FindsAWay, IsPath, Within, Open
    <3>3. CheapestPath'
      <4>1. PathCost(trace)' = PathCost(trace)
        BY <3>1 DEF PathCost
      <4>2. Distance(search - 1)' = Distance(search - 1)
        BY <3>1 DEF Distance, Open
      <4>3. IsConsistent(search - 1)' <=> IsConsistent(search - 1)
        BY <3>1 DEF IsConsistent
      <4> QED BY <3>1, <4>1, <4>2, <4>3 DEF Outcome, CheapestPath
    <3> QED BY <3>2, <3>3 DEF Outcome
  <2> QED BY <2>1, <2>2
<1> QED BY <1>1, <1>2, <1>3, <1>4, <1>5, <1>6 DEF Next, Stopped

\* It is an invariant.
LEMMA AlwaysIInv == Spec => [](IInv /\ Outcome)
<1>1. Init => IInv /\ Outcome
  BY InitIInv
<1>2. IInv /\ Outcome /\ [Next]_vars => (IInv /\ Outcome)'
  BY NextIInv
<1> QED BY <1>1, <1>2, PTL DEF Spec

\* Every variable of the search keeps its type: no path cost ever passes
\* HUGE_POSITIVE_FLOAT, and the traceback is a list of rr_nodes (croute_timing.c,
\* timing_driven_route_con).
THEOREM Typed == Spec => []TypeOK
<1>1. IInv /\ Outcome => TypeOK
  BY DEF IInv
<1> QED BY <1>1, AlwaysIInv, PTL

\* "this is necessary to prevent loops from forming in the routing and causing havoc"
\* (croute_timing.c): for any graph, any non-negative prices and estimates, free edges
\* included, and after any number of earlier searches, the way back from every node the
\* search has expanded is a path from the SOURCE for at most its backward cost.
THEOREM NoLoops == Spec => []WayBack
<1>1. IInv /\ Outcome => WayBack
  <2> SUFFICES ASSUME IInv, pc = "search", NEW n \in modified
               PROVE  IsPath(search, WayTo(n)) /\ PathCost(WayTo(n)) <= back_cost[n]
    BY DEF WayBack
  <2> DEFINE w == WayTo(n)
  <2>1. TypeOK /\ search \in Search /\ price \in [Edge -> Nat]
    BY SearchAssumption DEF IInv, Cleaned, TypeOK
  <2>2. PICK t \in [Node -> Nat] : Forest(t)
    BY DEF IInv, Searching, InOrder
  <2>3. \A i, j \in 1 .. Len(w) : w[i] = w[j] => i = j
    BY <2>1, <2>2, WayToIs, Zenon
  <2>4. PICK c : IsWalk(search, price, w, c) /\ c[Len(w)] <= back_cost[n]
    BY WayIsWalk
  <2> HIDE DEF w
  <2>5. IsPath(search, w)
    BY <2>3, <2>4, WalkIsPath
  <2>6. CostOf(price, w) = c[Len(w)]
    BY <2>1, <2>4, WalkCost
  <2>7. PathCost(w) = CostOf(price, w)
    BY PathCostIsCostOf
  <2> QED BY <2>4, <2>5, <2>6, <2>7 DEF w
<1> QED BY <1>1, AlwaysIInv, PTL

\* "Returns true as long as is found some way to hook up this net" (croute_timing.c):
\* timing_driven_route_con fails only if no path exists over the nodes it may use.
THEOREM FindsExistingWays == Spec => []FindsAWay
<1>1. IInv /\ Outcome => FindsAWay
  BY DEF Outcome
<1> QED BY <1>1, AlwaysIInv, PTL

\* With consistent estimates, none at all for one, the path the search returns is a
\* cheapest, although nodes may be expanded more than once and entries for worse ways
\* stay on the heap.
THEOREM CheapestIsFound == Spec => []CheapestPath
<1>1. IInv /\ Outcome => CheapestPath
  BY DEF Outcome
<1> QED BY <1>1, AlwaysIInv, PTL
=============================================================================
