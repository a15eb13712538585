-------------------------- MODULE RouteGraphProofs --------------------------
(***************************************************************************)
(* The routing graph of a net is right for every graph, all traces and any *)
(* order in which connections are added and ripped up.                     *)
(*                                                                         *)
(* While the net is routed an edge is counted once for every connection    *)
(* over it, and the map has an rg_node for just the nodes that are in use. *)
(* While the graph is pruned every IPIN can be reached along edges that    *)
(* are not about to be cut, and what has not been visited still has all    *)
(* its parents unless it is gone.  While the net's trace is written out,   *)
(* only nodes on the way from the SOURCE to the current one can have       *)
(* children left to visit.                                                 *)
(***************************************************************************)
EXTENDS RouteGraph, DataInduction, SequenceTheorems

TypeOK ==
  /\ children \in [Node -> Seq(Node)]
  /\ parents \in [Node -> Seq(Node)]
  /\ use \in [Edge -> Nat]
  /\ mapped \in [Node -> Nat]
  /\ inGraph \subseteq Node \ Sink
  /\ trace \in [Con -> Seq(Node)]
  /\ \A c \in Con : trace[c] # <<>> => trace[c] \in Paths[c]
  /\ con \in Con /\ at \in Node /\ pos \in Nat
  /\ stack \in Seq(Node) /\ back \in Node \cup {None} /\ marked \subseteq Node
  /\ cuts \in Seq(Edge) /\ out \in Seq(Node)
  /\ pc \in {"idle", "matching", "extending", "ripping", "pruning",
             "down", "up", "done", "crashed"}

-----------------------------------------------------------------------------
(* While the net is routed *)

Users(a, b) == { c \in Con : RunsOver(c, << a, b >>) }

\* UnionOfTraces, for nodes that are not in use as well.
Lists ==
  /\ \A n \in Node : IsInjective(children[n]) /\ IsInjective(parents[n])
  /\ \A a, b \in Node :
       /\ use[<< a, b >>] = Cardinality(Users(a, b))
       /\ IsIn(b, children[a]) <=> use[<< a, b >>] > 0
       /\ IsIn(a, parents[b]) <=> use[<< a, b >>] > 0

\* The connections whose nodes the map counts.
Counted(c) == trace[c] # <<>> /\ ~(pc = "ripping" /\ c = con)

Holders(n) == { c \in Con : Counted(c) /\ IsIn(n, trace[c]) }

MapIsRight ==
  /\ \A n \in Node : mapped[n] = (IF n = Source THEN 1 ELSE 0) + Cardinality(Holders(n))
  /\ \A n \in Node : n \in inGraph <=>
       n = Source \/ \E c \in Con : Counted(c) /\ \E k \in 1 .. Entered(c) : trace[c][k] = n

\* Where the walk is.  While it follows the graph it stands at a node of another
\* connection; once it has left the graph, at one of no other connection.
Walking ==
  /\ pc \in {"matching", "extending"} =>
       /\ trace[con] # <<>> /\ pos \in 2 .. Len(trace[con])
       /\ at = trace[con][pos - 1]
  /\ pc = "matching" =>
       \/ at = Source
       \/ \E c \in Con \ {con} : \E k \in 1 .. Len(trace[c]) - 1 : trace[c][k] = at
  /\ pc = "extending" =>
       /\ at # Source
       /\ \A c \in Con \ {con} : \A k \in 1 .. Len(trace[c]) - 1 : trace[c][k] # at
  /\ pc = "ripping" =>
       /\ trace[con] # <<>> /\ pos \in 1 .. Len(trace[con]) - 1
       /\ at = trace[con][pos]

\* No two connections that are in the graph end in the same IPIN.
Complete(c) == trace[c] # <<>> /\ ~(pc \in {"matching", "extending"} /\ c = con)

OwnPins == \A c, d \in Con : Complete(c) /\ Complete(d) /\ PinOf(c) = PinOf(d) => c = d

RInv == Routing => Lists /\ MapIsRight /\ Walking /\ OwnPins

-----------------------------------------------------------------------------
(* While the graph is pruned *)

\* An edge of the union of all traces.
Orig(a, b) ==
  \E c \in Con : \E k \in 1 .. Len(trace[c]) - 2 : trace[c][k] = a /\ trace[c][k + 1] = b

Complete0 == \A c \in Con : trace[c] # <<>>

\* An edge of the graph that is not about to be cut.
Kept(a, b) == IsIn(b, children[a]) /\ ~IsIn(<< a, b >>, cuts)

Removed(n) == children[n] = <<>> /\ parents[n] = <<>>

\* The lists agree, but for the links still to be cut, and have no new edges.
Agree ==
  /\ \A n \in Node : IsInjective(children[n]) /\ IsInjective(parents[n])
  /\ \A a, b \in Node : IsIn(a, parents[b]) <=> Kept(a, b)
  /\ \A a, b \in Node : IsIn(b, children[a]) => Orig(a, b)

\* Every IPIN can still be reached.
Reached ==
  \A n \in Pins, X \in SUBSET Node :
    /\ Source \in X
    /\ \A a \in X, b \in Node : Kept(a, b) => b \in X
    => n \in X

\* What has not been visited has all its parents, unless it is gone, and what has
\* children has a parent.
Untouched ==
  /\ \A b \in Node \ marked : Removed(b) \/ \A a \in Node : Orig(a, b) => Kept(a, b)
  /\ \A n \in Node \ {Source} : children[n] # <<>> => parents[n] # <<>>

InStack(n) == IsIn(n, stack)

\* The calls in progress follow the graph; what they have left behind is finished.
Calls ==
  /\ stack = <<>> => Source \in marked
  /\ stack # <<>> => stack[1] = Source
  /\ IsInjective(stack)
  /\ \A k \in 1 .. Len(stack) - 1 : \A a, b \in Node :
       stack[k] = a /\ stack[k + 1] = b => a \in marked /\ Kept(a, b)
  /\ \A n \in marked \ {Source} : Len(parents[n]) = 1
  /\ \A n \in marked : ~InStack(n) => \A m \in Node : IsIn(m, children[n]) => m \in marked

\* The children of a in front of b have been visited.
Passed(a, b) ==
  \A i, j \in DOMAIN children[a] : children[a][j] = b /\ i < j => children[a][i] \in marked

Loops ==
  /\ \A k \in 1 .. Len(stack) - 1 : \A a, b \in Node :
       stack[k] = a /\ stack[k + 1] = b => Passed(a, b)
  /\ \A a, b \in Node : stack # <<>> /\ Top = a /\ back = b =>
       IsIn(b, children[a]) /\ b \in marked /\ Passed(a, b)

\* A cut takes a node off that lies, on some trace, in front of the node just entered.
CutRight(k, p, n) ==
  /\ IsIn(n, children[p])
  /\ p \in marked => InStack(p)
  /\ \/ n = Top /\ p # Via
     \/ k = 1 /\ n \notin marked /\ Removed(n)
  /\ \E c \in Con : \E i, j \in 1 .. Len(trace[c]) - 1 :
       i < j /\ trace[c][i] = p /\ trace[c][i + 1] = n /\ trace[c][j] = Top

Cutting ==
  /\ IsInjective(cuts)
  /\ cuts # <<>> => Len(stack) > 1 /\ Top \in marked /\ back = None
  /\ \A k \in DOMAIN cuts : \A p, n \in Node : cuts[k] = << p, n >> => CutRight(k, p, n)

PInv ==
  pc = "pruning" =>
    Complete0 /\ Agree /\ Reached /\ Untouched /\ Calls /\ Loops /\ Cutting

-----------------------------------------------------------------------------
(* While the trace of the net is written *)

\* The pruned graph, and the edges it is made of.
Shape ==
  /\ Complete0
  /\ \A a, b \in Node : IsIn(b, children[a]) => Orig(a, b)
  /\ PrunedToTree

\* Nodes of X and of the ways up from them are in X.
IsUpward(X) == \A n \in X, p \in Node : IsIn(p, parents[n]) => p \in X

Written ==
  /\ at \in Tree /\ marked \subseteq Tree
  /\ out # <<>> /\ out[1] = Source
  /\ pc # "down" => at \in marked
  /\ pc = "down" => out[Len(out)] = at
  /\ \A n \in marked : IsIn(n, out)
  /\ \A n \in marked \cup {at}, p \in Node : IsIn(p, parents[n]) => p \in marked
  /\ \A m \in marked : children[m] = <<>> => IsIn(FirstEdge[m], out)
  /\ Source \in marked \/ (pc = "down" /\ at = Source)

\* What has children left to visit is on the way up from the current node.
Pending ==
  \A m \in marked, n \in Node : IsIn(n, children[m]) /\ n \notin marked =>
    \A X \in SUBSET Node : at \in X /\ IsUpward(X) => m \in X

\* What NetTraceIsTree says of step k.
GoodStep(k) ==
  IF out[k - 1] \in Sink
  THEN \E j \in 1 .. k - 1 : out[j] = out[k]
  ELSE /\ \E c \in Con : \E i \in 2 .. Len(trace[c]) :
            trace[c][i - 1] = out[k - 1] /\ trace[c][i] = out[k]
       /\ out[k] \in Sink \/ ~\E j \in 1 .. k - 1 : out[j] = out[k]

Form ==
  LeavesArePins =>
    /\ \A k \in 2 .. Len(out) : GoodStep(k)
    /\ pc # "down" => out[Len(out)] \in Sink
    /\ \A n \in Node \ Sink : IsIn(n, out) => n \in marked \/ (pc = "down" /\ n = at)

Finished == pc = "done" => \A n \in Node : n \in Tree => n \in marked

WInv == Pruned => Shape /\ Written /\ Pending /\ Form /\ Finished

CInv == pc = "crashed" => StrayNeedsSharedPin

IInv == TypeOK /\ RInv /\ PInv /\ WInv /\ CInv

-----------------------------------------------------------------------------
(* Lists of links *)

\* Nothing is in the empty list, and one node in a list of one.
LEMMA InEmpty == \A n : ~IsIn(n, <<>>)
  BY DEF IsIn

\* A list of one link.
LEMMA InSingle ==
  ASSUME NEW S, NEW n \in S
  PROVE  /\ << n >> \in Seq(S) /\ IsInjective(<< n >>) /\ Len(<< n >>) = 1
         /\ Head(<< n >>) = n /\ << n >> # <<>>
         /\ \A m : IsIn(m, << n >>) <=> m = n
  BY DEF IsIn, IsInjective

\* A list is empty just if nothing is in it.
LEMMA InSome ==
  ASSUME NEW S, NEW l \in Seq(S)
  PROVE  /\ l = <<>> <=> \A n \in S : ~IsIn(n, l)
         /\ l # <<>> => Head(l) \in S /\ IsIn(Head(l), l) /\ Len(l) \in Nat /\ Len(l) >= 1
         /\ \A n : IsIn(n, l) => n \in S
         /\ Len(l) = 1 => \A n : IsIn(n, l) <=> n = Head(l)
<1>1. l # <<>> => Head(l) = l[1] /\ l[1] \in S /\ Len(l) \in Nat /\ Len(l) >= 1 /\ 1 \in DOMAIN l
  OBVIOUS
<1>2. \A k \in DOMAIN l : l[k] \in S
  OBVIOUS
<1>3. Len(l) = 1 => \A k \in DOMAIN l : k = 1
  OBVIOUS
<1>4. l = <<>> => DOMAIN l = {}
  OBVIOUS
<1> QED BY <1>1, <1>2, <1>3, <1>4 DEF IsIn

\* A link put in front of a list.
LEMMA InFront ==
  ASSUME NEW S, NEW l \in Seq(S), NEW n \in S
  PROVE  LET w == << n >> \o l
         IN  /\ w \in Seq(S)
             /\ \A m : IsIn(m, w) <=> m = n \/ IsIn(m, l)
             /\ IsInjective(l) /\ ~IsIn(n, l) => IsInjective(w)
<1> DEFINE w == << n >> \o l
<1>1. w \in Seq(S) /\ Len(w) = Len(l) + 1 /\ w[1] = n /\ Len(l) \in Nat
      /\ \A k \in 2 .. Len(w) : w[k] = l[k - 1]
  OBVIOUS
<1>2. DOMAIN w = 1 .. Len(w) /\ DOMAIN l = 1 .. Len(l)
  BY <1>1
<1> HIDE DEF w
<1>3. \A k \in DOMAIN w : k = 1 \/ (k \in 2 .. Len(w) /\ k - 1 \in DOMAIN l)
  BY <1>1, <1>2
<1>4. \A k \in DOMAIN l : k + 1 \in 2 .. Len(w) /\ k + 1 \in DOMAIN w /\ (k + 1) - 1 = k
  BY <1>1, <1>2
<1>5. \A m : IsIn(m, w) <=> m = n \/ IsIn(m, l)
  <2>1. \A m : IsIn(m, w) => m = n \/ IsIn(m, l)
    BY <1>1, <1>3 DEF IsIn
  <2>2. IsIn(n, w)
    BY <1>1, <1>2 DEF IsIn
  <2>3. ASSUME NEW m, IsIn(m, l)  PROVE IsIn(m, w)
    <3>1. PICK k \in DOMAIN l : l[k] = m
      BY <2>3 DEF IsIn
    <3>2. k + 1 \in DOMAIN w /\ w[k + 1] = m
      BY <3>1, <1>1, <1>4
    <3> QED BY <3>2 DEF IsIn
  <2> QED BY <2>1, <2>2, <2>3
<1>6. ASSUME IsInjective(l), ~IsIn(n, l)  PROVE IsInjective(w)
  <2> SUFFICES ASSUME NEW i \in DOMAIN w, NEW j \in DOMAIN w, w[i] = w[j]  PROVE i = j
    BY DEF IsInjective
  <2>1. CASE i = 1 \/ j = 1
    BY <2>1, <1>1, <1>3, <1>6 DEF IsIn
  <2>2. CASE i # 1 /\ j # 1
    <3>1. i - 1 \in DOMAIN l /\ j - 1 \in DOMAIN l /\ l[i - 1] = l[j - 1] /\ i \in Int /\ j \in Int
      BY <2>2, <1>1, <1>2, <1>3
    <3>2. i - 1 = j - 1
      BY <3>1, <1>6 DEF IsInjective
    <3> QED BY <3>1, <3>2
  <2> QED BY <2>1, <2>2
<1> QED BY <1>1, <1>5, <1>6 DEF w

\* A link put at the end of a list.
LEMMA InAppend ==
  ASSUME NEW S, NEW l \in Seq(S), NEW n \in S
  PROVE  LET w == Append(l, n)
         IN  /\ w \in Seq(S) /\ Len(w) = Len(l) + 1 /\ w # <<>>
             /\ w[Len(w)] = n /\ Last(w) = n
             /\ \A k \in 1 .. Len(l) : w[k] = l[k]
             /\ \A m : IsIn(m, w) <=> m = n \/ IsIn(m, l)
             /\ IsInjective(l) /\ ~IsIn(n, l) => IsInjective(w)
<1> DEFINE w == Append(l, n)
<1>1. w \in Seq(S) /\ Len(w) = Len(l) + 1 /\ w[Len(w)] = n /\ Len(l) \in Nat
      /\ \A k \in 1 .. Len(l) : w[k] = l[k]
  OBVIOUS
<1>2. DOMAIN w = 1 .. Len(w) /\ DOMAIN l = 1 .. Len(l) /\ w # <<>>
  BY <1>1
<1> HIDE DEF w
<1>3. \A k \in DOMAIN w : k = Len(w) \/ k \in DOMAIN l
  BY <1>1, <1>2
<1>4. Len(w) \in DOMAIN w /\ \A k \in DOMAIN l : k \in DOMAIN w /\ k # Len(w)
  BY <1>1, <1>2
<1>5. \A m : IsIn(m, w) <=> m = n \/ IsIn(m, l)
  BY <1>1, <1>2, <1>3, <1>4 DEF IsIn
<1>6. ASSUME IsInjective(l), ~IsIn(n, l)  PROVE IsInjective(w)
  BY <1>1, <1>2, <1>3, <1>4, <1>6 DEF IsInjective, IsIn
<1> QED BY <1>1, <1>2, <1>5, <1>6 DEF w, Last

\* Taking a link out keeps the order of the others.
LEMMA WithoutIs ==
  ASSUME NEW S, NEW l \in Seq(S), IsInjective(l), NEW n
  PROVE  LET w == Without(l, n)
         IN  /\ w \in Seq(S) /\ IsInjective(w)
             /\ \A m : IsIn(m, w) <=> IsIn(m, l) /\ m # n
             /\ \A i, j \in DOMAIN w : i < j =>
                  \E u, v \in DOMAIN l : u < v /\ l[u] = w[i] /\ l[v] = w[j]
<1>1. CASE ~IsIn(n, l)
  <2>1. Without(l, n) = l
    BY <1>1 DEF Without
  <2>2. \A m : IsIn(m, l) <=> IsIn(m, l) /\ m # n
    BY <1>1
  <2> QED BY <2>1, <2>2
<1>2. CASE IsIn(n, l)
  <2> DEFINE h == CHOOSE k \in DOMAIN l : l[k] = n
             w == SubSeq(l, 1, h - 1) \o SubSeq(l, h + 1, Len(l))
             old(k) == IF k < h THEN k ELSE k + 1
  <2>1. h \in DOMAIN l /\ l[h] = n
    BY <1>2 DEF IsIn
  <2>2. Without(l, n) = w
    BY <1>2 DEF Without, RemoveAt
  <2> HIDE DEF h
  <2>3. h \in 1 .. Len(l) /\ DOMAIN l = 1 .. Len(l) /\ Len(l) \in Nat
    BY <2>1
  <2>4. /\ w \in Seq(S) /\ Len(w) = Len(l) - 1
        /\ \A k \in 1 .. Len(w) : w[k] = IF k < h THEN l[k] ELSE l[k + 1]
    <3> DEFINE u == SubSeq(l, 1, h - 1)
               v == SubSeq(l, h + 1, Len(l))
    <3>1. u \in Seq(S) /\ Len(u) = h - 1 /\ \A k \in 1 .. h - 1 : u[k] = l[k]
      <4>1. h - 1 \in Int /\ 1 \in Int /\ \A i \in 1 .. h - 1 : l[i] \in S
        BY <2>3
      <4>2. /\ u \in Seq(S) /\ Len(u) = IF 1 <= h - 1 THEN (h - 1) - 1 + 1 ELSE 0
            /\ \A i \in 1 .. (h - 1) - 1 + 1 : u[i] = l[1 + i - 1]
        BY <4>1, SubSeqProperties
      <4> HIDE DEF u
      <4> QED BY <4>2, <2>3
    <3>2. v \in Seq(S) /\ Len(v) = Len(l) - h /\ \A k \in 1 .. Len(l) - h : v[k] = l[h + k]
      <4>1. h + 1 \in Int /\ Len(l) \in Int /\ \A i \in h + 1 .. Len(l) : l[i] \in S
        BY <2>3
      <4>2. /\ v \in Seq(S) /\ Len(v) = IF h + 1 <= Len(l) THEN Len(l) - (h + 1) + 1 ELSE 0
            /\ \A i \in 1 .. Len(l) - (h + 1) + 1 : v[i] = l[(h + 1) + i - 1]
        BY <4>1, SubSeqProperties
      <4> HIDE DEF v
      <4>3. \A i \in 1 .. Len(l) - h : (h + 1) + i - 1 = h + i /\ i \in 1 .. Len(l) - (h + 1) + 1
        BY <2>3
      <4>4. v \in Seq(S) /\ Len(v) = Len(l) - h
        <5>1. \A L \in Nat : \A i \in 1 .. L :
                (IF i + 1 <= L THEN L - (i + 1) + 1 ELSE 0) = L - i
          OBVIOUS
        <5> QED BY <4>2, <5>1, <2>3
      <4>5. ASSUME NEW k \in 1 .. Len(l) - h  PROVE v[k] = l[h + k]
        <5>1. v[k] = l[(h + 1) + k - 1] /\ (h + 1) + k - 1 = h + k
          BY <4>2, <4>3
        <5> QED BY <5>1
      <4> QED BY <4>4, <4>5
    <3> HIDE DEF u, v
    <3>3. u \o v \in Seq(S) /\ Len(u \o v) = Len(l) - 1
          /\ \A k \in 1 .. Len(l) - 1 :
               (u \o v)[k] = IF k <= Len(u) THEN u[k] ELSE v[k - Len(u)]
      <4>1. /\ u \o v \in Seq(S) /\ Len(u \o v) = Len(u) + Len(v)
            /\ \A k \in 1 .. Len(u) + Len(v) :
                 (u \o v)[k] = IF k <= Len(u) THEN u[k] ELSE v[k - Len(u)]
        BY <3>1, <3>2, ConcatProperties
      <4>2. Len(u) + Len(v) = Len(l) - 1
        BY <3>1, <3>2, <2>3
      <4> QED BY <4>1, <4>2
    <3>4. ASSUME NEW k \in 1 .. Len(l) - 1
          PROVE  (u \o v)[k] = IF k < h THEN l[k] ELSE l[k + 1]
      <4>1. CASE k < h
        BY <4>1, <3>1, <3>3, <2>3
      <4>2. CASE ~(k < h)
        <5>1. ~(k <= Len(u)) /\ k - Len(u) \in 1 .. Len(l) - h /\ h + (k - Len(u)) = k + 1
          BY <4>2, <3>1, <2>3
        <5> QED BY <4>2, <5>1, <3>2, <3>3
      <4> QED BY <4>1, <4>2
    <3> QED BY <3>3, <3>4 DEF u, v
  <2> HIDE DEF w
  <2>5. DOMAIN w = 1 .. Len(w)
    BY <2>4
  <2>6. \A k \in DOMAIN w : old(k) \in DOMAIN l /\ w[k] = l[old(k)] /\ old(k) # h
    BY <2>3, <2>4, <2>5
  <2>7. \A i, j \in DOMAIN w : (i < j => old(i) < old(j)) /\ (old(i) = old(j) => i = j)
    BY <2>3, <2>4, <2>5
  <2>8. \A k \in DOMAIN l : k # h => \E i \in DOMAIN w : old(i) = k
    <3> SUFFICES ASSUME NEW k \in DOMAIN l, k # h  PROVE \E i \in DOMAIN w : old(i) = k
      OBVIOUS
    <3>1. CASE k < h
      <4>1. k \in DOMAIN w
        BY <3>1, <2>3, <2>4, <2>5
      <4> QED BY <3>1, <4>1
    <3>2. CASE ~(k < h)
      <4>1. k - 1 \in DOMAIN w /\ ~(k - 1 < h) /\ (k - 1) + 1 = k
        BY <3>2, <2>3, <2>4, <2>5
      <4>2. old(k - 1) = k
        BY <4>1
      <4> QED BY <4>1, <4>2
    <3> QED BY <3>1, <3>2
  <2> HIDE DEF old
  <2>9. IsInjective(w)
    BY <2>6, <2>7 DEF IsInjective
  <2>10. \A m : IsIn(m, w) => IsIn(m, l) /\ m # n
    BY <2>1, <2>6 DEF IsIn, IsInjective
  <2>11. \A m : IsIn(m, l) /\ m # n => IsIn(m, w)
    BY <2>1, <2>6, <2>8 DEF IsIn
  <2>12. \A i, j \in DOMAIN w : i < j =>
            \E u, v \in DOMAIN l : u < v /\ l[u] = w[i] /\ l[v] = w[j]
    BY <2>6, <2>7
  <2> QED BY <2>2, <2>4, <2>9, <2>10, <2>11, <2>12
<1> QED BY <1>1, <1>2

-----------------------------------------------------------------------------
(* Traces *)

\* What is assumed of a trace, index by index.
LEMMA TraceIs ==
  ASSUME TypeOK, NEW c \in Con, trace[c] # <<>>
  PROVE  LET p == trace[c]
             L == Len(p)
         IN  /\ p \in Seq(Node) /\ L \in Nat /\ L >= 3 /\ DOMAIN p = 1 .. L
             /\ \A k \in 1 .. L : p[k] \in Node
             /\ p[1] = Source
             /\ \A k \in 1 .. L : p[k] \in Sink <=> k = L
             /\ \A i, j \in 1 .. L : p[i] = p[j] => i = j
             /\ FirstEdge[p[L - 1]] = p[L] /\ p[L] \in Sink
             /\ \A k \in 1 .. L - 1 : FirstEdge[p[k]] \in Sink => k = L - 1
             /\ PinOf(c) = p[L - 1]
<1> DEFINE p == trace[c]
           L == Len(p)
<1>1. p \in Paths[c] /\ PinOf(c) = p[L - 1]
  BY DEF TypeOK, PinOf
<1> HIDE DEF p
<1>2. /\ p \in Seq(Node)
      /\ Len(p) >= 3
      /\ p[1] = Source
      /\ \A k \in DOMAIN p : (p[k] \in Sink) <=> (k = Len(p))
      /\ IsInjective(p)
      /\ FirstEdge[p[Len(p) - 1]] = p[Len(p)]
      /\ \A k \in 1 .. Len(p) - 2 : FirstEdge[p[k]] \notin Sink
  BY <1>1, PathAssumption
<1>3. L \in Nat /\ DOMAIN p = 1 .. L /\ \A k \in 1 .. L : p[k] \in Node
  BY <1>2
<1>4. \A i, j \in 1 .. L : p[i] = p[j] => i = j
  BY <1>2, <1>3 DEF IsInjective
<1>5. p[L] \in Sink
  BY <1>2, <1>3
<1>6. \A k \in 1 .. L - 1 : k \in 1 .. L - 2 \/ k = L - 1
  <2>1. \A l \in Nat : \A k \in 1 .. l - 1 : k \in 1 .. l - 2 \/ k = l - 1
    OBVIOUS
  <2> QED BY <1>3, <2>1
<1>7. \A k \in 1 .. L - 1 : FirstEdge[p[k]] \in Sink => k = L - 1
  BY <1>2, <1>6
<1> QED BY <1>1, <1>2, <1>3, <1>4, <1>5, <1>7 DEF p

\* An IPIN that two traces have in common is the last node but one of both.
LEMMA SharedPin ==
  ASSUME TypeOK, NEW c \in Con, NEW d \in Con, trace[c] # <<>>, trace[d] # <<>>,
         NEW k \in 1 .. Len(trace[d]) - 1, trace[d][k] = PinOf(c)
  PROVE  k = Len(trace[d]) - 1 /\ PinOf(d) = PinOf(c) /\ Ends(d) = Ends(c)
<1> DEFINE p == trace[c]
           q == trace[d]
<1>1. FirstEdge[p[Len(p) - 1]] = p[Len(p)] /\ p[Len(p)] \in Sink /\ PinOf(c) = p[Len(p) - 1]
  BY TraceIs
<1>2. FirstEdge[q[k]] \in Sink => k = Len(q) - 1
  BY TraceIs
<1>3. FirstEdge[q[Len(q) - 1]] = q[Len(q)] /\ PinOf(d) = q[Len(q) - 1]
  BY TraceIs
<1> QED BY <1>1, <1>2, <1>3 DEF Ends

\* Sets of connections are finite, so they can be counted.
LEMMA SomeConnections ==
  /\ IsFiniteSet(Con)
  /\ \A S \in SUBSET Con :
       /\ IsFiniteSet(S) /\ Cardinality(S) \in Nat
       /\ Cardinality(S) = 0 <=> S = {}
       /\ \A c \in Con : c \notin S => Cardinality(S \cup {c}) = Cardinality(S) + 1
       /\ \A c \in S : Cardinality(S \ {c}) = Cardinality(S) - 1
<1>1. IsFiniteSet(Con)
  BY PathAssumption
<1>2. ASSUME NEW S \in SUBSET Con
      PROVE  /\ IsFiniteSet(S) /\ Cardinality(S) \in Nat
             /\ Cardinality(S) = 0 <=> S = {}
             /\ \A c \in Con : c \notin S => Cardinality(S \cup {c}) = Cardinality(S) + 1
             /\ \A c \in S : Cardinality(S \ {c}) = Cardinality(S) - 1
  <2>1. IsFiniteSet(S) /\ Cardinality(S) \in Nat
    BY <1>1, FS_Subset, FS_CardinalityType
  <2>2. Cardinality(S) = 0 <=> S = {}
    BY <2>1, FS_EmptySet
  <2>3. \A c \in Con : c \notin S => Cardinality(S \cup {c}) = Cardinality(S) + 1
    BY <2>1, FS_AddElement
  <2>4. \A c \in S : Cardinality(S \ {c}) = Cardinality(S) - 1
    BY <2>1, FS_RemoveElement
  <2> QED BY <2>1, <2>2, <2>3, <2>4
<1> QED BY <1>1, <1>2

\* What is entered of a trace.
LEMMA EnteredIs ==
  ASSUME TypeOK, Routing, Walking, NEW c \in Con
  PROVE  /\ Entered(c) \in Nat
         /\ trace[c] = <<>> => Entered(c) = 0
         /\ trace[c] # <<>> => Entered(c) \in 1 .. Len(trace[c]) - 1
         /\ trace[c] # <<>> /\ c # con => Entered(c) = Len(trace[c]) - 1
<1>1. CASE trace[c] = <<>>
  BY <1>1 DEF Entered
<1>2. CASE trace[c] # <<>>
  <2>1. Len(trace[c]) \in Nat /\ Len(trace[c]) >= 3
    BY <1>2, TraceIs
  <2> QED BY <1>2, <2>1 DEF Entered, Walking
<1> QED BY <1>1, <1>2

\* Nodes of an edge in use.
LEMMA UsersIs ==
  ASSUME TypeOK, Routing, Walking, Lists, NEW a \in Node, NEW b \in Node
  PROVE  /\ Users(a, b) \in SUBSET Con
         /\ \A c \in Users(a, b) : trace[c] # <<>> /\
              \E k \in 1 .. Len(trace[c]) - 2 :
                k + 1 <= Entered(c) /\ trace[c][k] = a /\ trace[c][k + 1] = b
         /\ \A c \in Con : \A k \in 1 .. Len(trace[c]) - 2 :
              trace[c] # <<>> /\ k + 1 <= Entered(c) /\ trace[c][k] = a /\ trace[c][k + 1] = b
                => c \in Users(a, b)
         /\ use[<< a, b >>] > 0 <=> Users(a, b) # {}
<1>1. ASSUME NEW c \in Users(a, b)
      PROVE  trace[c] # <<>> /\
              \E k \in 1 .. Len(trace[c]) - 2 :
                k + 1 <= Entered(c) /\ trace[c][k] = a /\ trace[c][k + 1] = b
  <2>1. PICK k \in 1 .. Entered(c) - 1 : trace[c][k] = a /\ trace[c][k + 1] = b
    BY <1>1 DEF Users, RunsOver
  <2>2. trace[c] # <<>> /\ Entered(c) \in 1 .. Len(trace[c]) - 1 /\ Len(trace[c]) \in Nat
    BY <1>1, <2>1, EnteredIs, TraceIs DEF Users
  <2>3. k \in 1 .. Len(trace[c]) - 2 /\ k + 1 <= Entered(c)
    BY <2>1, <2>2
  <2> QED BY <2>1, <2>2, <2>3
<1>2. ASSUME NEW c \in Con, NEW k \in 1 .. Len(trace[c]) - 2,
             trace[c] # <<>>, k + 1 <= Entered(c), trace[c][k] = a, trace[c][k + 1] = b
      PROVE  c \in Users(a, b)
  <2>1. Entered(c) \in Nat
    BY EnteredIs
  <2>2. k \in 1 .. Entered(c) - 1
    BY <1>2, <2>1
  <2> QED BY <1>2, <2>2 DEF Users, RunsOver
<1>3. Users(a, b) \in SUBSET Con
  BY DEF Users
<1>4. /\ use[<< a, b >>] = Cardinality(Users(a, b)) /\ Cardinality(Users(a, b)) \in Nat
      /\ Cardinality(Users(a, b)) = 0 <=> Users(a, b) = {}
  BY <1>3, SomeConnections DEF Lists
<1> QED BY <1>1, <1>2, <1>3, <1>4

-----------------------------------------------------------------------------
(* Entering a trace in the graph *)

Adding == pc \in {"matching", "extending"}

\* The node the trace goes on to: the map and the graph say whether another
\* connection has it.
LEMMA AheadIs ==
  ASSUME TypeOK, RInv, Adding
  PROVE  /\ Ahead \in Node /\ at \in Node /\ at # Ahead /\ Ahead # Source /\ pos \in 2 .. Len(trace[con])
         /\ at \notin Sink /\ Ahead = trace[con][pos] /\ at = trace[con][pos - 1]
         /\ Ahead \in Sink <=> pos = Len(trace[con])
         /\ con \notin Users(at, Ahead)
         /\ mapped[Ahead] > 1 <=> \E c \in Con \ {con} : trace[c] # <<>> /\ IsIn(Ahead, trace[c])
         /\ Ahead \in inGraph <=>
              \E c \in Con \ {con} : \E k \in 1 .. Len(trace[c]) - 1 : trace[c][k] = Ahead
<1>1. /\ Routing /\ Lists /\ MapIsRight /\ Walking /\ con \in Con
      /\ trace[con] # <<>> /\ pos \in 2 .. Len(trace[con]) /\ at = trace[con][pos - 1]
      /\ Ahead = trace[con][pos]
  BY DEF RInv, Adding, Routing, Walking, Ahead, TypeOK
<1> DEFINE p == trace[con]
           L == Len(p)
<1>2. /\ p \in Seq(Node) /\ L \in Nat /\ L >= 3 /\ DOMAIN p = 1 .. L
      /\ \A k \in 1 .. L : p[k] \in Node
      /\ p[1] = Source
      /\ \A k \in 1 .. L : p[k] \in Sink <=> k = L
      /\ \A i, j \in 1 .. L : p[i] = p[j] => i = j
  BY <1>1, TraceIs
<1>3. pos \in 1 .. L /\ pos - 1 \in 1 .. L /\ pos # pos - 1 /\ pos # 1 /\ pos - 1 # L /\ 1 \in 1 .. L
  BY <1>1, <1>2
<1>4. /\ Ahead \in Node /\ at \in Node /\ at # Ahead /\ Ahead # Source
      /\ at \notin Sink /\ (Ahead \in Sink <=> pos = L)
  BY <1>1, <1>2, <1>3
<1>5. con \notin Users(at, Ahead)
  <2> SUFFICES ASSUME con \in Users(at, Ahead)  PROVE FALSE
    OBVIOUS
  <2>1. Entered(con) = pos - 1
    BY <1>1 DEF Entered, Adding
  <2>2. PICK k \in 1 .. Entered(con) - 1 : << trace[con][k], trace[con][k + 1] >> = << at, Ahead >>
    BY DEF Users, RunsOver
  <2>3. k \in 1 .. L /\ k # pos - 1 /\ p[k] = at
    BY <1>1, <1>2, <2>1, <2>2
  <2> QED BY <1>1, <1>2, <1>3, <2>3
<1>6. mapped[Ahead] = Cardinality(Holders(Ahead)) /\ con \in Holders(Ahead)
      /\ Holders(Ahead) \in SUBSET Con
  <2>1. mapped[Ahead] = 0 + Cardinality(Holders(Ahead))
    BY <1>1, <1>4 DEF MapIsRight
  <2>2. Holders(Ahead) \in SUBSET Con /\ Cardinality(Holders(Ahead)) \in Nat
    BY SomeConnections DEF Holders
  <2>3. IsIn(Ahead, p)
    BY <1>1, <1>2, <1>3 DEF IsIn
  <2>4. con \in Holders(Ahead)
    BY <1>1, <2>3 DEF Holders, Counted, Adding
  <2> QED BY <2>1, <2>2, <2>4
<1>7. mapped[Ahead] > 1 <=> Holders(Ahead) \ {con} # {}
  <2> DEFINE H == Holders(Ahead)
             R == H \ {con}
  <2>1. R \in SUBSET Con /\ con \in Con
    BY <1>1, <1>6
  <2>2. Cardinality(R) = Cardinality(H) - 1 /\ Cardinality(H) \in Nat
    BY <1>6, SomeConnections
  <2>3. /\ Cardinality(R) \in Nat
        /\ Cardinality(R) = 0 <=> R = {}
    BY <2>1, SomeConnections
  <2> HIDE DEF R
  <2> QED BY <1>6, <2>2, <2>3 DEF R
<1>8. \A c \in Con : c \in Holders(Ahead) <=> trace[c] # <<>> /\ IsIn(Ahead, trace[c])
  BY DEF Holders, Counted, Adding
<1>9. mapped[Ahead] > 1 <=> \E c \in Con \ {con} : trace[c] # <<>> /\ IsIn(Ahead, trace[c])
  BY <1>6, <1>7, <1>8
<1>10. Ahead \in inGraph <=>
         \E c \in Con : trace[c] # <<>> /\ \E k \in 1 .. Entered(c) : trace[c][k] = Ahead
  BY <1>1, <1>4 DEF MapIsRight, Counted, Adding
<1>11. \A k \in 1 .. Entered(con) : p[k] # Ahead
  <2>1. Entered(con) = pos - 1
    BY <1>1 DEF Entered, Adding
  <2>2. \A k \in 1 .. pos - 1 : k \in 1 .. L /\ k # pos
    BY <1>1, <1>2
  <2> QED BY <1>1, <1>2, <1>3, <2>1, <2>2
<1>12. Ahead \in inGraph <=>
         \E c \in Con \ {con} : \E k \in 1 .. Len(trace[c]) - 1 : trace[c][k] = Ahead
  <2>1. \A c \in Con \ {con} : trace[c] # <<>> => Entered(c) = Len(trace[c]) - 1
    BY <1>1, EnteredIs
  <2>2. \A c \in Con : trace[c] = <<>> => 1 .. Len(trace[c]) - 1 = {}
    BY DEF TypeOK
  <2> QED BY <1>10, <1>11, <2>1, <2>2
<1> QED BY <1>1, <1>4, <1>5, <1>9, <1>12

\* One step along the trace: the edge to the next node is counted once more, and
\* that node is in the graph.
LEMMA StepAlong ==
  ASSUME TypeOK, RInv, Adding, Adding', Ahead \notin Sink,
         UNCHANGED << trace, con, mapped >>, pos' = pos + 1, at' = Ahead,
         use' = [use EXCEPT ![<< at, Ahead >>] = use[<< at, Ahead >>] + 1],
         \A n \in Node : IsInjective(children'[n]) /\ IsInjective(parents'[n]),
         \A a, b \in Node :
           /\ IsIn(b, children'[a]) <=> IsIn(b, children[a]) \/ (a = at /\ b = Ahead)
           /\ IsIn(a, parents'[b]) <=> IsIn(a, parents[b]) \/ (a = at /\ b = Ahead),
         inGraph' = inGraph \cup {Ahead},
         pc' = "matching" <=> \E c \in Con \ {con} :
                                \E k \in 1 .. Len(trace[c]) - 1 : trace[c][k] = Ahead
  PROVE  RInv'
<1>1. /\ Routing /\ Lists /\ MapIsRight /\ Walking /\ OwnPins /\ con \in Con
      /\ trace[con] # <<>>
  BY DEF RInv, Adding, Routing, Walking, TypeOK
<1>2. /\ Ahead \in Node /\ at \in Node /\ at # Ahead /\ Ahead # Source
      /\ pos \in 2 .. Len(trace[con])
      /\ Ahead = trace[con][pos] /\ at = trace[con][pos - 1]
      /\ pos # Len(trace[con]) /\ Len(trace[con]) \in Nat
      /\ con \notin Users(at, Ahead)
  BY <1>1, AheadIs, TraceIs
<1>3. Entered(con) = pos - 1 /\ Entered(con)' = pos
      /\ \A c \in Con \ {con} : Entered(c)' = Entered(c)
  BY <1>1, <1>2 DEF Entered, Adding
<1>4. \A a, b \in Node : Users(a, b)' = IF a = at /\ b = Ahead THEN Users(a, b) \cup {con}
                                        ELSE Users(a, b)
  <2> SUFFICES ASSUME NEW a \in Node, NEW b \in Node, NEW c \in Con
               PROVE  RunsOver(c, << a, b >>)' <=>
                        RunsOver(c, << a, b >>) \/ (a = at /\ b = Ahead /\ c = con)
    BY <1>1 DEF Users
  <2>1. CASE c # con
    BY <2>1, <1>3 DEF RunsOver
  <2>2. CASE c = con
    <3>1. RunsOver(con, << a, b >>)' <=>
            \E k \in 1 .. pos - 1 : << trace[con][k], trace[con][k + 1] >> = << a, b >>
      BY <1>3 DEF RunsOver
    <3>2. RunsOver(con, << a, b >>) <=>
            \E k \in 1 .. (pos - 1) - 1 : << trace[con][k], trace[con][k + 1] >> = << a, b >>
      BY <1>3 DEF RunsOver
    <3>3. \A k \in 1 .. pos - 1 : k \in 1 .. (pos - 1) - 1 \/ k = pos - 1
      BY <1>2
    <3>4. \A k \in 1 .. (pos - 1) - 1 : k \in 1 .. pos - 1
      BY <1>2
    <3>5. pos - 1 \in 1 .. pos - 1 /\ (pos - 1) + 1 = pos
      BY <1>2
    <3> QED BY <2>2, <3>1, <3>2, <3>3, <3>4, <3>5, <1>2
  <2> QED BY <2>1, <2>2
<1>5. Lists'
  <2>1. \A a, b \in Node : Users(a, b) \in SUBSET Con
    BY DEF Users
  <2>2. ASSUME NEW a \in Node, NEW b \in Node
        PROVE  /\ use'[<< a, b >>] = Cardinality(Users(a, b)')
               /\ IsIn(b, children'[a]) <=> use'[<< a, b >>] > 0
               /\ IsIn(a, parents'[b]) <=> use'[<< a, b >>] > 0
    <3>1. /\ use[<< a, b >>] = Cardinality(Users(a, b))
          /\ IsIn(b, children[a]) <=> use[<< a, b >>] > 0
          /\ IsIn(a, parents[b]) <=> use[<< a, b >>] > 0
      BY <1>1 DEF Lists
    <3>2. << a, b >> \in Edge /\ << at, Ahead >> \in Edge /\ use \in [Edge -> Nat]
      BY <1>2 DEF Edge, TypeOK
    <3>3. CASE a = at /\ b = Ahead
      <4>1. Cardinality(Users(a, b) \cup {con}) = Cardinality(Users(a, b)) + 1
        BY <3>3, <1>1, <1>2, <2>1, SomeConnections
      <4>2. use'[<< a, b >>] = use[<< a, b >>] + 1 /\ use[<< a, b >>] \in Nat
        BY <3>2, <3>3
      <4>3. Users(a, b)' = Users(a, b) \cup {con}
        BY <3>3, <1>4
      <4> QED BY <3>1, <3>3, <4>1, <4>2, <4>3
    <3>4. CASE ~(a = at /\ b = Ahead)
      <4>1. use'[<< a, b >>] = use[<< a, b >>]
        BY <3>2, <3>4
      <4>2. Users(a, b)' = Users(a, b)
        BY <3>4, <1>4
      <4> QED BY <3>1, <3>4, <4>1, <4>2
    <3> QED BY <3>3, <3>4
  <2> QED BY <2>2 DEF Lists
<1>6. MapIsRight'
  <2>1. \A c \in Con : Counted(c)' <=> Counted(c)
    BY DEF Counted, Adding
  <2>2. \A n \in Node : Holders(n)' = Holders(n)
    BY <2>1 DEF Holders
  <2>3. \A n \in Node : n \in inGraph <=>
          n = Source \/ \E c \in Con : Counted(c) /\ \E k \in 1 .. Entered(c) : trace[c][k] = n
    BY <1>1 DEF MapIsRight
  <2>4. ASSUME NEW n \in Node
        PROVE  (\E k \in 1 .. Entered(con)' : trace[con][k] = n)
                 <=> n = Ahead \/ \E k \in 1 .. Entered(con) : trace[con][k] = n
    <3>1. \A k \in 1 .. pos : k \in 1 .. pos - 1 \/ k = pos
      BY <1>2
    <3>2. \A k \in 1 .. pos - 1 : k \in 1 .. pos
      BY <1>2
    <3>3. pos \in 1 .. pos
      BY <1>2
    <3> QED BY <1>2, <1>3, <3>1, <3>2, <3>3
  <2>5. Counted(con)
    BY <1>1 DEF Counted, Adding
  <2>6. ASSUME NEW n \in Node
        PROVE  n \in inGraph' <=>
          n = Source \/ \E c \in Con : Counted(c)' /\ \E k \in 1 .. Entered(c)' : trace'[c][k] = n
    BY <1>1, <1>3, <2>1, <2>3, <2>4, <2>5
  <2>7. \A n \in Node : mapped'[n] = (IF n = Source THEN 1 ELSE 0) + Cardinality(Holders(n)')
    BY <1>1, <2>2 DEF MapIsRight
  <2> QED BY <2>6, <2>7 DEF MapIsRight
<1>7. Walking'
  <2>1. pos' \in 2 .. Len(trace'[con']) /\ at' = trace'[con'][pos' - 1] /\ trace'[con'] # <<>>
    BY <1>1, <1>2
  <2> QED BY <2>1, <1>2 DEF Walking, Adding
<1>8. OwnPins'
  BY <1>1 DEF OwnPins, Complete, Adding, PinOf
<1> QED BY <1>5, <1>6, <1>7, <1>8 DEF RInv

\* A node no entered trace goes on from has no children, and one that none comes to
\* has no parents.
LEMMA Unlinked ==
  ASSUME TypeOK, Routing, Walking, Lists, NEW n \in Node
  PROVE  /\ (\A c \in Con : \A k \in 1 .. Entered(c) - 1 : trace[c][k] # n) => children[n] = <<>>
         /\ (\A c \in Con : \A k \in 1 .. Entered(c) - 1 : trace[c][k + 1] # n) => parents[n] = <<>>
<1>1. \A a, b \in Node : use[<< a, b >>] > 0 <=> Users(a, b) # {}
  BY UsersIs
<1>2. \A a, b \in Node : Users(a, b) # {} =>
        \E c \in Con : \E k \in 1 .. Entered(c) - 1 : trace[c][k] = a /\ trace[c][k + 1] = b
  BY DEF Users, RunsOver
<1>3. \A a, b \in Node : /\ IsIn(b, children[a]) <=> use[<< a, b >>] > 0
                         /\ IsIn(a, parents[b]) <=> use[<< a, b >>] > 0
  BY DEF Lists
<1>4. children[n] \in Seq(Node) /\ parents[n] \in Seq(Node)
  BY DEF TypeOK
<1>5. /\ children[n] = <<>> <=> \A m \in Node : ~IsIn(m, children[n])
      /\ parents[n] = <<>> <=> \A m \in Node : ~IsIn(m, parents[n])
  BY <1>4, InSome
<1>6. ASSUME \A c \in Con : \A k \in 1 .. Entered(c) - 1 : trace[c][k] # n
      PROVE  children[n] = <<>>
  <2>1. \A b \in Node : Users(n, b) = {}
    BY <1>2, <1>6
  <2> QED BY <2>1, <1>1, <1>3, <1>5
<1>7. ASSUME \A c \in Con : \A k \in 1 .. Entered(c) - 1 : trace[c][k + 1] # n
      PROVE  parents[n] = <<>>
  <2>1. \A a \in Node : Users(a, n) = {}
    BY <1>2, <1>7
  <2> QED BY <2>1, <1>1, <1>3, <1>5
<1> QED BY <1>6, <1>7

\* An edge that is there is another connection's; where the trace leaves the graph, the
\* lists of the next node, or of the current one, are empty.
LEMMA LinksAhead ==
  ASSUME TypeOK, RInv, Adding
  PROVE  /\ IsIn(Ahead, children[at]) =>
              Ahead \notin Sink /\ \E c \in Con \ {con} : \E k \in 1 .. Len(trace[c]) - 1 : trace[c][k] = Ahead
         /\ ~IsIn(Ahead, children[at]) => use[<< at, Ahead >>] = 0 /\ ~IsIn(at, parents[Ahead])
         /\ use[<< at, Ahead >>] \in Nat
         /\ (\A c \in Con \ {con} : \A k \in 1 .. Len(trace[c]) - 1 : trace[c][k] # Ahead)
              => children[Ahead] = <<>> /\ parents[Ahead] = <<>>
         /\ pc = "extending" => children[at] = <<>>
<1>1. /\ Routing /\ Lists /\ Walking /\ con \in Con
      /\ trace[con] # <<>> /\ Entered(con) = pos - 1
  BY DEF RInv, Adding, Routing, Walking, TypeOK, Entered
<1>2. /\ Ahead \in Node /\ at \in Node
      /\ pos \in 2 .. Len(trace[con])
      /\ Ahead = trace[con][pos] /\ at = trace[con][pos - 1]
      /\ con \notin Users(at, Ahead)
  BY AheadIs
<1>3. Len(trace[con]) \in Nat /\ \A i, j \in 1 .. Len(trace[con]) : trace[con][i] = trace[con][j] => i = j
  BY <1>1, TraceIs
<1>4. \A c \in Con \ {con} : Entered(c) - 1 \in Int /\ Len(trace[c]) \in Nat
         /\ \A k \in 1 .. Entered(c) - 1 : k \in 1 .. Len(trace[c]) - 1 /\ k + 1 \in 1 .. Len(trace[c]) - 1
                                           /\ k + 1 \in 1 .. Len(trace[c]) /\ trace[c] # <<>>
  <2> SUFFICES ASSUME NEW c \in Con \ {con}
               PROVE  Entered(c) - 1 \in Int /\ Len(trace[c]) \in Nat
         /\ \A k \in 1 .. Entered(c) - 1 : k \in 1 .. Len(trace[c]) - 1 /\ k + 1 \in 1 .. Len(trace[c]) - 1
                                           /\ k + 1 \in 1 .. Len(trace[c]) /\ trace[c] # <<>>
    OBVIOUS
  <2>1. Len(trace[c]) \in Nat
    BY DEF TypeOK
  <2>2. Entered(c) = IF trace[c] = <<>> THEN 0 ELSE Len(trace[c]) - 1
    BY <1>1, EnteredIs
  <2> HIDE DEF Entered
  <2> QED BY <2>1, <2>2
<1>5. \A k \in 1 .. Entered(con) - 1 : /\ k \in 1 .. Len(trace[con]) /\ k # pos /\ k # pos - 1
                                       /\ k + 1 \in 1 .. Len(trace[con]) /\ k + 1 # pos
  BY <1>1, <1>2, <1>3
<1>6. /\ pos \in 1 .. Len(trace[con]) /\ pos - 1 \in 1 .. Len(trace[con])
  BY <1>2, <1>3
<1>7. \A k \in 1 .. Entered(con) - 1 : trace[con][k] # at /\ trace[con][k] # Ahead /\ trace[con][k + 1] # Ahead
  BY <1>2, <1>3, <1>5, <1>6
<1>8. ASSUME IsIn(Ahead, children[at])
      PROVE  Ahead \notin Sink /\ \E c \in Con \ {con} : \E k \in 1 .. Len(trace[c]) - 1 : trace[c][k] = Ahead
  <2>1. use[<< at, Ahead >>] > 0
    BY <1>1, <1>2, <1>8 DEF Lists
  <2>2. Users(at, Ahead) # {}
    BY <1>1, <1>2, <2>1, UsersIs
  <2>3. PICK c \in Con : \E k \in 1 .. Entered(c) - 1 : << trace[c][k], trace[c][k + 1] >> = << at, Ahead >>
    BY <2>2 DEF Users, RunsOver
  <2>4. PICK k \in 1 .. Entered(c) - 1 : trace[c][k] = at /\ trace[c][k + 1] = Ahead
    BY <2>3
  <2>5. c # con
    BY <1>7, <2>4
  <2>6. k + 1 \in 1 .. Len(trace[c]) - 1 /\ k + 1 \in 1 .. Len(trace[c]) /\ trace[c] # <<>> /\ Len(trace[c]) \in Nat
    BY <1>4, <2>4, <2>5
  <2>7. Ahead \notin Sink
    <3>1. \A i \in 1 .. Len(trace[c]) : trace[c][i] \in Sink <=> i = Len(trace[c])
      BY <2>6, TraceIs
    <3>2. k + 1 # Len(trace[c])
      BY <2>6
    <3> QED BY <3>1, <3>2, <2>4, <2>6
  <2> QED BY <2>4, <2>5, <2>6, <2>7
<1>9. use[<< at, Ahead >>] \in Nat
  BY <1>2 DEF TypeOK, Edge
<1>10. ~IsIn(Ahead, children[at]) => use[<< at, Ahead >>] = 0 /\ ~IsIn(at, parents[Ahead])
  BY <1>1, <1>2, <1>9 DEF Lists
<1>11. ASSUME \A c \in Con \ {con} : \A k \in 1 .. Len(trace[c]) - 1 : trace[c][k] # Ahead
       PROVE  children[Ahead] = <<>> /\ parents[Ahead] = <<>>
  <2>1. \A c \in Con : \A k \in 1 .. Entered(c) - 1 : trace[c][k] # Ahead /\ trace[c][k + 1] # Ahead
    BY <1>4, <1>7, <1>11
  <2> QED BY <1>1, <1>2, <2>1, Unlinked
<1>12. ASSUME pc = "extending"  PROVE children[at] = <<>>
  <2>1. \A c \in Con \ {con} : \A k \in 1 .. Len(trace[c]) - 1 : trace[c][k] # at
    BY <1>1, <1>12 DEF Walking
  <2>2. \A c \in Con : \A k \in 1 .. Entered(c) - 1 : trace[c][k] # at
    BY <1>4, <1>7, <2>1
  <2> QED BY <1>1, <1>2, <2>2, Unlinked
<1> QED BY <1>8, <1>9, <1>10, <1>11, <1>12

\* Going along an edge the graph has.
LEMMA FollowRInv ==
  ASSUME TypeOK, RInv, Follow
  PROVE  RInv'
<1>1. Adding /\ Adding' /\ pc' = "matching"
  BY DEF Follow, Adding
<1>2. Ahead \notin Sink /\ \E c \in Con \ {con} : \E k \in 1 .. Len(trace[c]) - 1 : trace[c][k] = Ahead
  BY <1>1, LinksAhead DEF Follow
<1>3. Ahead \in inGraph
  BY <1>1, <1>2, AheadIs
<1>4. Lists
  BY <1>1 DEF RInv, Adding, Routing
<1>5. use' = [use EXCEPT ![<< at, Ahead >>] = use[<< at, Ahead >>] + 1]
  BY DEF Follow
<1>6. UNCHANGED << trace, con, mapped, children, parents >> /\ pos' = pos + 1 /\ at' = Ahead
      /\ inGraph' = inGraph \cup {Ahead} /\ IsIn(Ahead, children[at])
  BY <1>3 DEF Follow
<1>7. \A n \in Node : IsInjective(children'[n]) /\ IsInjective(parents'[n])
  BY <1>4, <1>6 DEF Lists
<1>8. \A a, b \in Node :
           /\ IsIn(b, children'[a]) <=> IsIn(b, children[a]) \/ (a = at /\ b = Ahead)
           /\ IsIn(a, parents'[b]) <=> IsIn(a, parents[b]) \/ (a = at /\ b = Ahead)
  <2>1. at \in Node /\ Ahead \in Node
    BY <1>1, AheadIs
  <2>2. IsIn(at, parents[Ahead])
    BY <1>4, <1>6, <2>1 DEF Lists
  <2> QED BY <1>6, <2>2
<1> QED BY <1>1, <1>2, <1>5, <1>6, <1>7, <1>8, StepAlong

\* Going over to another branch.
LEMMA SwitchBranchesRInv ==
  ASSUME TypeOK, RInv, SwitchBranches
  PROVE  RInv'
<1>1. Adding /\ Adding' /\ pc' = "matching"
  BY DEF SwitchBranches, Leaves, Adding
<1>2. Ahead \in inGraph /\ ~IsIn(Ahead, children[at])
  BY DEF SwitchBranches, Leaves
<1>3. Ahead \notin Sink
  BY <1>2 DEF TypeOK
<1>4. Lists /\ at \in Node /\ Ahead \in Node
      /\ \E c \in Con \ {con} : \E k \in 1 .. Len(trace[c]) - 1 : trace[c][k] = Ahead
  BY <1>1, <1>2, AheadIs DEF RInv, Adding, Routing
<1>5. use[<< at, Ahead >>] = 0 /\ ~IsIn(at, parents[Ahead])
  BY <1>1, <1>2, LinksAhead
<1>6. use' = [use EXCEPT ![<< at, Ahead >>] = use[<< at, Ahead >>] + 1]
  BY <1>5 DEF SwitchBranches
<1>7. UNCHANGED << trace, con, mapped >> /\ pos' = pos + 1 /\ at' = Ahead
      /\ inGraph' = inGraph \cup {Ahead}
  BY <1>2 DEF SwitchBranches
<1>8. /\ children' = [children EXCEPT ![at] = Append(children[at], Ahead)]
      /\ parents' = [parents EXCEPT ![Ahead] = << at >> \o parents[Ahead]]
      /\ children \in [Node -> Seq(Node)] /\ parents \in [Node -> Seq(Node)]
  BY DEF SwitchBranches, TypeOK
<1>9. /\ children'[at] = Append(children[at], Ahead) /\ \A n \in Node \ {at} : children'[n] = children[n]
      /\ parents'[Ahead] = << at >> \o parents[Ahead] /\ \A n \in Node \ {Ahead} : parents'[n] = parents[n]
      /\ children[at] \in Seq(Node) /\ parents[Ahead] \in Seq(Node)
  BY <1>4, <1>8
<1>10. \A n \in Node : IsInjective(children[n]) /\ IsInjective(parents[n])
  BY <1>4 DEF Lists
<1>11. /\ \A m : IsIn(m, children'[at]) <=> m = Ahead \/ IsIn(m, children[at])
       /\ IsInjective(children'[at])
  BY <1>2, <1>4, <1>9, <1>10, InAppend
<1>12. /\ \A m : IsIn(m, parents'[Ahead]) <=> m = at \/ IsIn(m, parents[Ahead])
       /\ IsInjective(parents'[Ahead])
  BY <1>5, <1>4, <1>9, <1>10, InFront
<1>13. \A n \in Node : IsInjective(children'[n]) /\ IsInjective(parents'[n])
  BY <1>9, <1>10, <1>11, <1>12
<1>14. \A a, b \in Node :
           /\ IsIn(b, children'[a]) <=> IsIn(b, children[a]) \/ (a = at /\ b = Ahead)
           /\ IsIn(a, parents'[b]) <=> IsIn(a, parents[b]) \/ (a = at /\ b = Ahead)
  BY <1>9, <1>11, <1>12
<1> QED BY <1>1, <1>3, <1>4, <1>6, <1>7, <1>13, <1>14, StepAlong

\* Leaving the graph.
LEMMA NewPartRInv ==
  ASSUME TypeOK, RInv, NewPart
  PROVE  RInv'
<1>1. Adding /\ Adding' /\ pc' = "extending" /\ pc = "matching"
  BY DEF NewPart, Leaves, Adding
<1>2. mapped[Ahead] <= 1 /\ ~IsIn(Ahead, children[at])
  BY DEF NewPart, Leaves
<1>3. Lists /\ Walking /\ con \in Con /\ trace[con] # <<>>
  BY <1>1 DEF RInv, Adding, Routing, Walking, TypeOK
<1>4. /\ at \in Node /\ Ahead \in Node /\ at # Ahead
      /\ Ahead = trace[con][pos] /\ at = trace[con][pos - 1] /\ pos \in 2 .. Len(trace[con])
      /\ Ahead \in Sink <=> pos = Len(trace[con])
  BY <1>1, AheadIs
<1>5. \A c \in Con \ {con} : ~(trace[c] # <<>> /\ IsIn(Ahead, trace[c]))
  <2>1. mapped[Ahead] \in Nat
    BY <1>4 DEF TypeOK
  <2>2. ~(mapped[Ahead] > 1)
    BY <1>2, <2>1
  <2> QED BY <1>1, <2>2, AheadIs
<1>6. \A c \in Con : trace[c] = <<>> \/ (Len(trace[c]) \in Nat /\ Len(trace[c]) >= 3 /\ DOMAIN trace[c] = 1 .. Len(trace[c]))
  BY TraceIs
<1>7. \A c \in Con \ {con} : \A k \in 1 .. Len(trace[c]) - 1 : trace[c][k] # Ahead
  <2> SUFFICES ASSUME NEW c \in Con \ {con}, NEW k \in 1 .. Len(trace[c]) - 1, trace[c][k] = Ahead
               PROVE  FALSE
    OBVIOUS
  <2>1. CASE trace[c] = <<>>
    BY <2>1
  <2>2. CASE trace[c] # <<>>
    <3>1. k \in DOMAIN trace[c]
      BY <1>6, <2>2
    <3> QED BY <3>1, <2>2, <1>5 DEF IsIn
  <2> QED BY <2>1, <2>2
<1>8. Ahead \notin Sink
  <2> SUFFICES ASSUME Ahead \in Sink  PROVE FALSE
    OBVIOUS
  <2>1. pos = Len(trace[con]) /\ at = PinOf(con)
    BY <1>4 DEF PinOf
  <2>2. at # Source
    <3>1. trace[con][1] = Source /\ \A i, j \in 1 .. Len(trace[con]) : trace[con][i] = trace[con][j] => i = j
      BY <1>3, TraceIs
    <3>2. pos - 1 \in 1 .. Len(trace[con]) /\ 1 \in 1 .. Len(trace[con]) /\ pos - 1 # 1
      BY <1>3, <1>6, <2>1
    <3> QED BY <3>1, <3>2, <1>4
  <2>3. PICK c \in Con \ {con} : \E k \in 1 .. Len(trace[c]) - 1 : trace[c][k] = at
    BY <1>1, <1>3, <2>2 DEF Walking
  <2>4. PICK k \in 1 .. Len(trace[c]) - 1 : trace[c][k] = PinOf(con)
    BY <2>1, <2>3
  <2>5. trace[c] # <<>>
    BY <2>4
  <2>6. Ends(c) = Ends(con)
    BY <1>3, <2>4, <2>5, SharedPin
  <2>7. trace[c][Len(trace[c])] = Ahead /\ Len(trace[c]) \in DOMAIN trace[c]
    BY <1>4, <1>6, <2>1, <2>5, <2>6 DEF Ends
  <2> QED BY <2>5, <2>7, <1>5 DEF IsIn
<1>9. children[Ahead] = <<>> /\ parents[Ahead] = <<>>
  BY <1>1, <1>7, LinksAhead
<1>10. use[<< at, Ahead >>] = 0 /\ ~IsIn(at, parents[Ahead])
  BY <1>1, <1>2, LinksAhead
<1>11. use' = [use EXCEPT ![<< at, Ahead >>] = use[<< at, Ahead >>] + 1]
  BY <1>10 DEF NewPart
<1>12. UNCHANGED << trace, con, mapped >> /\ pos' = pos + 1 /\ at' = Ahead
      /\ inGraph' = inGraph \cup {Ahead}
  BY <1>2 DEF NewPart
<1>13. /\ children' = [children EXCEPT ![at] = << Ahead >> \o children[at], ![Ahead] = <<>>]
       /\ parents' = [parents EXCEPT ![Ahead] = << at >>]
       /\ children \in [Node -> Seq(Node)] /\ parents \in [Node -> Seq(Node)]
  BY DEF NewPart, TypeOK
<1>14. /\ children'[at] = << Ahead >> \o children[at] /\ \A n \in Node \ {at} : children'[n] = children[n]
       /\ parents'[Ahead] = << at >> /\ \A n \in Node \ {Ahead} : parents'[n] = parents[n]
       /\ children[at] \in Seq(Node)
  BY <1>4, <1>9, <1>13
<1>15. \A n \in Node : IsInjective(children[n]) /\ IsInjective(parents[n])
  BY <1>3 DEF Lists
<1>16. /\ \A m : IsIn(m, children'[at]) <=> m = Ahead \/ IsIn(m, children[at])
       /\ IsInjective(children'[at])
  BY <1>2, <1>4, <1>14, <1>15, InFront
<1>17. /\ \A m : IsIn(m, parents'[Ahead]) <=> m = at \/ IsIn(m, parents[Ahead])
       /\ IsInjective(parents'[Ahead])
  BY <1>4, <1>9, <1>14, InSingle, InEmpty
<1>18. \A n \in Node : IsInjective(children'[n]) /\ IsInjective(parents'[n])
  BY <1>14, <1>15, <1>16, <1>17
<1>19. \A a, b \in Node :
           /\ IsIn(b, children'[a]) <=> IsIn(b, children[a]) \/ (a = at /\ b = Ahead)
           /\ IsIn(a, parents'[b]) <=> IsIn(a, parents[b]) \/ (a = at /\ b = Ahead)
  BY <1>14, <1>16, <1>17
<1>20. pc' = "matching" <=> \E c \in Con \ {con} : \E k \in 1 .. Len(trace[c]) - 1 : trace[c][k] = Ahead
  BY <1>1, <1>7
<1> QED BY <1>1, <1>8, <1>11, <1>12, <1>18, <1>19, <1>20, StepAlong

\* Off the graph the trace goes on through a new node, or back into the graph.
LEMMA ExtendRInv ==
  ASSUME TypeOK, RInv, Extend \/ Reconnect
  PROVE  RInv'
<1>1. Adding /\ Adding' /\ pc = "extending" /\ Ahead \notin Sink
  BY DEF Extend, Reconnect, Adding
<1>2. /\ Lists /\ at \in Node /\ Ahead \in Node /\ at # Ahead
      /\ Ahead \in inGraph <=> \E c \in Con \ {con} : \E k \in 1 .. Len(trace[c]) - 1 : trace[c][k] = Ahead
  BY <1>1, AheadIs DEF RInv, Adding, Routing
<1>3. children[at] = <<>>
  BY <1>1, LinksAhead
<1>4. ~IsIn(Ahead, children[at])
  BY <1>3, InEmpty
<1>5. use[<< at, Ahead >>] = 0 /\ ~IsIn(at, parents[Ahead])
  BY <1>1, <1>4, LinksAhead
<1>6. use' = [use EXCEPT ![<< at, Ahead >>] = use[<< at, Ahead >>] + 1]
  BY <1>5 DEF Extend, Reconnect
<1>7. /\ UNCHANGED << trace, con, mapped >> /\ pos' = pos + 1 /\ at' = Ahead
      /\ inGraph' = inGraph \cup {Ahead}
      /\ pc' = "matching" <=> Ahead \in inGraph
  BY <1>1 DEF Extend, Reconnect
<1>8. children \in [Node -> Seq(Node)] /\ parents \in [Node -> Seq(Node)]
  BY DEF TypeOK
<1>9. /\ children'[at] = << Ahead >> /\ \A n \in Node \ {at} : children'[n] = children[n]
      /\ \A n \in Node \ {Ahead} : parents'[n] = parents[n]
      /\ \/ parents'[Ahead] = << at >> /\ parents[Ahead] = <<>>
         \/ parents'[Ahead] = << at >> \o parents[Ahead]
  <2>1. CASE Extend
    <3>1. children[Ahead] = <<>> /\ parents[Ahead] = <<>>
      BY <1>1, <1>2, <2>1, LinksAhead DEF Extend
    <3>2. /\ children' = [children EXCEPT ![at] = << Ahead >>, ![Ahead] = <<>>]
          /\ parents' = [parents EXCEPT ![Ahead] = << at >>]
      BY <2>1 DEF Extend
    <3> QED BY <3>1, <3>2, <1>2, <1>8
  <2>2. CASE Reconnect
    <3>1. /\ children' = [children EXCEPT ![at] = << Ahead >>]
          /\ parents' = [parents EXCEPT ![Ahead] = << at >> \o parents[Ahead]]
      BY <2>2 DEF Reconnect
    <3> QED BY <3>1, <1>2, <1>8
  <2> QED BY <2>1, <2>2
<1>10. \A n \in Node : IsInjective(children[n]) /\ IsInjective(parents[n])
  BY <1>2 DEF Lists
<1>11. /\ \A m : IsIn(m, children'[at]) <=> m = Ahead \/ IsIn(m, children[at])
       /\ IsInjective(children'[at])
  BY <1>2, <1>3, <1>9, InSingle, InEmpty
<1>12. /\ \A m : IsIn(m, parents'[Ahead]) <=> m = at \/ IsIn(m, parents[Ahead])
       /\ IsInjective(parents'[Ahead])
  <2>1. /\ \A m : IsIn(m, << at >>) <=> m = at
        /\ IsInjective(<< at >>)
    BY <1>2, InSingle
  <2>2. parents[Ahead] \in Seq(Node) /\ IsInjective(parents[Ahead])
    BY <1>2, <1>8, <1>10
  <2>3. /\ \A m : IsIn(m, << at >> \o parents[Ahead]) <=> m = at \/ IsIn(m, parents[Ahead])
        /\ IsInjective(<< at >> \o parents[Ahead])
    BY <1>2, <1>5, <2>2, InFront
  <2> QED BY <2>1, <2>3, <1>9, InEmpty
<1>13. \A n \in Node : IsInjective(children'[n]) /\ IsInjective(parents'[n])
  BY <1>9, <1>10, <1>11, <1>12
<1>14. \A a, b \in Node :
           /\ IsIn(b, children'[a]) <=> IsIn(b, children[a]) \/ (a = at /\ b = Ahead)
           /\ IsIn(a, parents'[b]) <=> IsIn(a, parents[b]) \/ (a = at /\ b = Ahead)
  BY <1>9, <1>11, <1>12
<1> QED BY <1>1, <1>2, <1>6, <1>7, <1>13, <1>14, StepAlong

-----------------------------------------------------------------------------
(* The beginning and the end of a walk, and the way back *)

\* As long as no connection gets or loses an edge, the lists are right.
LEMMA ListsStay ==
  ASSUME Lists, UNCHANGED lists,
         \A c \in Con : \/ Entered(c)' = Entered(c) /\ trace'[c] = trace[c]
                        \/ Entered(c) \in {0, 1} /\ Entered(c)' \in {0, 1}
  PROVE  Lists'
<1>1. ASSUME NEW a \in Node, NEW b \in Node, NEW c \in Con
      PROVE  RunsOver(c, << a, b >>)' <=> RunsOver(c, << a, b >>)
  <2>1. CASE Entered(c)' = Entered(c) /\ trace'[c] = trace[c]
    BY <2>1 DEF RunsOver
  <2>2. CASE Entered(c) \in {0, 1} /\ Entered(c)' \in {0, 1}
    <3>1. 1 .. Entered(c) - 1 = {} /\ 1 .. Entered(c)' - 1 = {}
      BY <2>2
    <3> QED BY <3>1 DEF RunsOver
  <2> QED BY <2>1, <2>2
<1>2. \A a, b \in Node : Users(a, b)' = Users(a, b)
  BY <1>1 DEF Users
<1>3. UNCHANGED << children, parents, use >>
  BY DEF lists
<1> QED BY <1>2, <1>3 DEF Lists

\* The end of adding a connection.
LEMMA AddedRInv ==
  ASSUME TypeOK, RInv, Added
  PROVE  RInv'
<1>1. Adding /\ pc = "extending" /\ pc' = "idle" /\ Ahead \in Sink
      /\ UNCHANGED << graph, walk, prune, out >>
  BY DEF Added, Adding
<1>2. /\ Routing /\ Lists /\ MapIsRight /\ Walking /\ OwnPins /\ con \in Con
      /\ trace[con] # <<>> /\ pos = Len(trace[con]) /\ at = trace[con][pos - 1]
  BY <1>1, AheadIs DEF RInv, Adding, Routing, Walking, TypeOK
<1>3. UNCHANGED << children, parents, use, trace, con, pos, at, mapped, inGraph, lists >>
  BY <1>1 DEF graph, walk, lists
<1>4. \A c \in Con : Entered(c)' = Entered(c)
  BY <1>1, <1>2, <1>3 DEF Entered
<1>5. Lists'
  BY <1>2, <1>3, <1>4, ListsStay
<1>6. \A c \in Con : Counted(c)' <=> Counted(c)
  BY <1>1, <1>3 DEF Counted
<1>7. \A n \in Node : Holders(n)' = Holders(n)
  BY <1>3, <1>6 DEF Holders
<1>8. MapIsRight'
  BY <1>2, <1>3, <1>4, <1>6, <1>7 DEF MapIsRight
<1>9. Walking'
  BY <1>1 DEF Walking
<1>10. OwnPins'
  <2>1. \A c \in Con : Complete(c)' <=> Complete(c) \/ c = con
    BY <1>1, <1>2, <1>3 DEF Complete
  <2>2. \A c \in Con \ {con} : Complete(c) => PinOf(c) # PinOf(con)
    <3> SUFFICES ASSUME NEW c \in Con \ {con}, Complete(c), PinOf(c) = PinOf(con)  PROVE FALSE
      OBVIOUS
    <3>1. trace[c] # <<>>
      BY DEF Complete
    <3>2. Len(trace[c]) - 1 \in 1 .. Len(trace[c]) - 1
      <4>1. Len(trace[c]) \in Nat /\ Len(trace[c]) >= 3
        BY <3>1, TraceIs
      <4> QED BY <4>1
    <3>3. trace[c][Len(trace[c]) - 1] = at
      BY <1>2 DEF PinOf
    <3>4. \A d \in Con \ {con} : \A k \in 1 .. Len(trace[d]) - 1 : trace[d][k] # at
      BY <1>1, <1>2 DEF Walking
    <3> QED BY <3>2, <3>3, <3>4
  <2>3. \A c \in Con : PinOf(c)' = PinOf(c)
    BY <1>3 DEF PinOf
  <2> QED BY <1>2, <2>1, <2>2, <2>3 DEF OwnPins
<1> QED BY <1>5, <1>8, <1>9, <1>10 DEF RInv

\* A new trace, which the map counts before the graph is touched.
LEMMA AddRInv ==
  ASSUME TypeOK, RInv, NEW c0 \in Con, Add(c0)
  PROVE  RInv'
<1>1. PICK p \in Paths[c0] : /\ trace' = [trace EXCEPT ![c0] = p]
                             /\ mapped' = [n \in Node |-> IF IsIn(n, p) THEN mapped[n] + 1 ELSE mapped[n]]
  BY DEF Add
<1>2. pc = "idle" /\ pc' = "matching" /\ trace[c0] = <<>> /\ con' = c0 /\ at' = Source /\ pos' = 2
      /\ UNCHANGED << children, parents, use, inGraph, lists >>
  BY DEF Add, lists
<1>3. Lists /\ MapIsRight /\ Walking /\ OwnPins /\ Routing
  BY <1>2 DEF RInv, Routing
<1>4. p \in Seq(Node) /\ Len(p) \in Nat /\ Len(p) >= 3 /\ p[1] = Source /\ p # <<>>
  BY PathAssumption
<1>5. trace'[c0] = p /\ \A c \in Con \ {c0} : trace'[c] = trace[c]
  BY <1>1 DEF TypeOK
<1>6. Entered(c0) = 0 /\ Entered(c0)' = 1 /\ \A c \in Con \ {c0} : Entered(c)' = Entered(c)
  BY <1>2, <1>4, <1>5 DEF Entered
<1>7. Lists'
  <2>1. \A c \in Con : \/ Entered(c)' = Entered(c) /\ trace'[c] = trace[c]
                       \/ Entered(c) \in {0, 1} /\ Entered(c)' \in {0, 1}
    BY <1>5, <1>6
  <2> QED BY <1>2, <1>3, <2>1, ListsStay
<1>8. ~Counted(c0) /\ Counted(c0)' /\ \A c \in Con \ {c0} : Counted(c)' <=> Counted(c)
  BY <1>2, <1>4, <1>5 DEF Counted
<1>9. \A n \in Node : Holders(n)' = IF IsIn(n, p) THEN Holders(n) \cup {c0} ELSE Holders(n)
  BY <1>5, <1>8 DEF Holders
<1>10. \A n \in Node : c0 \notin Holders(n) /\ Holders(n) \in SUBSET Con
  BY <1>8 DEF Holders
<1>11. ASSUME NEW n \in Node
       PROVE  mapped'[n] = (IF n = Source THEN 1 ELSE 0) + Cardinality(Holders(n)')
  <2>1. mapped[n] = (IF n = Source THEN 1 ELSE 0) + Cardinality(Holders(n))
    BY <1>3 DEF MapIsRight
  <2>2. Cardinality(Holders(n)) \in Nat /\ Cardinality(Holders(n) \cup {c0}) = Cardinality(Holders(n)) + 1
    BY <1>10, SomeConnections
  <2>3. mapped'[n] = IF IsIn(n, p) THEN mapped[n] + 1 ELSE mapped[n]
    BY <1>1
  <2>4. CASE IsIn(n, p)
    <3>1. Holders(n)' = Holders(n) \cup {c0}
      BY <1>9, <2>4
    <3> QED BY <3>1, <2>1, <2>2, <2>3, <2>4
  <2>5. CASE ~IsIn(n, p)
    <3>1. Holders(n)' = Holders(n)
      BY <1>9, <2>5
    <3> QED BY <3>1, <2>1, <2>3, <2>5
  <2> QED BY <2>4, <2>5
<1>12. ASSUME NEW n \in Node
       PROVE  n \in inGraph' <=>
                n = Source \/ \E c \in Con : Counted(c)' /\ \E k \in 1 .. Entered(c)' : trace'[c][k] = n
  <2>1. n \in inGraph <=>
          n = Source \/ \E c \in Con : Counted(c) /\ \E k \in 1 .. Entered(c) : trace[c][k] = n
    BY <1>3 DEF MapIsRight
  <2>2. (\E k \in 1 .. Entered(c0)' : trace'[c0][k] = n) <=> n = Source
    <3>1. 1 .. 1 = {1}
      OBVIOUS
    <3> QED BY <3>1, <1>4, <1>5, <1>6
  <2>3. \A c \in Con \ {c0} : (Counted(c)' /\ \E k \in 1 .. Entered(c)' : trace'[c][k] = n)
                               <=> (Counted(c) /\ \E k \in 1 .. Entered(c) : trace[c][k] = n)
    BY <1>5, <1>6, <1>8
  <2> QED BY <1>2, <1>8, <2>1, <2>2, <2>3
<1>13. MapIsRight'
  BY <1>11, <1>12 DEF MapIsRight
<1>14. Walking'
  <2>1. 2 \in 2 .. Len(p)
    BY <1>4
  <2> QED BY <1>2, <1>4, <1>5, <2>1 DEF Walking
<1>15. OwnPins'
  BY <1>2, <1>3, <1>5 DEF OwnPins, Complete, PinOf
<1> QED BY <1>7, <1>13, <1>14, <1>15 DEF RInv

\* A trace to be ripped up, which the map forgets first.
LEMMA RipUpRInv ==
  ASSUME TypeOK, RInv, NEW c0 \in Con, RipUp(c0)
  PROVE  RInv'
<1>1. /\ pc = "idle" /\ pc' = "ripping" /\ trace[c0] # <<>> /\ con' = c0
      /\ mapped' = [n \in Node |-> IF IsIn(n, trace[c0]) THEN mapped[n] - 1 ELSE mapped[n]]
      /\ inGraph' = { n \in inGraph : mapped'[n] > 0 }
      /\ pos' = Len(trace[c0]) - 1
      /\ at' = trace[c0][pos']
      /\ UNCHANGED << children, parents, use, trace, lists >>
  BY DEF RipUp, lists
<1>2. Lists /\ MapIsRight /\ Walking /\ OwnPins /\ Routing
  BY <1>1 DEF RInv, Routing
<1>3. \A c \in Con : Entered(c)' = Entered(c)
  BY <1>1 DEF Entered
<1>4. Lists'
  BY <1>1, <1>2, <1>3, ListsStay
<1>5. Counted(c0) /\ ~Counted(c0)' /\ \A c \in Con \ {c0} : Counted(c)' <=> Counted(c)
  BY <1>1 DEF Counted
<1>6. \A n \in Node : Holders(n)' = Holders(n) \ {c0} /\ Holders(n) \in SUBSET Con
                      /\ Holders(n) \ {c0} \in SUBSET Con
  BY <1>1, <1>5 DEF Holders
<1>7. \A n \in Node : c0 \in Holders(n) <=> IsIn(n, trace[c0])
  BY <1>5 DEF Holders
<1>8. ASSUME NEW n \in Node
      PROVE  /\ mapped'[n] = (IF n = Source THEN 1 ELSE 0) + Cardinality(Holders(n)')
             /\ mapped'[n] > 0 <=> n = Source \/ Holders(n)' # {}
  <2>1. mapped[n] = (IF n = Source THEN 1 ELSE 0) + Cardinality(Holders(n))
    BY <1>2 DEF MapIsRight
  <2>2. /\ Cardinality(Holders(n)) \in Nat /\ Cardinality(Holders(n) \ {c0}) \in Nat
        /\ Cardinality(Holders(n) \ {c0}) = 0 <=> Holders(n) \ {c0} = {}
        /\ c0 \in Holders(n) => Cardinality(Holders(n) \ {c0}) = Cardinality(Holders(n)) - 1
        /\ c0 \notin Holders(n) => Holders(n) \ {c0} = Holders(n)
    BY <1>6, SomeConnections
  <2>3. mapped'[n] = IF IsIn(n, trace[c0]) THEN mapped[n] - 1 ELSE mapped[n]
    BY <1>1
  <2> DEFINE s == IF n = Source THEN 1 ELSE 0
             H == Holders(n)
             R == H \ {c0}
  <2>4. s \in Nat /\ (s > 0 <=> n = Source)
    OBVIOUS
  <2>5. mapped[n] = s + Cardinality(H) /\ Cardinality(H) \in Nat /\ Cardinality(R) \in Nat
    BY <2>1, <2>2
  <2>6. R = {} <=> Cardinality(R) = 0
    BY <2>2
  <2>7. c0 \in H => Cardinality(R) = Cardinality(H) - 1
    BY <2>2
  <2>8. c0 \notin H => R = H
    OBVIOUS
  <2>9. mapped'[n] = IF c0 \in H THEN mapped[n] - 1 ELSE mapped[n]
    BY <1>7, <2>3
  <2>10. Holders(n)' = R
    BY <1>6
  <2> HIDE DEF s, R, H
  <2>11. mapped'[n] = s + Cardinality(R)
    BY <2>4, <2>5, <2>7, <2>8, <2>9
  <2>12. mapped'[n] > 0 <=> n = Source \/ R # {}
    BY <2>4, <2>5, <2>6, <2>11
  <2> QED BY <2>10, <2>11, <2>12 DEF s
<1>9. ASSUME NEW n \in Node
      PROVE  n \in inGraph' <=>
               n = Source \/ \E c \in Con : Counted(c)' /\ \E k \in 1 .. Entered(c)' : trace'[c][k] = n
  <2>1. n \in inGraph <=>
          n = Source \/ \E c \in Con : Counted(c) /\ \E k \in 1 .. Entered(c) : trace[c][k] = n
    BY <1>2 DEF MapIsRight
  <2>2. \A c \in Con \ {c0} : Counted(c) =>
          /\ trace[c] # <<>> /\ Len(trace[c]) \in Nat /\ DOMAIN trace[c] = 1 .. Len(trace[c])
          /\ Entered(c) = Len(trace[c]) - 1
          /\ \A k \in 1 .. Len(trace[c]) : trace[c][k] \in Sink <=> k = Len(trace[c])
    BY <1>1, TraceIs DEF Counted, Entered
  <2>3. ASSUME NEW c \in Con \ {c0}, Counted(c), n \notin Sink
        PROVE  IsIn(n, trace[c]) <=> \E k \in 1 .. Entered(c) : trace[c][k] = n
    <3> DEFINE L == Len(trace[c])
    <3>1. L \in Nat /\ DOMAIN trace[c] = 1 .. L /\ Entered(c) = L - 1
          /\ \A k \in 1 .. L : trace[c][k] \in Sink <=> k = L
      BY <2>2, <2>3
    <3>2. \A k \in 1 .. L : k # L => k \in 1 .. L - 1
      BY <3>1
    <3>3. \A k \in 1 .. L - 1 : k \in 1 .. L
      BY <3>1
    <3> HIDE DEF L
    <3>4. IsIn(n, trace[c]) => \E k \in 1 .. Entered(c) : trace[c][k] = n
      BY <3>1, <3>2, <2>3 DEF IsIn
    <3>5. (\E k \in 1 .. Entered(c) : trace[c][k] = n) => IsIn(n, trace[c])
      BY <3>1, <3>3 DEF IsIn
    <3> QED BY <3>4, <3>5
  <2>4. \A c \in Con \ {c0} : Counted(c) /\ (\E k \in 1 .. Entered(c) : trace[c][k] = n) => n \notin Sink
    <3> SUFFICES ASSUME NEW c \in Con \ {c0}, Counted(c), NEW k \in 1 .. Entered(c), trace[c][k] = n
                 PROVE  n \notin Sink
      OBVIOUS
    <3>1. k \in 1 .. Len(trace[c]) /\ k # Len(trace[c])
      BY <2>2
    <3> QED BY <3>1, <2>2
  <2>5. Source \notin Sink /\ (n \in inGraph => n \notin Sink)
    BY PathAssumption DEF TypeOK
  <2>6. Holders(n)' # {} <=> \E c \in Con \ {c0} : Counted(c) /\ IsIn(n, trace[c])
    BY <1>6 DEF Holders
  <2>7. n \in inGraph' <=> n \in inGraph /\ (n = Source \/ Holders(n)' # {})
    BY <1>1, <1>8
  <2>8. (\E c \in Con : Counted(c)' /\ \E k \in 1 .. Entered(c)' : trace'[c][k] = n)
          <=> \E c \in Con \ {c0} : Counted(c) /\ \E k \in 1 .. Entered(c) : trace[c][k] = n
    BY <1>1, <1>3, <1>5
  <2>9. CASE n \in Sink
    BY <2>9, <2>4, <2>5, <2>7, <2>8
  <2>10. CASE n \notin Sink
    <3>1. Holders(n)' # {} <=> \E c \in Con \ {c0} : Counted(c) /\ \E k \in 1 .. Entered(c) : trace[c][k] = n
      BY <2>3, <2>6, <2>10
    <3> QED BY <2>1, <2>7, <2>8, <3>1
  <2> QED BY <2>9, <2>10
<1>10. MapIsRight'
  BY <1>8, <1>9 DEF MapIsRight
<1>11. Walking'
  <2>1. Len(trace[c0]) - 1 \in 1 .. Len(trace[c0]) - 1
    <3>1. Len(trace[c0]) \in Nat /\ Len(trace[c0]) >= 3
      BY <1>1, TraceIs
    <3> QED BY <3>1
  <2> QED BY <1>1, <2>1 DEF Walking
<1>12. OwnPins'
  BY <1>1, <1>2 DEF OwnPins, Complete, PinOf
<1> QED BY <1>4, <1>10, <1>11, <1>12 DEF RInv

\* On the way back the graph and the trace agree: the first parent of the IPIN is the
\* node in front of it, because no other connection ends there.
LEMMA WayBackIs ==
  ASSUME TypeOK, RInv, pc = "ripping"
  PROVE  /\ \A p \in Node : IsWayBack(p) =>
              pos > 1 /\ p = trace[con][pos - 1] /\ con \in Users(p, at) /\ use[<< p, at >>] > 0
         /\ (\A p \in Node : ~IsWayBack(p)) => pos = 1
<1>1. /\ Routing /\ Lists /\ Walking /\ OwnPins /\ con \in Con
      /\ trace[con] # <<>> /\ pos \in 1 .. Len(trace[con]) - 1 /\ at = trace[con][pos]
      /\ Entered(con) = pos /\ at \in Node
  BY DEF RInv, Routing, Walking, TypeOK, Entered
<1>2. Len(trace[con]) \in Nat /\ Len(trace[con]) >= 3 /\ PinOf(con) = trace[con][Len(trace[con]) - 1]
      /\ \A k \in 1 .. Len(trace[con]) : trace[con][k] \in Node
  BY <1>1, TraceIs
<1>3. parents[at] \in Seq(Node)
  BY <1>1 DEF TypeOK
<1>4. \A p \in Node : IsIn(p, parents[at]) => use[<< p, at >>] > 0 /\ Users(p, at) # {}
  BY <1>1, UsersIs DEF Lists
<1>5. ASSUME pos > 1
      PROVE  trace[con][pos - 1] \in Node /\ con \in Users(trace[con][pos - 1], at)
             /\ IsIn(trace[con][pos - 1], parents[at])
  <2> DEFINE q == trace[con][pos - 1]
  <2>1. q \in Node /\ pos - 1 \in 1 .. pos - 1 /\ (pos - 1) + 1 = pos
    BY <1>1, <1>2, <1>5
  <2>2. con \in Users(q, at)
    BY <1>1, <2>1 DEF Users, RunsOver
  <2> HIDE DEF q
  <2>3. use[<< q, at >>] > 0
    BY <1>1, <2>1, <2>2, UsersIs
  <2>4. IsIn(q, parents[at])
    BY <1>1, <2>1, <2>3 DEF Lists
  <2> QED BY <2>1, <2>2, <2>4 DEF q
<1>6. ASSUME NEW p \in Node, IsWayBack(p)
      PROVE  pos > 1 /\ p = trace[con][pos - 1]
  <2>1. CASE pos # Len(trace[con]) - 1
    BY <2>1, <1>6 DEF IsWayBack
  <2>2. CASE pos = Len(trace[con]) - 1
    <3>1. IsIn(p, parents[at]) /\ at = PinOf(con)
      BY <1>1, <1>2, <1>6, <2>2 DEF IsWayBack
    <3>2. PICK c \in Con : \E k \in 1 .. Entered(c) - 1 : << trace[c][k], trace[c][k + 1] >> = << p, at >>
      BY <1>4, <3>1 DEF Users, RunsOver
    <3>3. PICK k \in 1 .. Entered(c) - 1 : trace[c][k] = p /\ trace[c][k + 1] = at
      BY <3>2
    <3>4. trace[c] # <<>> /\ Entered(c) \in 1 .. Len(trace[c]) - 1 /\ Len(trace[c]) \in Nat
      BY <1>1, <3>3, EnteredIs, TraceIs
    <3>5. k + 1 \in 1 .. Len(trace[c]) - 1
      BY <3>3, <3>4
    <3>6. k + 1 = Len(trace[c]) - 1 /\ PinOf(c) = PinOf(con)
      BY <1>1, <3>1, <3>3, <3>4, <3>5, SharedPin
    <3>7. c = con
      BY <1>1, <3>4, <3>6 DEF OwnPins, Complete
    <3>8. k = pos - 1
      BY <2>2, <3>6, <3>7, <3>3, <3>4
    <3> QED BY <1>2, <2>2, <3>3, <3>7, <3>8
  <2> QED BY <2>1, <2>2
<1>7. ASSUME \A p \in Node : ~IsWayBack(p), pos > 1  PROVE FALSE
  <2>1. IsIn(trace[con][pos - 1], parents[at]) /\ trace[con][pos - 1] \in Node
    BY <1>5, <1>7
  <2>2. parents[at] # <<>>
    BY <2>1, InEmpty
  <2>3. Head(parents[at]) \in Node /\ IsIn(Head(parents[at]), parents[at])
    BY <1>3, <2>2, InSome
  <2> QED BY <2>1, <2>3, <1>7 DEF IsWayBack
<1>8. ASSUME NEW p \in Node, IsWayBack(p)
      PROVE  con \in Users(p, at) /\ use[<< p, at >>] > 0
  BY <1>4, <1>5, <1>6, <1>8 DEF IsWayBack
<1> QED BY <1>1, <1>6, <1>7, <1>8

\* One edge of a connection that is ripped up.
LEMMA StepBackRInv ==
  ASSUME TypeOK, RInv, StepBack
  PROVE  RInv'
<1>1. /\ pc = "ripping" /\ pc' = "ripping" /\ pos' = pos - 1
      /\ UNCHANGED << mapped, inGraph, trace, con >>
  BY DEF StepBack
<1>2. PICK p \in Node : IsWayBack(p) /\ RipEdge(p) /\ at' = p
  BY DEF StepBack
<1>3. /\ Routing /\ Lists /\ MapIsRight /\ Walking /\ OwnPins /\ con \in Con
      /\ trace[con] # <<>> /\ pos \in 1 .. Len(trace[con]) - 1 /\ at = trace[con][pos]
      /\ at \in Node /\ Len(trace[con]) \in Nat
  BY <1>1, TraceIs DEF RInv, Routing, Walking, TypeOK
<1>4. pos > 1 /\ p = trace[con][pos - 1] /\ con \in Users(p, at) /\ use[<< p, at >>] > 0
  BY <1>1, <1>2, WayBackIs
<1>5. Entered(con) = pos /\ Entered(con)' = pos - 1 /\ \A c \in Con \ {con} : Entered(c)' = Entered(c)
  BY <1>1, <1>3 DEF Entered
<1>6. \A a, b \in Node : Users(a, b)' = IF a = p /\ b = at THEN Users(a, b) \ {con} ELSE Users(a, b)
  <2> SUFFICES ASSUME NEW a \in Node, NEW b \in Node, NEW c \in Con
               PROVE  RunsOver(c, << a, b >>)' <=>
                        RunsOver(c, << a, b >>) /\ ~(a = p /\ b = at /\ c = con)
    BY <1>1 DEF Users
  <2>1. CASE c # con
    BY <2>1, <1>1, <1>5 DEF RunsOver
  <2>2. CASE c = con
    <3>1. RunsOver(con, << a, b >>) <=>
            \E k \in 1 .. pos - 1 : << trace[con][k], trace[con][k + 1] >> = << a, b >>
      BY <1>5 DEF RunsOver
    <3>2. RunsOver(con, << a, b >>)' <=>
            \E k \in 1 .. (pos - 1) - 1 : << trace[con][k], trace[con][k + 1] >> = << a, b >>
      BY <1>1, <1>5 DEF RunsOver
    <3>3. \A k \in 1 .. pos - 1 : k \in 1 .. (pos - 1) - 1 \/ k = pos - 1
      BY <1>3
    <3>4. \A k \in 1 .. (pos - 1) - 1 : k \in 1 .. pos - 1 /\ k # pos - 1 /\ k \in 1 .. Len(trace[con])
      BY <1>3
    <3>5. (pos - 1) + 1 = pos /\ pos - 1 \in 1 .. Len(trace[con])
      BY <1>3, <1>4
    <3>6. \A i, j \in 1 .. Len(trace[con]) : trace[con][i] = trace[con][j] => i = j
      BY <1>3, TraceIs
    <3>7. \A k \in 1 .. (pos - 1) - 1 : trace[con][k] # p
      BY <1>4, <3>4, <3>5, <3>6
    <3>8. trace[con][pos - 1] = p /\ trace[con][(pos - 1) + 1] = at
      BY <1>3, <1>4, <3>5
    <3>9. (\E k \in 1 .. (pos - 1) - 1 : << trace[con][k], trace[con][k + 1] >> = << a, b >>)
            => (\E k \in 1 .. pos - 1 : << trace[con][k], trace[con][k + 1] >> = << a, b >>) /\ a # p
      BY <3>4, <3>7
    <3>10. ASSUME NEW k \in 1 .. pos - 1, << trace[con][k], trace[con][k + 1] >> = << a, b >>,
                  ~(a = p /\ b = at)
           PROVE  k \in 1 .. (pos - 1) - 1
      BY <3>3, <3>8, <3>10
    <3> QED BY <1>1, <2>2, <3>1, <3>2, <3>8, <3>9, <3>10
  <2> QED BY <2>1, <2>2
<1>7. << p, at >> \in Edge /\ use \in [Edge -> Nat] /\ parents \in [Node -> Seq(Node)]
      /\ children \in [Node -> Seq(Node)]
  BY <1>2, <1>3 DEF Edge, TypeOK
<1>8. use' = [use EXCEPT ![<< p, at >>] = use[<< p, at >>] - 1]
  BY <1>2, <1>4, <1>7 DEF RipEdge
<1>9. use'[<< p, at >>] = use[<< p, at >>] - 1 /\ use[<< p, at >>] \in Nat
      /\ \A e \in Edge : e # << p, at >> => use'[e] = use[e]
  BY <1>7, <1>8
<1>10. \A n \in Node : IsInjective(children[n]) /\ IsInjective(parents[n])
  BY <1>3 DEF Lists
<1>11. IsIn(at, children[p]) /\ IsIn(p, parents[at])
  BY <1>2, <1>3, <1>4 DEF Lists
<1>12. /\ \A n \in Node : IsInjective(children'[n]) /\ IsInjective(parents'[n])
       /\ \A a, b \in Node :
            /\ IsIn(b, children'[a]) <=> IsIn(b, children[a]) /\ ~(a = p /\ b = at /\ use[<< p, at >>] = 1)
            /\ IsIn(a, parents'[b]) <=> IsIn(a, parents[b]) /\ ~(a = p /\ b = at /\ use[<< p, at >>] = 1)
  <2>1. CASE use[<< p, at >>] = 1
    <3>1. /\ parents' = [parents EXCEPT ![at] = Without(parents[at], p)]
          /\ children' = [children EXCEPT ![p] = Without(children[p], at)]
      BY <1>2, <2>1 DEF RipEdge
    <3>2. /\ children'[p] = Without(children[p], at) /\ \A n \in Node \ {p} : children'[n] = children[n]
          /\ parents'[at] = Without(parents[at], p) /\ \A n \in Node \ {at} : parents'[n] = parents[n]
          /\ children[p] \in Seq(Node) /\ parents[at] \in Seq(Node)
      BY <1>2, <1>3, <1>7, <3>1
    <3>3. IsInjective(children'[p]) /\ \A m : IsIn(m, children'[p]) <=> IsIn(m, children[p]) /\ m # at
      BY <1>2, <1>10, <3>2, WithoutIs
    <3>4. IsInjective(parents'[at]) /\ \A m : IsIn(m, parents'[at]) <=> IsIn(m, parents[at]) /\ m # p
      BY <1>3, <1>10, <3>2, WithoutIs
    <3> QED BY <1>10, <2>1, <3>2, <3>3, <3>4
  <2>2. CASE use[<< p, at >>] # 1
    <3>1. UNCHANGED << children, parents >>
      BY <1>2, <2>2 DEF RipEdge
    <3> QED BY <3>1, <2>2, <1>10
  <2> QED BY <2>1, <2>2
<1>13. Lists'
  <2> SUFFICES ASSUME NEW a \in Node, NEW b \in Node
               PROVE  /\ use'[<< a, b >>] = Cardinality(Users(a, b)')
                      /\ IsIn(b, children'[a]) <=> use'[<< a, b >>] > 0
                      /\ IsIn(a, parents'[b]) <=> use'[<< a, b >>] > 0
    BY <1>12 DEF Lists
  <2>1. /\ use[<< a, b >>] = Cardinality(Users(a, b))
        /\ IsIn(b, children[a]) <=> use[<< a, b >>] > 0
        /\ IsIn(a, parents[b]) <=> use[<< a, b >>] > 0
    BY <1>3 DEF Lists
  <2>2. CASE a = p /\ b = at
    <3>1. Users(a, b) \in SUBSET Con /\ con \in Users(a, b)
      BY <1>4, <2>2 DEF Users
    <3>2. Cardinality(Users(a, b) \ {con}) = Cardinality(Users(a, b)) - 1
      BY <3>1, SomeConnections
    <3>3. Users(a, b)' = Users(a, b) \ {con}
      BY <1>6, <2>2
    <3>4. use'[<< a, b >>] = use[<< a, b >>] - 1 /\ use[<< a, b >>] \in Nat /\ use[<< a, b >>] > 0
      BY <1>4, <1>9, <2>2
    <3>5. use'[<< a, b >>] > 0 <=> use[<< a, b >>] # 1
      BY <3>4
    <3>6. IsIn(b, children[a]) /\ IsIn(a, parents[b])
      BY <1>11, <2>2
    <3> QED BY <2>1, <2>2, <3>2, <3>3, <3>4, <3>5, <3>6, <1>12
  <2>3. CASE ~(a = p /\ b = at)
    <3>1. Users(a, b)' = Users(a, b)
      BY <1>6, <2>3
    <3>2. use'[<< a, b >>] = use[<< a, b >>]
      BY <1>9, <2>3 DEF Edge
    <3> QED BY <2>1, <2>3, <3>1, <3>2, <1>12
  <2> QED BY <2>2, <2>3
<1>14. MapIsRight'
  <2>1. \A c \in Con : Counted(c)' <=> Counted(c)
    BY <1>1 DEF Counted
  <2>2. \A n \in Node : Holders(n)' = Holders(n)
    BY <1>1, <2>1 DEF Holders
  <2>3. \A c \in Con : Counted(c) => c # con
    BY <1>1 DEF Counted
  <2> QED BY <1>1, <1>3, <1>5, <2>1, <2>2, <2>3 DEF MapIsRight
<1>15. Walking'
  <2>1. pos - 1 \in 1 .. Len(trace[con]) - 1
    BY <1>3, <1>4
  <2> QED BY <1>1, <1>2, <1>3, <1>4, <2>1 DEF Walking
<1>16. OwnPins'
  BY <1>1, <1>3 DEF OwnPins, Complete, PinOf
<1> QED BY <1>13, <1>14, <1>15, <1>16 DEF RInv

\* The end of ripping up a connection: the whole trace has been walked.
LEMMA RippedUpRInv ==
  ASSUME TypeOK, RInv, RippedUp
  PROVE  RInv'
<1>1. /\ pc = "ripping" /\ pc' = "idle" /\ trace' = [trace EXCEPT ![con] = <<>>]
      /\ UNCHANGED << children, parents, use, lists, mapped, inGraph, con, pos >>
      /\ \A p \in Node : ~IsWayBack(p)
  BY DEF RippedUp, lists, walk
<1>2. /\ Routing /\ Lists /\ MapIsRight /\ Walking /\ OwnPins /\ con \in Con
      /\ trace[con] # <<>> /\ pos = 1
  BY <1>1, WayBackIs DEF RInv, Routing, Walking, TypeOK
<1>3. trace'[con] = <<>> /\ \A c \in Con \ {con} : trace'[c] = trace[c]
  BY <1>1, <1>2 DEF TypeOK
<1>4. Entered(con) = 1 /\ Entered(con)' = 0 /\ \A c \in Con \ {con} : Entered(c)' = Entered(c)
  BY <1>1, <1>2, <1>3 DEF Entered
<1>5. Lists'
  <2>1. \A c \in Con : \/ Entered(c)' = Entered(c) /\ trace'[c] = trace[c]
                       \/ Entered(c) \in {0, 1} /\ Entered(c)' \in {0, 1}
    <3>1. \A c \in Con \ {con} : Entered(c)' = Entered(c) /\ trace'[c] = trace[c]
      BY <1>3, <1>4
    <3>2. Entered(con) \in {0, 1} /\ Entered(con)' \in {0, 1}
      BY <1>4
    <3> QED BY <1>1, <3>1, <3>2
  <2> QED BY <1>1, <1>2, <2>1, ListsStay
<1>6. ~Counted(con) /\ ~Counted(con)' /\ \A c \in Con \ {con} : Counted(c)' <=> Counted(c)
  BY <1>1, <1>3 DEF Counted
<1>7. \A n \in Node : Holders(n)' = Holders(n)
  <2>1. \A n \in Node : \A c \in Con \ {con} :
          Counted(c)' /\ IsIn(n, trace'[c]) <=> Counted(c) /\ IsIn(n, trace[c])
    BY <1>3, <1>6
  <2> QED BY <1>1, <2>1, <1>6 DEF Holders
<1>8. MapIsRight'
  BY <1>1, <1>2, <1>3, <1>4, <1>6, <1>7 DEF MapIsRight
<1>9. Walking'
  BY <1>1 DEF Walking
<1>10. OwnPins'
  BY <1>1, <1>2, <1>3 DEF OwnPins, Complete, PinOf
<1> QED BY <1>5, <1>8, <1>9, <1>10 DEF RInv

\* The walk can only go astray on its last step: below the last node but two of another
\* trace there is an edge to go on from.
LEMMA StrayPin ==
  ASSUME TypeOK, RInv, Stray
  PROVE  StrayNeedsSharedPin'
<1>1. /\ pc = "matching" /\ mapped[Ahead] > 1
      /\ Ahead \notin inGraph \/ children[at] = <<>>
      /\ UNCHANGED << trace, con, pos >> /\ Adding
  BY DEF Stray, Leaves, graph, walk, Adding
<1>2. /\ Routing /\ Lists /\ Walking /\ con \in Con
      /\ trace[con] # <<>> /\ pos \in 2 .. Len(trace[con])
      /\ Ahead = trace[con][pos] /\ at = trace[con][pos - 1] /\ at \in Node
      /\ Ahead \in Sink <=> pos = Len(trace[con])
      /\ Ahead \in inGraph <=>
            \E c \in Con \ {con} : \E k \in 1 .. Len(trace[c]) - 1 : trace[c][k] = Ahead
  BY <1>1, AheadIs DEF RInv, Adding, Routing, Walking, TypeOK
<1>3. PICK d \in Con \ {con} : trace[d] # <<>> /\ IsIn(Ahead, trace[d])
  BY <1>1, AheadIs
<1>4. \A c \in Con : trace[c] # <<>> =>
        /\ Len(trace[c]) \in Nat /\ Len(trace[c]) >= 3 /\ DOMAIN trace[c] = 1 .. Len(trace[c])
        /\ \A k \in 1 .. Len(trace[c]) : trace[c][k] \in Node
        /\ trace[c][1] = Source
        /\ \A k \in 1 .. Len(trace[c]) : trace[c][k] \in Sink <=> k = Len(trace[c])
        /\ \A i, j \in 1 .. Len(trace[c]) : trace[c][i] = trace[c][j] => i = j
        /\ FirstEdge[trace[c][Len(trace[c]) - 1]] \in Sink
        /\ \A k \in 1 .. Len(trace[c]) - 1 : FirstEdge[trace[c][k]] \in Sink => k = Len(trace[c]) - 1
        /\ PinOf(c) = trace[c][Len(trace[c]) - 1]
  <2> SUFFICES ASSUME NEW c \in Con, trace[c] # <<>>
               PROVE  /\ Len(trace[c]) \in Nat /\ Len(trace[c]) >= 3 /\ DOMAIN trace[c] = 1 .. Len(trace[c])
                      /\ \A k \in 1 .. Len(trace[c]) : trace[c][k] \in Node
                      /\ trace[c][1] = Source
                      /\ \A k \in 1 .. Len(trace[c]) : trace[c][k] \in Sink <=> k = Len(trace[c])
                      /\ \A i, j \in 1 .. Len(trace[c]) : trace[c][i] = trace[c][j] => i = j
                      /\ FirstEdge[trace[c][Len(trace[c]) - 1]] \in Sink
                      /\ \A k \in 1 .. Len(trace[c]) - 1 : FirstEdge[trace[c][k]] \in Sink => k = Len(trace[c]) - 1
                      /\ PinOf(c) = trace[c][Len(trace[c]) - 1]
    OBVIOUS
  <2> DEFINE p == trace[c]
             L == Len(p)
  <2>1. /\ L \in Nat /\ L >= 3 /\ DOMAIN p = 1 .. L
        /\ \A k \in 1 .. L : p[k] \in Node
        /\ p[1] = Source
        /\ \A k \in 1 .. L : p[k] \in Sink <=> k = L
        /\ \A i, j \in 1 .. L : p[i] = p[j] => i = j
        /\ FirstEdge[p[L - 1]] = p[L] /\ p[L] \in Sink
        /\ \A k \in 1 .. L - 1 : FirstEdge[p[k]] \in Sink => k = L - 1
        /\ PinOf(c) = p[L - 1]
    BY TraceIs
  <2> HIDE DEF L
  <2>2. FirstEdge[p[L - 1]] \in Sink
    BY <2>1
  <2> QED BY <2>1, <2>2 DEF L
<1>5. ASSUME NEW c \in Con \ {con}, NEW k \in 1 .. Len(trace[c]) - 2, trace[c][k] = at
      PROVE  children[at] # <<>>
  <2>1. trace[c] # <<>> /\ Entered(c) = Len(trace[c]) - 1 /\ Len(trace[c]) \in Nat
    BY <1>2, <1>4, <1>5, EnteredIs
  <2>2. k + 1 <= Entered(c) /\ k + 1 \in 1 .. Len(trace[c])
    BY <2>1
  <2>3. trace[c][k + 1] \in Node
    BY <1>4, <2>1, <2>2
  <2> DEFINE b == trace[c][k + 1]
  <2>4. c \in Users(at, b)
    <3>1. << trace[c][k], trace[c][k + 1] >> = << at, b >> /\ k \in 1 .. Entered(c) - 1
      BY <2>1, <1>5
    <3> QED BY <3>1 DEF Users, RunsOver
  <2> HIDE DEF b
  <2>5. IsIn(b, children[at])
    <3>1. b \in Node /\ Users(at, b) # {}
      BY <2>3, <2>4 DEF b
    <3>2. use[<< at, b >>] > 0
      BY <1>2, <3>1, UsersIs
    <3> QED BY <1>2, <3>1, <3>2 DEF Lists
  <2> QED BY <2>5, InEmpty
<1>6. ASSUME Ahead \in Sink
      PROVE  \E c \in Con \ {con} : trace[c] # <<>> /\ PinOf(c) = PinOf(con)
  <2>1. pos = Len(trace[con]) /\ at = PinOf(con)
    BY <1>2, <1>6 DEF PinOf
  <2>2. at # Source
    <3>1. pos - 1 \in 1 .. Len(trace[con]) /\ 1 \in 1 .. Len(trace[con]) /\ pos - 1 # 1
      BY <1>2, <1>4, <2>1
    <3>2. \A i, j \in 1 .. Len(trace[con]) : trace[con][i] = trace[con][j] => i = j
      BY <1>2, TraceIs
    <3>3. trace[con][1] = Source
      BY <1>2, TraceIs
    <3> QED BY <3>1, <3>2, <3>3, <1>2
  <2>3. PICK c \in Con \ {con} : \E k \in 1 .. Len(trace[c]) - 1 : trace[c][k] = at
    BY <1>1, <1>2, <2>2 DEF Walking
  <2>4. PICK k \in 1 .. Len(trace[c]) - 1 : trace[c][k] = PinOf(con)
    BY <2>1, <2>3
  <2>5. trace[c] # <<>>
    BY <2>4
  <2>6. PinOf(c) = PinOf(con)
    BY <1>2, <2>4, <2>5, SharedPin
  <2> QED BY <2>5, <2>6
<1>7. CASE Ahead \notin inGraph
  <2>1. PICK k \in 1 .. Len(trace[d]) : trace[d][k] = Ahead
    BY <1>3, <1>4 DEF IsIn
  <2>2. ~(k \in 1 .. Len(trace[d]) - 1)
    BY <1>2, <1>7, <2>1
  <2>3. k = Len(trace[d])
    BY <1>3, <1>4, <2>1, <2>2
  <2>4. Ahead \in Sink
    BY <1>3, <1>4, <2>1, <2>3
  <2> QED BY <1>1, <1>6, <2>4 DEF StrayNeedsSharedPin, PinOf, Ahead
<1>8. CASE children[at] = <<>>
  <2>1. at # Source
    <3>1. 1 \in 1 .. Len(trace[d]) - 2 /\ trace[d][1] = Source
      BY <1>3, <1>4
    <3> QED BY <3>1, <1>5, <1>8
  <2>2. PICK c \in Con \ {con} : \E k \in 1 .. Len(trace[c]) - 1 : trace[c][k] = at
    BY <1>1, <1>2, <2>1 DEF Walking
  <2>3. PICK k \in 1 .. Len(trace[c]) - 1 : trace[c][k] = at
    BY <2>2
  <2>4. trace[c] # <<>> /\ k \notin 1 .. Len(trace[c]) - 2
    BY <2>3, <1>5, <1>8
  <2>5. k = Len(trace[c]) - 1
    BY <2>3, <2>4, <1>4
  <2>6. FirstEdge[at] \in Sink /\ PinOf(c) = at
    BY <1>4, <2>3, <2>4, <2>5
  <2>7. pos - 1 \in 1 .. Len(trace[con]) - 1
    BY <1>2, <1>4
  <2>8. pos - 1 = Len(trace[con]) - 1
    BY <1>2, <1>4, <2>6, <2>7
  <2>9. Ahead \in Sink
    BY <1>2, <1>4, <2>8
  <2> QED BY <1>1, <1>6, <2>9 DEF StrayNeedsSharedPin, PinOf, Ahead
<1> QED BY <1>1, <1>7, <1>8

RoutingStep ==
  \/ \E c \in Con : Add(c) \/ RipUp(c)
  \/ Follow \/ SwitchBranches \/ NewPart \/ Extend \/ Reconnect \/ Added
  \/ StepBack \/ RippedUp

\* The steps made while the net is routed keep the types ...
LEMMA RoutingTypes ==
  ASSUME TypeOK, RInv, RoutingStep
  PROVE  TypeOK'
<1>0. Source \in Node /\ None \notin Node
  BY PathAssumption
<1> USE DEF TypeOK
<1>1. ASSUME NEW c \in Con, Add(c)  PROVE TypeOK'
  <2>1. PICK p \in Paths[c] : /\ trace' = [trace EXCEPT ![c] = p]
                              /\ mapped' = [n \in Node |-> IF IsIn(n, p) THEN mapped[n] + 1 ELSE mapped[n]]
    BY <1>1 DEF Add
  <2>2. p \in Seq(Node)
    BY PathAssumption
  <2>3. trace' \in [Con -> Seq(Node)] /\ mapped' \in [Node -> Nat]
        /\ \A d \in Con : trace'[d] # <<>> => trace'[d] \in Paths[d]
    <3>1. mapped \in [Node -> Nat] /\ trace \in [Con -> Seq(Node)]
          /\ \A d \in Con : trace[d] # <<>> => trace[d] \in Paths[d]
      OBVIOUS
    <3> HIDE DEF TypeOK
    <3>2. \A n \in Node : mapped[n] + 1 \in Nat /\ mapped[n] \in Nat
      BY <3>1
    <3>3. mapped' \in [Node -> Nat]
      BY <2>1, <3>2
    <3>4. trace' \in [Con -> Seq(Node)] /\ \A d \in Con : trace'[d] # <<>> => trace'[d] \in Paths[d]
      BY <2>1, <2>2, <3>1
    <3> QED BY <3>3, <3>4
  <2>4. con' = c /\ at' = Source /\ pos' = 2 /\ pc' = "matching"
        /\ UNCHANGED << children, parents, use, inGraph, stack, back, marked, cuts, out >>
    BY <1>1 DEF Add, lists, prune
  <2> QED BY <2>3, <2>4, <1>0
<1>2. ASSUME NEW c \in Con, RipUp(c)  PROVE TypeOK'
  <2>1. /\ pc = "idle" /\ trace[c] # <<>>
        /\ mapped' = [n \in Node |-> IF IsIn(n, trace[c]) THEN mapped[n] - 1 ELSE mapped[n]]
        /\ inGraph' = { n \in inGraph : mapped'[n] > 0 }
        /\ con' = c /\ pos' = Len(trace[c]) - 1 /\ at' = trace[c][pos'] /\ pc' = "ripping"
        /\ UNCHANGED << children, parents, use, trace, stack, back, marked, cuts, out >>
    BY <1>2 DEF RipUp, lists, prune
  <2>2. ASSUME NEW n \in Node, IsIn(n, trace[c])  PROVE mapped[n] - 1 \in Nat
    <3>1. c \in Holders(n) /\ Holders(n) \in SUBSET Con
      BY <2>1, <2>2 DEF Holders, Counted
    <3>2. mapped[n] = (IF n = Source THEN 1 ELSE 0) + Cardinality(Holders(n))
      BY <2>1 DEF RInv, Routing, MapIsRight
    <3>3. Cardinality(Holders(n)) \in Nat /\ Cardinality(Holders(n)) # 0
      BY <3>1, SomeConnections
    <3> HIDE DEF TypeOK
    <3> QED BY <3>2, <3>3
  <2>3. mapped' \in [Node -> Nat] /\ inGraph' \subseteq Node \ Sink
    BY <2>1, <2>2
  <2>4. Len(trace[c]) \in Nat /\ Len(trace[c]) >= 3 /\ \A k \in 1 .. Len(trace[c]) : trace[c][k] \in Node
    BY <2>1, TraceIs
  <2>5. pos' \in Nat /\ at' \in Node
    <3>0. \A l \in Nat : l >= 3 => l - 1 \in 1 .. l /\ l - 1 \in Nat
      OBVIOUS
    <3>1. pos' \in 1 .. Len(trace[c]) /\ pos' \in Nat
      BY <2>1, <2>4, <3>0
    <3> QED BY <2>1, <2>4, <3>1
  <2> QED BY <2>1, <2>3, <2>5
<1>3. ASSUME Follow \/ SwitchBranches \/ NewPart \/ Extend \/ Reconnect  PROVE TypeOK'
  <2>1. Adding
    BY <1>3 DEF Follow, SwitchBranches, NewPart, Leaves, Extend, Reconnect, Adding
  <2>2. at \in Node /\ Ahead \in Node
    BY <2>1, AheadIs
  <2>3. Ahead \notin Sink \/ ~NewPart
    <3>1. NewPart => RInv' /\ pc' = "extending" /\ inGraph' = inGraph \cup {Ahead}
                     /\ at' = Ahead /\ UNCHANGED << trace, con >> /\ pos' = pos + 1 /\ pc = "matching"
      BY NewPartRInv DEF NewPart, Leaves
    <3>2. ASSUME NewPart  PROVE Ahead \notin Sink
      <4>1. pos + 1 \in 2 .. Len(trace[con])
        BY <3>1, <3>2 DEF RInv, Walking, Routing
      <4>2. /\ Ahead \in Sink <=> pos = Len(trace[con])
            /\ pos \in 2 .. Len(trace[con]) /\ trace[con] # <<>>
        BY <2>1, AheadIs DEF RInv, Routing, Walking, Adding
      <4>3. Len(trace[con]) \in Nat
        OBVIOUS
      <4> QED BY <4>1, <4>2, <4>3
    <3> QED BY <3>2
  <2>4. Append(children[at], Ahead) \in Seq(Node) /\ << Ahead >> \o children[at] \in Seq(Node)
        /\ << Ahead >> \in Seq(Node) /\ << at >> \in Seq(Node) /\ << at >> \o parents[Ahead] \in Seq(Node)
        /\ <<>> \in Seq(Node)
    BY <2>2
  <2>5. children' \in [Node -> Seq(Node)] /\ parents' \in [Node -> Seq(Node)]
    <3>1. children \in [Node -> Seq(Node)] /\ parents \in [Node -> Seq(Node)]
      OBVIOUS
    <3> HIDE DEF TypeOK
    <3>2. \/ children' = children
          \/ children' = [children EXCEPT ![at] = Append(children[at], Ahead)]
          \/ children' = [children EXCEPT ![at] = << Ahead >> \o children[at], ![Ahead] = <<>>]
          \/ children' = [children EXCEPT ![at] = << Ahead >>, ![Ahead] = <<>>]
          \/ children' = [children EXCEPT ![at] = << Ahead >>]
      BY <1>3 DEF Follow, SwitchBranches, NewPart, Leaves, Extend, Reconnect
    <3>3. \/ parents' = parents
          \/ parents' = [parents EXCEPT ![Ahead] = << at >> \o parents[Ahead]]
          \/ parents' = [parents EXCEPT ![Ahead] = << at >>]
      BY <1>3 DEF Follow, SwitchBranches, NewPart, Leaves, Extend, Reconnect
    <3>4. children' \in [Node -> Seq(Node)]
      BY <2>4, <3>1, <3>2
    <3>5. parents' \in [Node -> Seq(Node)]
      BY <2>4, <3>1, <3>3
    <3> QED BY <3>4, <3>5
  <2>6. use' \in [Edge -> Nat]
    <3>1. use[<< at, Ahead >>] + 1 \in Nat /\ 1 \in Nat
      BY <2>2, SMTT(30) DEF Edge
    <3>2. use' = [use EXCEPT ![<< at, Ahead >>] = use[<< at, Ahead >>] + 1]
          \/ use' = [use EXCEPT ![<< at, Ahead >>] = 1]
      BY <1>3 DEF Follow, SwitchBranches, NewPart, Leaves, Extend, Reconnect
    <3>3. use \in [Edge -> Nat]
      OBVIOUS
    <3> HIDE DEF TypeOK
    <3> QED BY <3>1, <3>2, <3>3
  <2>7. inGraph' \subseteq Node \ Sink
    BY <1>3, <2>2, <2>3 DEF Follow, SwitchBranches, NewPart, Leaves, Extend, Reconnect
  <2>8. at' \in Node /\ pos' \in Nat /\ pc' \in {"matching", "extending"}
        /\ UNCHANGED << mapped, trace, con, stack, back, marked, cuts, out >>
    <3>1. pos \in Nat
      OBVIOUS
    <3> HIDE DEF TypeOK
    <3>2. at' = Ahead /\ pos' = pos + 1
      BY <1>3 DEF Follow, SwitchBranches, NewPart, Leaves, Extend, Reconnect
    <3>3. pc' \in {"matching", "extending"}
      BY <1>3 DEF Follow, SwitchBranches, NewPart, Leaves, Extend, Reconnect
    <3>4. UNCHANGED << mapped, trace, con, stack, back, marked, cuts, out >>
      BY <1>3 DEF Follow, SwitchBranches, NewPart, Leaves, Extend, Reconnect, prune
    <3> QED BY <2>2, <3>1, <3>2, <3>3, <3>4
  <2> QED BY <2>5, <2>6, <2>7, <2>8
<1>4. ASSUME Added  PROVE TypeOK'
  BY <1>4 DEF Added, graph, lists, walk, prune
<1>5. ASSUME StepBack  PROVE TypeOK'
  <2>1. PICK p \in Node : IsWayBack(p) /\ RipEdge(p) /\ at' = p
    BY <1>5 DEF StepBack
  <2>2. pc = "ripping" /\ pc' = pc /\ pos' = pos - 1
        /\ UNCHANGED << mapped, inGraph, trace, con, stack, back, marked, cuts, out >>
    BY <1>5 DEF StepBack, prune
  <2>3. pos > 1 /\ use[<< p, at >>] > 0
    BY <2>1, <2>2, WayBackIs
  <2>4. pos - 1 \in Nat
    BY <2>3
  <2>5. use[<< p, at >>] - 1 \in Nat /\ 0 \in Nat
    BY <2>1, <2>3, SMTT(30) DEF Edge
  <2>6. use' \in [Edge -> Nat]
    <3>1. use' = [use EXCEPT ![<< p, at >>] = use[<< p, at >>] - 1]
          \/ use' = [use EXCEPT ![<< p, at >>] = 0]
      BY <2>1 DEF RipEdge
    <3>2. use \in [Edge -> Nat]
      OBVIOUS
    <3> HIDE DEF TypeOK
    <3> QED BY <2>5, <3>1, <3>2
  <2>7. IsInjective(children[p]) /\ IsInjective(parents[at])
    BY <2>1, <2>2 DEF RInv, Routing, Lists
  <2>8. Without(parents[at], p) \in Seq(Node) /\ Without(children[p], at) \in Seq(Node)
    BY <2>1, <2>7, WithoutIs
  <2>9. children' \in [Node -> Seq(Node)] /\ parents' \in [Node -> Seq(Node)]
    BY <2>1, <2>8 DEF RipEdge
  <2> QED BY <2>1, <2>2, <2>4, <2>6, <2>9
<1>6. ASSUME RippedUp  PROVE TypeOK'
  <2>1. trace' = [trace EXCEPT ![con] = <<>>] /\ pc' = "idle"
        /\ UNCHANGED << children, parents, use, mapped, inGraph, con, at, pos, stack, back, marked, cuts, out >>
    BY <1>6 DEF RippedUp, lists, walk, prune
  <2>2. trace' \in [Con -> Seq(Node)] /\ \A d \in Con : trace'[d] # <<>> => trace'[d] \in Paths[d]
    BY <2>1, SMTT(30)
  <2> QED BY <2>1, <2>2
<1> QED BY <1>1, <1>2, <1>3, <1>4, <1>5, <1>6 DEF RoutingStep

\* ... and the invariant.
LEMMA RoutingIInv ==
  ASSUME IInv, RoutingStep \/ Stray
  PROVE  IInv'
<1>1. CASE RoutingStep
  <2>1. TypeOK'
    BY <1>1, RoutingTypes DEF IInv
  <2>2. RInv'
    BY <1>1, FollowRInv, SwitchBranchesRInv, NewPartRInv, ExtendRInv, AddedRInv, AddRInv, RipUpRInv,
       StepBackRInv, RippedUpRInv DEF IInv, RoutingStep
  <2>3. pc' \in {"idle", "matching", "extending", "ripping"}
    BY <1>1 DEF RoutingStep, Add, RipUp, Follow, SwitchBranches, NewPart, Leaves, Extend, Reconnect, Added,
                StepBack, RippedUp
  <2> QED BY <2>1, <2>2, <2>3 DEF IInv, PInv, WInv, CInv, Pruned
<1>2. CASE Stray
  <2>1. pc' = "crashed" /\ UNCHANGED << graph, walk, prune, out >>
    BY <1>2 DEF Stray
  <2>2. TypeOK'
    BY <2>1 DEF IInv, TypeOK, graph, lists, walk, prune
  <2>3. StrayNeedsSharedPin'
    BY <1>2, StrayPin DEF IInv
  <2> QED BY <2>1, <2>2, <2>3 DEF IInv, RInv, Routing, PInv, WInv, CInv, Pruned
<1> QED BY <1>1, <1>2

-----------------------------------------------------------------------------
(* Edges of the union of the traces *)

\* An edge never comes back to the SOURCE, an IPIN has no edge to another node of the
\* graph, and the node in front of any other one is an edge of the same trace.
LEMMA OrigIs ==
  ASSUME TypeOK, Complete0
  PROVE  /\ \A a, b \in Node : Orig(a, b) => a # b /\ b # Source /\ a \notin Sink /\ b \notin Sink /\ a \notin Pins
         /\ \A c \in Con : \A k \in 1 .. Len(trace[c]) - 2 : Orig(trace[c][k], trace[c][k + 1])
         /\ \A a, b \in Node : Orig(a, b) /\ a # Source => \E m \in Node : Orig(m, a)
         /\ Pins \subseteq Node \ (Sink \cup {Source})
         /\ \A n \in Pins : \E c \in Con : n = PinOf(c)
<1>1. \A c \in Con : trace[c] # <<>>
  BY DEF Complete0
<1>2. ASSUME NEW c \in Con, NEW k \in 1 .. Len(trace[c]) - 2
      PROVE  /\ trace[c][k] \in Node /\ trace[c][k + 1] \in Node
             /\ trace[c][k] # trace[c][k + 1] /\ trace[c][k + 1] # Source
             /\ trace[c][k] \notin Sink /\ trace[c][k + 1] \notin Sink
             /\ FirstEdge[trace[c][k]] \notin Sink
             /\ trace[c][k] # Source => k - 1 \in 1 .. Len(trace[c]) - 2 /\ trace[c][k - 1] \in Node
                                        /\ (k - 1) + 1 = k
  <2> DEFINE p == trace[c]
             L == Len(p)
  <2>1. /\ L \in Nat /\ L >= 3
        /\ \A i \in 1 .. L : p[i] \in Node
        /\ p[1] = Source
        /\ \A i \in 1 .. L : p[i] \in Sink <=> i = L
        /\ \A i, j \in 1 .. L : p[i] = p[j] => i = j
        /\ \A i \in 1 .. L - 1 : FirstEdge[p[i]] \in Sink => i = L - 1
    BY <1>1, TraceIs
  <2> HIDE DEF p, L
  <2>2. k \in 1 .. L - 2
    BY DEF p, L
  <2>3. k \in 1 .. L /\ k + 1 \in 1 .. L /\ 1 \in 1 .. L /\ k # L /\ k + 1 # L /\ k # k + 1 /\ k + 1 # 1
        /\ k \in 1 .. L - 1 /\ k # L - 1 /\ k \in Int
    BY <2>1, <2>2
  <2>4. k # 1 => k - 1 \in 1 .. L - 2 /\ k - 1 \in 1 .. L /\ (k - 1) + 1 = k
    BY <2>1, <2>2
  <2> QED BY <2>1, <2>3, <2>4 DEF p, L
<1>3. \A c \in Con : /\ PinOf(c) \in Node \ Sink /\ PinOf(c) # Source
                     /\ FirstEdge[PinOf(c)] \in Sink
  <2> SUFFICES ASSUME NEW c \in Con
               PROVE  /\ PinOf(c) \in Node \ Sink /\ PinOf(c) # Source
                      /\ FirstEdge[PinOf(c)] \in Sink
    OBVIOUS
  <2> DEFINE p == trace[c]
             L == Len(p)
  <2>1. /\ L \in Nat /\ L >= 3
        /\ \A i \in 1 .. L : p[i] \in Node
        /\ p[1] = Source
        /\ \A i \in 1 .. L : p[i] \in Sink <=> i = L
        /\ \A i, j \in 1 .. L : p[i] = p[j] => i = j
        /\ FirstEdge[p[L - 1]] = p[L] /\ p[L] \in Sink
        /\ PinOf(c) = p[L - 1]
    BY <1>1, TraceIs
  <2> HIDE DEF p, L
  <2>2. L - 1 \in 1 .. L /\ L - 1 # L /\ L - 1 # 1 /\ 1 \in 1 .. L
    BY <2>1
  <2> QED BY <2>1, <2>2
<1>4. \A a, b \in Node : Orig(a, b) =>
        \E c \in Con : \E k \in 1 .. Len(trace[c]) - 2 : trace[c][k] = a /\ trace[c][k + 1] = b
  BY DEF Orig
<1>5. \A n \in Pins : \E c \in Con : n = PinOf(c)
  BY DEF Pins
<1>6. \A c \in Con : \A k \in 1 .. Len(trace[c]) - 2 : Orig(trace[c][k], trace[c][k + 1])
  BY DEF Orig
<1>7. ASSUME NEW a \in Node, NEW b \in Node, Orig(a, b)
      PROVE  /\ a # b /\ b # Source /\ a \notin Sink /\ b \notin Sink /\ a \notin Pins
             /\ a # Source => \E m \in Node : Orig(m, a)
  <2>1. PICK c \in Con : \E k \in 1 .. Len(trace[c]) - 2 : trace[c][k] = a /\ trace[c][k + 1] = b
    BY <1>4, <1>7
  <2>2. PICK k \in 1 .. Len(trace[c]) - 2 : trace[c][k] = a /\ trace[c][k + 1] = b
    BY <2>1
  <2>3. a # b /\ b # Source /\ a \notin Sink /\ b \notin Sink /\ a \notin Pins
    BY <1>2, <1>3, <1>5, <2>2
  <2>4. ASSUME a # Source  PROVE \E m \in Node : Orig(m, a)
    <3>1. k - 1 \in 1 .. Len(trace[c]) - 2 /\ trace[c][k - 1] \in Node /\ trace[c][(k - 1) + 1] = a
      BY <1>2, <2>2, <2>4
    <3>2. Orig(trace[c][k - 1], a)
      BY <1>6, <3>1
    <3> QED BY <3>1, <3>2
  <2> QED BY <2>3, <2>4
<1> QED BY <1>3, <1>5, <1>6, <1>7

\* When all connections are routed and no walk is under way, the graph is the union of
\* all traces.
LEMMA IdleOrig ==
  ASSUME TypeOK, RInv, pc = "idle", Complete0, NEW a \in Node, NEW b \in Node
  PROVE  /\ IsIn(b, children[a]) <=> Orig(a, b)
         /\ IsIn(a, parents[b]) <=> Orig(a, b)
<1>1. Lists /\ Walking /\ Routing
  BY DEF RInv, Routing
<1>2. \A c \in Con : trace[c] # <<>> /\ Entered(c) = Len(trace[c]) - 1 /\ Len(trace[c]) \in Nat
  BY TraceIs DEF Complete0, Entered
<1>3. Users(a, b) # {} => Orig(a, b)
  <2>1. \A c \in Users(a, b) : \E k \in 1 .. Len(trace[c]) - 2 : trace[c][k] = a /\ trace[c][k + 1] = b
    <3> SUFFICES ASSUME NEW c \in Users(a, b)
                 PROVE  \E k \in 1 .. Len(trace[c]) - 2 : trace[c][k] = a /\ trace[c][k + 1] = b
      OBVIOUS
    <3>1. PICK k \in 1 .. Entered(c) - 1 : << trace[c][k], trace[c][k + 1] >> = << a, b >>
      BY DEF Users, RunsOver
    <3>2. c \in Con
      BY DEF Users
    <3>3. k \in 1 .. Len(trace[c]) - 2
      BY <1>2, <3>1, <3>2
    <3> QED BY <3>1, <3>3
  <2>2. Users(a, b) \subseteq Con
    BY DEF Users
  <2> QED BY <2>1, <2>2 DEF Orig
<1>4. ASSUME Orig(a, b)  PROVE Users(a, b) # {}
  <2>1. PICK c \in Con : \E k \in 1 .. Len(trace[c]) - 2 : trace[c][k] = a /\ trace[c][k + 1] = b
    BY <1>4 DEF Orig
  <2>2. PICK k \in 1 .. Len(trace[c]) - 2 : trace[c][k] = a /\ trace[c][k + 1] = b
    BY <2>1
  <2>3. k \in 1 .. Entered(c) - 1
    BY <1>2
  <2>4. c \in Users(a, b)
    BY <2>2, <2>3 DEF Users, RunsOver
  <2> QED BY <2>4
<1>5. use[<< a, b >>] > 0 <=> Users(a, b) # {}
  BY <1>1, UsersIs
<1> QED BY <1>1, <1>3, <1>4, <1>5 DEF Lists

\* When the pruning starts the graph is the union of all traces.
LEMMA FinalizePInv ==
  ASSUME TypeOK, RInv, Finalize
  PROVE  PInv'
<1>1. /\ pc = "idle" /\ Complete0 /\ stack' = << Source >> /\ back' = None /\ marked' = {} /\ cuts' = <<>>
      /\ UNCHANGED << children, parents, trace >>
  BY DEF Finalize, graph, lists, Complete0
<1>2. \A a, b \in Node : /\ IsIn(b, children[a]) <=> Orig(a, b)
                         /\ IsIn(a, parents[b]) <=> Orig(a, b)
  BY <1>1, IdleOrig
<1>3. \A a, b \in Node : /\ Orig(a, b)' <=> Orig(a, b)
                         /\ Kept(a, b)' <=> Orig(a, b)
  BY <1>1, <1>2, InEmpty DEF Orig, Kept
<1>4. Complete0'
  BY <1>1 DEF Complete0
<1>5. Agree'
  <2>1. Lists
    BY <1>1 DEF RInv, Routing
  <2> QED BY <1>1, <1>2, <1>3, <2>1 DEF Agree, Lists
<1>6. Reached'
  <2> SUFFICES ASSUME NEW n \in Pins', NEW X \in SUBSET Node, Source \in X,
                      \A a \in X, b \in Node : Kept(a, b)' => b \in X
               PROVE  n \in X
    BY DEF Reached
  <2>1. Pins' = Pins
    BY <1>1 DEF Pins, PinOf
  <2>2. PICK c \in Con : n = PinOf(c)
    BY <1>1, <2>1, OrigIs
  <2> DEFINE p == trace[c]
             L == Len(p)
             S == { k \in 1 .. L : p[k] \in X }
  <2>3. /\ L \in Nat /\ L >= 3
        /\ \A k \in 1 .. L : p[k] \in Node
        /\ p[1] = Source /\ n = p[L - 1]
    BY <1>1, <2>2, TraceIs DEF Complete0
  <2>4. \A k \in 1 .. L - 2 : Orig(p[k], p[k + 1])
    BY <1>1, OrigIs
  <2> HIDE DEF p, L
  <2>5. 1 \in S
    BY <2>3
  <2>6. ASSUME NEW k \in 1 .. (L - 1) - 1, k \in S  PROVE k + 1 \in S
    <3>1. k \in 1 .. L - 2 /\ k \in 1 .. L /\ k + 1 \in 1 .. L
      BY <2>3
    <3>2. \A a \in X, b \in Node : Orig(a, b) => b \in X
      BY <1>3
    <3>3. p[k] \in X /\ p[k + 1] \in Node /\ Orig(p[k], p[k + 1])
      BY <2>3, <2>4, <2>6, <3>1 DEF S
    <3>4. p[k + 1] \in X
      BY <3>2, <3>3
    <3> QED BY <3>1, <3>4 DEF S
  <2> HIDE DEF S
  <2>7. 1 .. L - 1 \subseteq S
    <3>1. 1 \in Int /\ L - 1 \in Int
      BY <2>3
    <3> QED BY <2>5, <2>6, <3>1, IntervalInduct
  <2>8. L - 1 \in S
    BY <2>3, <2>7
  <2> QED BY <2>3, <2>8 DEF S
<1>7. Untouched'
  <2>1. ASSUME NEW n \in Node \ {Source}, children[n] # <<>>  PROVE parents[n] # <<>>
    <3>1. PICK b \in Node : IsIn(b, children[n])
      BY <2>1, InSome DEF TypeOK
    <3>2. PICK m \in Node : Orig(m, n)
      BY <1>1, <1>2, <3>1, OrigIs
    <3>3. IsIn(m, parents[n])
      BY <1>2, <3>2
    <3> QED BY <3>3, InEmpty
  <2> QED BY <1>1, <1>3, <2>1 DEF Untouched
<1>8. Calls' /\ Loops'
  <2>1. stack' # <<>> /\ stack'[1] = Source /\ Len(stack') = 1 /\ IsInjective(stack')
    BY <1>1 DEF IsInjective
  <2>2. 1 .. Len(stack') - 1 = {}
    BY <2>1
  <2>3. None \notin Node
    BY PathAssumption
  <2> QED BY <1>1, <2>1, <2>2, <2>3 DEF Calls, Loops
<1>9. Cutting'
  BY <1>1 DEF Cutting, IsInjective
<1> QED BY <1>4, <1>5, <1>6, <1>7, <1>8, <1>9 DEF PInv

-----------------------------------------------------------------------------
(* Pruning the graph *)

\* Places in a list.
LEMMA Places ==
  ASSUME NEW l \in Nat
  PROVE  /\ \A k \in 1 .. l - 1 : /\ k \in 1 .. l /\ k + 1 \in 1 .. l /\ k # l /\ k # k + 1
                                  /\ k + 1 = l => k = l - 1
                                  /\ k + 1 # l => k + 1 \in 1 .. l - 1
         /\ \A k \in 1 .. l : k # l => k \in 1 .. l - 1
         /\ l >= 1 => 1 \in 1 .. l /\ l \in 1 .. l /\ l - 1 \in Nat
         /\ l >= 1 /\ l # 1 => /\ l - 1 \in 1 .. l - 1 /\ l - 1 \in 1 .. l /\ (l - 1) + 1 = l /\ l - 1 # l
                              /\ l > 1 /\ 1 \in 1 .. l - 1
         /\ \A k \in 1 .. l - 2 : k \in 1 .. l - 1 /\ k + 1 \in 1 .. l - 1 /\ k < k + 1
  OBVIOUS

\* What the calls in progress are.
LEMMA StackIs ==
  ASSUME TypeOK, PInv, pc = "pruning", stack # <<>>
  PROVE  /\ Len(stack) \in Nat /\ Len(stack) >= 1 /\ DOMAIN stack = 1 .. Len(stack)
         /\ \A k \in 1 .. Len(stack) : stack[k] \in Node
         /\ stack[1] = Source /\ Top = stack[Len(stack)] /\ Top \in Node
         /\ \A n : InStack(n) <=> \E k \in 1 .. Len(stack) : stack[k] = n
         /\ \A i, j \in 1 .. Len(stack) : stack[i] = stack[j] => i = j
         /\ \A k \in 1 .. Len(stack) - 1 : stack[k] \in marked /\ Kept(stack[k], stack[k + 1])
         /\ InStack(Source) /\ InStack(Top)
         /\ Len(stack) = 1 => Top = Source
         /\ Len(stack) # 1 => Len(stack) - 1 \in 1 .. Len(stack) - 1 /\ Via \in Node /\ Kept(Via, Top)
                              /\ IsIn(Via, parents[Top]) /\ Via # Top /\ Via = stack[Len(stack) - 1]
<1>1. stack \in Seq(Node) /\ Calls /\ Agree
  BY DEF TypeOK, PInv
<1>2. Len(stack) \in Nat /\ Len(stack) >= 1 /\ DOMAIN stack = 1 .. Len(stack)
      /\ \A k \in 1 .. Len(stack) : stack[k] \in Node
  BY <1>1
<1>3. stack[1] = Source /\ IsInjective(stack)
      /\ \A k \in 1 .. Len(stack) - 1 : stack[k] \in marked /\ Kept(stack[k], stack[k + 1])
  <2>1. \A k \in 1 .. Len(stack) - 1 : k \in 1 .. Len(stack) /\ k + 1 \in 1 .. Len(stack)
    BY <1>2, Places
  <2> QED BY <1>1, <1>2, <2>1 DEF Calls
<1>4. Top = stack[Len(stack)]
  BY <1>2 DEF Top, Last
<1>5. 1 \in 1 .. Len(stack) /\ Len(stack) \in 1 .. Len(stack)
  BY <1>2
<1>6. \A n : InStack(n) <=> \E k \in 1 .. Len(stack) : stack[k] = n
  BY <1>2 DEF InStack, IsIn
<1>7. \A i, j \in 1 .. Len(stack) : stack[i] = stack[j] => i = j
  BY <1>2, <1>3 DEF IsInjective
<1>8. ASSUME Len(stack) # 1
      PROVE  Len(stack) - 1 \in 1 .. Len(stack) - 1 /\ Via \in Node /\ Kept(Via, Top)
             /\ IsIn(Via, parents[Top]) /\ Via # Top /\ Via = stack[Len(stack) - 1]
  <2>1. Len(stack) - 1 \in 1 .. Len(stack) - 1 /\ Len(stack) - 1 \in 1 .. Len(stack)
        /\ (Len(stack) - 1) + 1 = Len(stack) /\ Len(stack) - 1 # Len(stack)
    BY <1>2, <1>8, Places
  <2>2. Via \in Node /\ Kept(Via, Top) /\ Via # Top /\ Top \in Node /\ Via = stack[Len(stack) - 1]
    BY <1>2, <1>3, <1>4, <1>5, <1>7, <2>1 DEF Via
  <2>3. IsIn(Via, parents[Top])
    BY <1>1, <2>2 DEF Agree
  <2> QED BY <2>1, <2>2, <2>3
<1> QED BY <1>2, <1>3, <1>4, <1>5, <1>6, <1>7, <1>8

\* What the invariant says while the graph is pruned, and that every IPIN is a leaf that
\* has a parent.
LEMMA PruneIs ==
  ASSUME TypeOK, PInv, pc = "pruning"
  PROVE  /\ Complete0 /\ Agree /\ Reached /\ Untouched /\ Calls /\ Loops /\ Cutting
         /\ children \in [Node -> Seq(Node)] /\ parents \in [Node -> Seq(Node)]
         /\ \A n \in Node : IsInjective(children[n]) /\ IsInjective(parents[n])
         /\ \A a, b \in Node : IsIn(a, parents[b]) <=> Kept(a, b)
         /\ \A a, b \in Node : IsIn(b, children[a]) => Orig(a, b)
         /\ \A a, b \in Node : Orig(a, b) => a # b /\ b # Source
         /\ parents[Source] = <<>>
         /\ \A n \in Pins : n \in Node /\ parents[n] # <<>> /\ children[n] = <<>>
<1>1. /\ Complete0 /\ Agree /\ Reached /\ Untouched /\ Calls /\ Loops /\ Cutting
      /\ children \in [Node -> Seq(Node)] /\ parents \in [Node -> Seq(Node)]
      /\ Source \in Node
  BY PathAssumption DEF PInv, TypeOK
<1>2. /\ \A n \in Node : IsInjective(children[n]) /\ IsInjective(parents[n])
      /\ \A a, b \in Node : IsIn(a, parents[b]) <=> Kept(a, b)
      /\ \A a, b \in Node : IsIn(b, children[a]) => Orig(a, b)
  BY <1>1 DEF Agree
<1>3. \A a, b \in Node : Orig(a, b) => a # b /\ b # Source /\ a \notin Pins
  BY <1>1, OrigIs
<1>4. \A a, b \in Node : Kept(a, b) => IsIn(b, children[a])
  BY DEF Kept
<1>5. parents[Source] = <<>>
  <2>1. parents[Source] \in Seq(Node)
    BY <1>1
  <2>2. \A a \in Node : ~IsIn(a, parents[Source])
    BY <1>1, <1>2, <1>3, <1>4
  <2> QED BY <2>1, <2>2, InSome
<1>6. ASSUME NEW n \in Pins  PROVE n \in Node /\ parents[n] # <<>> /\ children[n] = <<>>
  <2>1. n \in Node /\ n # Source
    BY <1>1, OrigIs
  <2>2. parents[n] # <<>>
    <3> SUFFICES ASSUME parents[n] = <<>>  PROVE FALSE
      OBVIOUS
    <3> DEFINE X == Node \ {n}
    <3>1. X \in SUBSET Node /\ Source \in X /\ n \notin X
      BY <1>1, <2>1
    <3>2. \A a \in X, b \in Node : Kept(a, b) => b \in X
      BY <1>2, <2>1, InEmpty
    <3> HIDE DEF X
    <3> QED BY <1>1, <3>1, <3>2 DEF Reached
  <2>3. children[n] \in Seq(Node) /\ \A b \in Node : ~IsIn(b, children[n])
    BY <1>1, <1>2, <1>3, <2>1
  <2> QED BY <2>1, <2>2, <2>3, InSome
<1> QED BY <1>1, <1>2, <1>3, <1>5, <1>6

\* Entering a node leaves it the parent the search came from and marks the others to
\* be cut off.
LEMMA EnterIs ==
  ASSUME TypeOK, PInv, Enter
  PROVE  /\ Top \in Node /\ Top \notin marked /\ marked' = marked \cup {Top} /\ cuts = <<>> /\ back' = None
         /\ UNCHANGED << children, use, mapped, inGraph, trace, con, at, pos, stack, out, pc >>
         /\ cuts' \in Seq(Edge) /\ parents' \in [Node -> Seq(Node)]
         /\ \A n \in Node \ {Top} : parents'[n] = parents[n]
         /\ IsInjective(parents'[Top]) /\ IsInjective(cuts')
         /\ Top # Source => Len(parents'[Top]) = 1
         /\ \A m \in Node : IsIn(m, parents'[Top]) <=> IsIn(m, parents[Top]) /\ m = Via
         /\ \A e : IsIn(e, cuts') <=> \E m \in Node : e = << m, Top >> /\ IsIn(m, parents[Top]) /\ m # Via
<1>1. /\ pc = "pruning" /\ stack # <<>> /\ Top \notin marked /\ marked' = marked \cup {Top}
      /\ cuts = <<>> /\ back' = None
      /\ UNCHANGED << children, use, mapped, inGraph, trace, con, at, pos, stack, out, pc >>
  BY DEF Enter, walk
<1> DEFINE drop == SecundaryParents(Top)
           P == parents[Top]
<1>2. /\ cuts' = [k \in DOMAIN drop |-> << drop[k], Top >>]
      /\ parents' = IF drop = <<>> THEN parents ELSE [parents EXCEPT ![Top] = << Via >>]
  BY DEF Enter
<1>3. /\ Top \in Node /\ Len(stack) \in Nat
      /\ Len(stack) = 1 => Top = Source
      /\ Len(stack) # 1 => Via \in Node /\ IsIn(Via, parents[Top])
  BY <1>1, StackIs
<1>4. /\ parents \in [Node -> Seq(Node)] /\ P \in Seq(Node) /\ IsInjective(P) /\ parents[Source] = <<>>
  BY <1>1, <1>3, PruneIs
<1>5. drop = IF Len(P) > 1 THEN Without(P, Via) ELSE <<>>
  BY DEF SecundaryParents
<1> HIDE DEF drop
<1>6. /\ drop \in Seq(Node) /\ IsInjective(drop)
      /\ \A m \in Node : IsIn(m, drop) <=> IsIn(m, P) /\ m # Via
      /\ Len(stack) # 1 => Via \in Node /\ (drop = <<>> => Len(P) = 1 /\ Head(P) = Via)
      /\ Len(stack) = 1 => drop = <<>>
  <2>1. CASE Len(P) > 1
    <3>1. /\ drop \in Seq(Node) /\ IsInjective(drop)
          /\ \A m : IsIn(m, drop) <=> IsIn(m, P) /\ m # Via
      BY <1>4, <1>5, <2>1, WithoutIs
    <3>2. P # <<>> /\ Len(P) \in Nat
      BY <1>4, <2>1
    <3>3. Len(stack) # 1
      BY <1>3, <1>4, <3>2
    <3>4. drop # <<>>
      <4>1. 1 \in DOMAIN P /\ 2 \in DOMAIN P /\ P[1] \in Node /\ P[2] \in Node
        BY <1>4, <2>1
      <4>2. P[1] # P[2]
        BY <1>4, <4>1 DEF IsInjective
      <4>3. IsIn(P[1], P) /\ IsIn(P[2], P)
        BY <4>1 DEF IsIn
      <4>4. IsIn(P[1], drop) \/ IsIn(P[2], drop)
        BY <3>1, <4>2, <4>3
      <4> QED BY <4>4, InEmpty
    <3> QED BY <1>3, <3>1, <3>3, <3>4
  <2>2. CASE ~(Len(P) > 1)
    <3>1. drop = <<>>
      BY <1>5, <2>2
    <3>2. drop \in Seq(Node) /\ IsInjective(drop)
      BY <3>1 DEF IsInjective
    <3>3. CASE Len(stack) = 1
      <4>1. P = <<>>
        BY <1>3, <1>4, <3>3
      <4> QED BY <3>1, <3>2, <3>3, <4>1, InEmpty
    <3>4. CASE Len(stack) # 1
      <4>1. IsIn(Via, P) /\ Via \in Node
        BY <1>3, <3>4
      <4>2. Len(P) = 1 /\ Head(P) = Via
        <5>1. P # <<>>
          BY <4>1, InEmpty
        <5>2. Len(P) \in Nat /\ Len(P) >= 1
          BY <1>4, <5>1, InSome
        <5> DEFINE l == Len(P)
        <5> HIDE DEF l, P
        <5>3. l = 1
          <6>1. l \in Nat /\ l >= 1 /\ ~(l > 1)
            BY <2>2, <5>2 DEF l
          <6> QED BY <6>1
        <5> USE DEF l, P
        <5> QED BY <1>4, <4>1, <5>3, InSome
      <4>3. \A m : IsIn(m, P) <=> m = Via
        BY <1>4, <4>2, InSome
      <4> QED BY <3>1, <3>2, <3>4, <4>1, <4>2, <4>3, InEmpty
    <3> QED BY <3>3, <3>4
  <2> QED BY <2>1, <2>2
<1>7. cuts' \in Seq(Edge) /\ IsInjective(cuts')
      /\ \A e : IsIn(e, cuts') <=> \E m \in Node : e = << m, Top >> /\ IsIn(m, drop)
  <2>1. DOMAIN drop = 1 .. Len(drop) /\ Len(drop) \in Nat /\ \A k \in DOMAIN drop : drop[k] \in Node
    BY <1>6
  <2>2. \A k \in 1 .. Len(drop) : << drop[k], Top >> \in Edge
    BY <1>3, <2>1 DEF Edge
  <2>3. cuts' = [k \in 1 .. Len(drop) |-> << drop[k], Top >>]
    BY <1>2, <2>1
  <2>4. cuts' \in Seq(Edge)
    BY <2>1, <2>2, <2>3
  <2>5. DOMAIN cuts' = DOMAIN drop /\ \A k \in DOMAIN drop : cuts'[k] = << drop[k], Top >>
    BY <1>2
  <2>6. IsInjective(cuts')
    BY <1>6, <2>5 DEF IsInjective
  <2>7. \A e : IsIn(e, cuts') <=> \E m \in Node : e = << m, Top >> /\ IsIn(m, drop)
    BY <2>1, <2>5 DEF IsIn
  <2> QED BY <2>4, <2>6, <2>7
<1>8. /\ parents' \in [Node -> Seq(Node)]
      /\ \A n \in Node \ {Top} : parents'[n] = parents[n]
      /\ IsInjective(parents'[Top])
      /\ Top # Source => Len(parents'[Top]) = 1
      /\ \A m \in Node : IsIn(m, parents'[Top]) <=> IsIn(m, P) /\ m = Via
  <2>1. CASE drop = <<>>
    <3>1. parents' = parents /\ parents'[Top] = P
      BY <1>2, <2>1
    <3>2. Top # Source => Len(P) = 1
      BY <1>3, <1>6, <2>1
    <3>3. \A m \in Node : IsIn(m, P) => m = Via
      BY <1>6, <2>1, InEmpty
    <3> QED BY <1>4, <3>1, <3>2, <3>3
  <2>2. CASE drop # <<>>
    <3>1. Via \in Node /\ IsIn(Via, P)
      BY <1>3, <1>6, <2>2
    <3>2. << Via >> \in Seq(Node) /\ IsInjective(<< Via >>) /\ Len(<< Via >>) = 1
          /\ \A m : IsIn(m, << Via >>) <=> m = Via
      BY <3>1, InSingle
    <3>3. parents' = [parents EXCEPT ![Top] = << Via >>]
      BY <1>2, <2>2
    <3>4. parents' \in [Node -> Seq(Node)] /\ parents'[Top] = << Via >>
          /\ \A n \in Node \ {Top} : parents'[n] = parents[n]
      BY <1>3, <1>4, <3>2, <3>3
    <3> HIDE DEF P
    <3> QED BY <3>1, <3>2, <3>4
  <2> QED BY <2>1, <2>2
<1> QED BY <1>1, <1>3, <1>6, <1>7, <1>8

\* Entering a node keeps the invariant, and no visited node's parents change.
LEMMA EnterPInv ==
  ASSUME TypeOK, PInv, Enter
  PROVE  PInv' /\ (\A n \in marked : parents'[n] = parents[n])
<1> DEFINE t == Top
<1>1. /\ t \in Node /\ t \notin marked /\ marked' = marked \cup {t} /\ cuts = <<>> /\ back' = None
      /\ UNCHANGED << children, trace, stack, pc >>
      /\ \A n \in Node \ {t} : parents'[n] = parents[n]
      /\ IsInjective(parents'[t]) /\ IsInjective(cuts')
      /\ t # Source => Len(parents'[t]) = 1
      /\ \A m \in Node : IsIn(m, parents'[t]) <=> IsIn(m, parents[t]) /\ m = Via
      /\ \A e : IsIn(e, cuts') <=> \E m \in Node : e = << m, t >> /\ IsIn(m, parents[t]) /\ m # Via
  BY EnterIs
<1>2. pc = "pruning" /\ stack # <<>>
  BY DEF Enter
<1>3. /\ Len(stack) \in Nat /\ Len(stack) >= 1 /\ DOMAIN stack = 1 .. Len(stack)
      /\ \A k \in 1 .. Len(stack) : stack[k] \in Node
      /\ stack[1] = Source /\ t = stack[Len(stack)]
      /\ \A n : InStack(n) <=> \E k \in 1 .. Len(stack) : stack[k] = n
      /\ \A i, j \in 1 .. Len(stack) : stack[i] = stack[j] => i = j
      /\ \A k \in 1 .. Len(stack) - 1 : stack[k] \in marked /\ Kept(stack[k], stack[k + 1])
      /\ InStack(t)
      /\ Len(stack) = 1 => t = Source
      /\ Len(stack) # 1 => Len(stack) - 1 \in 1 .. Len(stack) - 1 /\ Via \in Node /\ Kept(Via, t)
                           /\ IsIn(Via, parents[t])
      /\ Via = stack[Len(stack) - 1]
  BY <1>2, StackIs DEF Via
<1>0. /\ \A k \in 1 .. Len(stack) - 1 : /\ k \in 1 .. Len(stack) /\ k + 1 \in 1 .. Len(stack)
                                        /\ k + 1 = Len(stack) => k = Len(stack) - 1
      /\ Len(stack) \in 1 .. Len(stack)
  BY <1>3, Places
<1>4. /\ Complete0 /\ Agree /\ Reached /\ Untouched /\ Calls /\ Loops /\ Cutting
      /\ children \in [Node -> Seq(Node)] /\ parents \in [Node -> Seq(Node)]
      /\ \A n \in Node : IsInjective(children[n]) /\ IsInjective(parents[n])
      /\ \A a, b \in Node : IsIn(a, parents[b]) <=> Kept(a, b)
      /\ \A a, b \in Node : IsIn(b, children[a]) => Orig(a, b)
      /\ \A a, b \in Node : Orig(a, b) => a # b /\ b # Source
      /\ parents[Source] = <<>>
  BY <1>2, PruneIs
<1>5. Top' = t /\ Via' = Via
  BY <1>1 DEF Top, Via
<1> HIDE DEF t
<1>6. \A a, b \in Node : Orig(a, b)' <=> Orig(a, b)
  BY <1>1 DEF Orig
<1>7. \A a, b \in Node : Kept(a, b) <=> IsIn(b, children[a])
  BY <1>1, InEmpty DEF Kept
<1>8. \A a, b \in Node : Kept(a, b)' <=> Kept(a, b) /\ (b # t \/ a = Via)
  <2>1. \A a, b \in Node : IsIn(<< a, b >>, cuts') <=> b = t /\ IsIn(a, parents[t]) /\ a # Via
    BY <1>1
  <2> QED BY <1>1, <1>4, <1>7, <2>1 DEF Kept
<1>9. Complete0'
  BY <1>1, <1>4 DEF Complete0
<1>10. Agree'
  <2>1. \A n \in Node : IsInjective(children'[n]) /\ IsInjective(parents'[n])
    BY <1>1, <1>4
  <2>2. \A a, b \in Node : IsIn(a, parents'[b]) <=> Kept(a, b)'
    BY <1>1, <1>4, <1>8
  <2> QED BY <1>1, <1>4, <1>6, <2>1, <2>2 DEF Agree
<1>11. ASSUME NEW k \in 1 .. Len(stack) - 1, NEW a \in Node, NEW b \in Node, stack[k] = a, stack[k + 1] = b
       PROVE  a \in marked /\ Kept(a, b)'
  <2>1. Kept(a, b) /\ a \in marked
    BY <1>3, <1>11
  <2>2. b = t => k + 1 = Len(stack)
    BY <1>0, <1>3, <1>11
  <2>3. b = t => a = Via
    BY <1>0, <1>3, <1>11, <2>2
  <2> QED BY <1>8, <2>1, <2>3
<1>12. Reached'
  <2> SUFFICES ASSUME NEW n \in Pins', NEW X \in SUBSET Node, Source \in X,
                      \A a \in X, b \in Node : Kept(a, b)' => b \in X
               PROVE  n \in X
    BY DEF Reached
  <2>1. Pins' = Pins
    BY <1>1 DEF Pins, PinOf
  <2> DEFINE S == { k \in 1 .. Len(stack) : stack[k] \in X }
  <2>2. 1 \in S
    BY <1>3
  <2>3. ASSUME NEW k \in 1 .. Len(stack) - 1, k \in S  PROVE k + 1 \in S
    <3>1. k + 1 \in 1 .. Len(stack) /\ stack[k] \in X /\ stack[k + 1] \in Node
      BY <1>0, <1>3, <2>3
    <3>2. PICK a \in X, b \in Node : a = stack[k] /\ b = stack[k + 1]
      BY <3>1
    <3>3. Kept(a, b)'
      BY <1>11, <3>2
    <3> QED BY <3>1, <3>2, <3>3
  <2> HIDE DEF S
  <2>4. 1 .. Len(stack) \subseteq S
    <3>1. 1 \in Int /\ Len(stack) \in Int
      BY <1>3
    <3> QED BY <2>2, <2>3, <3>1, IntervalInduct
  <2>5. t \in X
    <3>1. Len(stack) \in 1 .. Len(stack)
      BY <1>3
    <3> QED BY <1>3, <2>4, <3>1 DEF S
  <2>6. \A a \in X, b \in Node : Kept(a, b) => b \in X
    BY <1>8, <2>5
  <2> QED BY <1>4, <2>1, <2>6 DEF Reached
<1>13. Untouched'
  <2>1. ASSUME NEW b \in Node \ marked'
        PROVE  Removed(b)' \/ \A a \in Node : Orig(a, b)' => Kept(a, b)'
    <3>1. b \in Node \ marked /\ b # t
      BY <1>1
    <3>2. Removed(b) \/ \A a \in Node : Orig(a, b) => Kept(a, b)
      BY <1>4, <3>1 DEF Untouched
    <3>3. Removed(b)' <=> Removed(b)
      BY <1>1, <3>1 DEF Removed
    <3> QED BY <1>6, <1>8, <3>1, <3>2, <3>3
  <2>2. ASSUME NEW n \in Node \ {Source}, children'[n] # <<>>  PROVE parents'[n] # <<>>
    <3>1. CASE n # t
      BY <1>1, <1>4, <2>2, <3>1 DEF Untouched
    <3>2. CASE n = t
      BY <1>1, <3>2
    <3> QED BY <3>1, <3>2
  <2> QED BY <2>1, <2>2 DEF Untouched
<1>14. Calls'
  <2>1. \A n \in marked' \ {Source} : Len(parents'[n]) = 1
    <3>1. marked \subseteq Node
      BY DEF TypeOK
    <3> QED BY <1>1, <1>4, <3>1 DEF Calls
  <2>2. \A n \in marked' : ~InStack(n)' => \A m \in Node : IsIn(m, children'[n]) => m \in marked'
    BY <1>1, <1>3, <1>4 DEF Calls, InStack
  <2>3. stack' # <<>> /\ stack'[1] = Source /\ IsInjective(stack')
    BY <1>1, <1>2, <1>4 DEF Calls
  <2>4. \A k \in 1 .. Len(stack') - 1 : \A a, b \in Node :
          stack'[k] = a /\ stack'[k + 1] = b => a \in marked' /\ Kept(a, b)'
    BY <1>1, <1>11
  <2> QED BY <2>1, <2>2, <2>3, <2>4 DEF Calls
<1>15. Loops'
  <2>1. \A a, b \in Node : Passed(a, b) => Passed(a, b)'
    BY <1>1 DEF Passed
  <2>2. None \notin Node
    BY PathAssumption
  <2> QED BY <1>1, <1>4, <2>1, <2>2 DEF Loops
<1>16. Cutting'
  <2>1. cuts' # <<>> => Len(stack') > 1 /\ Top' \in marked' /\ back' = None
    <3>1. ASSUME Len(stack) = 1  PROVE \A e : ~IsIn(e, cuts')
      BY <1>1, <1>3, <1>4, <3>1, InEmpty
    <3>2. cuts' \in Seq(Edge)
      BY EnterIs
    <3>3. Len(stack) = 1 => cuts' = <<>>
      BY <3>1, <3>2, InSome
    <3>4. Len(stack) # 1 => Len(stack) > 1
      BY <1>3
    <3> QED BY <1>1, <1>5, <3>3, <3>4
  <2>2. ASSUME NEW k \in DOMAIN cuts', NEW p \in Node, NEW n \in Node, cuts'[k] = << p, n >>
        PROVE  CutRight(k, p, n)'
    <3>1. n = t /\ IsIn(p, parents[t]) /\ p # Via
      <4>1. IsIn(<< p, n >>, cuts')
        BY <2>2 DEF IsIn
      <4> QED BY <1>1, <4>1
    <3>2. Kept(p, t) /\ IsIn(t, children[p]) /\ Orig(p, t)
      BY <1>1, <1>4, <1>7, <3>1
    <3>3. p \in marked' => InStack(p)
      BY <1>1, <1>3, <1>4, <3>2 DEF Calls
    <3>4. InStack(p)' <=> InStack(p)
      BY <1>1 DEF InStack
    <3>5. PICK c \in Con : \E i \in 1 .. Len(trace[c]) - 2 : trace[c][i] = p /\ trace[c][i + 1] = t
      BY <3>2 DEF Orig
    <3>6. PICK i \in 1 .. Len(trace[c]) - 2 : trace[c][i] = p /\ trace[c][i + 1] = t
      BY <3>5
    <3>7. i \in 1 .. Len(trace[c]) - 1 /\ i + 1 \in 1 .. Len(trace[c]) - 1 /\ i < i + 1
      <4>1. Len(trace[c]) \in Nat
        BY DEF TypeOK
      <4> QED BY <4>1, Places
    <3>8. \E d \in Con : \E x, y \in 1 .. Len(trace'[d]) - 1 :
            x < y /\ trace'[d][x] = p /\ trace'[d][x + 1] = t /\ trace'[d][y] = t
      BY <1>1, <3>6, <3>7
    <3> QED BY <1>1, <1>5, <3>1, <3>2, <3>3, <3>4, <3>8 DEF CutRight
  <2> QED BY <1>1, <2>1, <2>2 DEF Cutting
<1>17. \A n \in marked : parents'[n] = parents[n]
  BY <1>1 DEF TypeOK
<1> QED BY <1>9, <1>10, <1>12, <1>13, <1>14, <1>15, <1>16, <1>17 DEF PInv

\* The parent a cut is made from is not one the search has come to, unless it keeps a
\* child the search went down to: it is never the last link of such a node.
LEMMA CutIs ==
  ASSUME TypeOK, PInv, pc = "pruning", cuts # <<>>
  PROVE  \E p, n \in Node :
           /\ Head(cuts) = << p, n >> /\ cuts[1] = << p, n >> /\ CutRight(1, p, n)
           /\ p # n /\ p # Top /\ Orig(p, n) /\ ~Kept(p, n)
           /\ InStack(p) => \E m \in Node : m # n /\ IsIn(m, children[p])
           /\ ~InStack(p) => p \notin marked /\ p # Source /\ parents[p] # <<>>
           /\ \A k \in DOMAIN cuts : k = 1 \/ k \in 2 .. Len(cuts)
           /\ Tail(cuts) \in Seq(Edge) /\ IsInjective(Tail(cuts))
           /\ \A e : IsIn(e, Tail(cuts)) <=> IsIn(e, cuts) /\ e # << p, n >>
           /\ \A k \in DOMAIN Tail(cuts) : k + 1 \in DOMAIN cuts /\ Tail(cuts)[k] = cuts[k + 1] /\ k \in Nat
                                           /\ k + 1 # 1
<1>1. /\ Complete0 /\ Agree /\ Reached /\ Untouched /\ Calls /\ Loops /\ Cutting
      /\ children \in [Node -> Seq(Node)] /\ parents \in [Node -> Seq(Node)]
      /\ \A a, b \in Node : IsIn(a, parents[b]) <=> Kept(a, b)
      /\ \A a, b \in Node : IsIn(b, children[a]) => Orig(a, b)
      /\ \A a, b \in Node : Orig(a, b) => a # b /\ b # Source
      /\ cuts \in Seq(Edge)
  BY PruneIs DEF TypeOK
<1>2. /\ IsInjective(cuts) /\ Len(stack) > 1 /\ Top \in marked
      /\ \A k \in DOMAIN cuts : \A p, n \in Node : cuts[k] = << p, n >> => CutRight(k, p, n)
  BY <1>1 DEF Cutting
<1>3. /\ Len(cuts) \in Nat /\ DOMAIN cuts = 1 .. Len(cuts) /\ 1 \in DOMAIN cuts /\ Head(cuts) = cuts[1]
      /\ cuts[1] \in Edge
  BY <1>1
<1>4. PICK p, n \in Node : cuts[1] = << p, n >>
  BY <1>3 DEF Edge
<1>5. CutRight(1, p, n)
  BY <1>2, <1>3, <1>4
<1>6. IsIn(n, children[p]) /\ Orig(p, n) /\ p # n /\ ~Kept(p, n)
  <2>1. IsIn(n, children[p])
    BY <1>5 DEF CutRight
  <2>2. IsIn(<< p, n >>, cuts)
    BY <1>3, <1>4 DEF IsIn
  <2> QED BY <1>1, <2>1, <2>2 DEF Kept
<1>7. stack # <<>>
  BY <1>2
<1>8. /\ Len(stack) \in Nat /\ Len(stack) >= 1 /\ DOMAIN stack = 1 .. Len(stack)
      /\ \A k \in 1 .. Len(stack) : stack[k] \in Node
      /\ stack[1] = Source /\ Top = stack[Len(stack)] /\ Top \in Node
      /\ \A m : InStack(m) <=> \E k \in 1 .. Len(stack) : stack[k] = m
      /\ \A i, j \in 1 .. Len(stack) : stack[i] = stack[j] => i = j
      /\ \A k \in 1 .. Len(stack) - 1 : Kept(stack[k], stack[k + 1])
      /\ InStack(Source) /\ Via = stack[Len(stack) - 1]
  BY <1>7, StackIs DEF Via
<1>9. p # Top
  <2>1. PICK c \in Con : \E i, j \in 1 .. Len(trace[c]) - 1 :
          i < j /\ trace[c][i] = p /\ trace[c][j] = Top
    BY <1>5 DEF CutRight
  <2>2. PICK i \in 1 .. Len(trace[c]) - 1, j \in 1 .. Len(trace[c]) - 1 :
          i < j /\ trace[c][i] = p /\ trace[c][j] = Top
    BY <2>1
  <2>3. Len(trace[c]) \in Nat /\ \A x, y \in 1 .. Len(trace[c]) : trace[c][x] = trace[c][y] => x = y
    BY <1>1, TraceIs DEF Complete0
  <2>4. i \in 1 .. Len(trace[c]) /\ j \in 1 .. Len(trace[c]) /\ i # j
    BY <2>2, <2>3
  <2> QED BY <2>2, <2>3, <2>4
<1>10. ASSUME InStack(p)  PROVE \E m \in Node : m # n /\ IsIn(m, children[p])
  <2>1. PICK k \in 1 .. Len(stack) : stack[k] = p
    BY <1>8, <1>10
  <2>2. k # Len(stack)
    BY <1>8, <1>9, <2>1
  <2>3. k \in 1 .. Len(stack) - 1 /\ k + 1 \in 1 .. Len(stack)
    BY <1>8, <2>1, <2>2, Places
  <2>4. Kept(p, stack[k + 1]) /\ stack[k + 1] \in Node
    BY <1>8, <2>1, <2>3
  <2>5. stack[k + 1] # n
    BY <1>6, <2>4
  <2> QED BY <2>4, <2>5 DEF Kept
<1>11. ASSUME ~InStack(p)  PROVE p \notin marked /\ p # Source /\ parents[p] # <<>>
  <2>1. p \notin marked /\ p # Source
    BY <1>5, <1>8, <1>11 DEF CutRight
  <2>2. children[p] # <<>>
    BY <1>6, InEmpty
  <2> QED BY <1>1, <2>1, <2>2 DEF Untouched
<1>12. \A k \in DOMAIN cuts : k = 1 \/ k \in 2 .. Len(cuts)
  BY <1>3
<1>13. /\ Tail(cuts) \in Seq(Edge) /\ Len(Tail(cuts)) = Len(cuts) - 1 /\ DOMAIN Tail(cuts) = 1 .. Len(cuts) - 1
       /\ \A k \in 1 .. Len(cuts) - 1 : Tail(cuts)[k] = cuts[k + 1]
  BY <1>1, <1>3
<1> DEFINE w == Tail(cuts)
<1>14. /\ DOMAIN w = 1 .. Len(cuts) - 1 /\ \A k \in 1 .. Len(cuts) - 1 : w[k] = cuts[k + 1]
       /\ w \in Seq(Edge)
  BY <1>13
<1> HIDE DEF w
<1>15. \A k \in DOMAIN w : k + 1 \in DOMAIN cuts /\ w[k] = cuts[k + 1] /\ k \in Nat /\ k + 1 # 1
  BY <1>3, <1>14
<1>16. \A k \in DOMAIN cuts : k # 1 => k - 1 \in DOMAIN w /\ (k - 1) + 1 = k
  BY <1>3, <1>14
<1>17. IsInjective(w)
  <2> SUFFICES ASSUME NEW i \in DOMAIN w, NEW j \in DOMAIN w, w[i] = w[j]  PROVE i = j
    BY DEF IsInjective
  <2>1. i + 1 = j + 1
    BY <1>2, <1>15 DEF IsInjective
  <2> QED BY <1>15, <2>1
<1>18. \A e : IsIn(e, w) <=> IsIn(e, cuts) /\ e # << p, n >>
  <2>1. ASSUME NEW e, IsIn(e, w)  PROVE IsIn(e, cuts) /\ e # << p, n >>
    <3>1. PICK k \in DOMAIN w : w[k] = e
      BY <2>1 DEF IsIn
    <3>2. k + 1 \in DOMAIN cuts /\ cuts[k + 1] = e /\ k + 1 # 1
      BY <3>1, <1>15
    <3> QED BY <3>2, <1>2, <1>3, <1>4 DEF IsIn, IsInjective
  <2>2. ASSUME NEW e, IsIn(e, cuts), e # << p, n >>  PROVE IsIn(e, w)
    <3>1. PICK k \in DOMAIN cuts : cuts[k] = e
      BY <2>2 DEF IsIn
    <3>2. k # 1
      BY <1>4, <2>2, <3>1
    <3>3. k - 1 \in DOMAIN w /\ w[k - 1] = e
      BY <1>15, <1>16, <3>1, <3>2
    <3> QED BY <3>3 DEF IsIn
  <2> QED BY <2>1, <2>2
<1> QED BY <1>3, <1>4, <1>5, <1>6, <1>9, <1>10, <1>11, <1>12, <1>14, <1>15, <1>17, <1>18 DEF w

\* Taking out one link leaves the rest as it was.
LEMMA CutParentPInv ==
  ASSUME TypeOK, PInv, CutParent
  PROVE  PInv' /\ pc' = "pruning" /\ (\A n \in marked : parents'[n] = parents[n])
<1>1. /\ pc = "pruning" /\ cuts # <<>>
      /\ UNCHANGED << trace, stack, back, marked >>
  BY DEF CutParent
<1>2. PICK p \in Node, n \in Node :
           /\ Head(cuts) = << p, n >> /\ cuts[1] = << p, n >> /\ CutRight(1, p, n)
           /\ p # n /\ p # Top /\ Orig(p, n) /\ ~Kept(p, n)
           /\ InStack(p) => \E m \in Node : m # n /\ IsIn(m, children[p])
           /\ ~InStack(p) => p \notin marked /\ p # Source /\ parents[p] # <<>>
           /\ Tail(cuts) \in Seq(Edge) /\ IsInjective(Tail(cuts))
           /\ \A e : IsIn(e, Tail(cuts)) <=> IsIn(e, cuts) /\ e # << p, n >>
           /\ \A k \in DOMAIN Tail(cuts) : k + 1 \in DOMAIN cuts /\ Tail(cuts)[k] = cuts[k + 1] /\ k \in Nat
                                           /\ k + 1 # 1
  BY <1>1, CutIs
<1> DEFINE w == Tail(cuts)
           childless == children[p] = << n >>
           chain == childless /\ Len(parents[p]) = 1
<1>3. /\ children' = [children EXCEPT ![p] = Without(children[p], n)]
      /\ chain => /\ cuts' = << << Head(parents[p]), p >> >> \o w
                  /\ parents' = [parents EXCEPT ![p] = <<>>]
                  /\ pc' = pc
      /\ ~chain => /\ cuts' = w /\ parents' = parents
                   /\ pc' = IF childless /\ parents[p] = <<>> THEN "crashed" ELSE pc
  <2>1. Head(cuts)[1] = p /\ Head(cuts)[2] = n
    BY <1>2
  <2> QED BY <2>1 DEF CutParent
<1>4. /\ Complete0 /\ Agree /\ Reached /\ Untouched /\ Calls /\ Loops /\ Cutting
      /\ children \in [Node -> Seq(Node)] /\ parents \in [Node -> Seq(Node)]
      /\ \A m \in Node : IsInjective(children[m]) /\ IsInjective(parents[m])
      /\ \A a, b \in Node : IsIn(a, parents[b]) <=> Kept(a, b)
      /\ \A a, b \in Node : IsIn(b, children[a]) => Orig(a, b)
      /\ \A a, b \in Node : Orig(a, b) => a # b /\ b # Source
      /\ \A m \in Pins : m \in Node /\ children[m] = <<>>
  BY <1>1, PruneIs
<1>5. /\ IsInjective(cuts) /\ Len(stack) > 1 /\ Top \in marked /\ back = None
      /\ \A k \in DOMAIN cuts : \A a, b \in Node : cuts[k] = << a, b >> => CutRight(k, a, b)
  BY <1>1, <1>4 DEF Cutting
<1>6. IsIn(n, children[p])
  BY <1>2 DEF CutRight
<1>7. /\ children'[p] = Without(children[p], n) /\ \A m \in Node \ {p} : children'[m] = children[m]
      /\ IsInjective(children'[p])
      /\ \A m : IsIn(m, children'[p]) <=> IsIn(m, children[p]) /\ m # n
      /\ \A i, j \in DOMAIN children'[p] : i < j =>
           \E u, v \in DOMAIN children[p] : u < v /\ children[p][u] = children'[p][i]
                                                  /\ children[p][v] = children'[p][j]
  <2>1. children'[p] = Without(children[p], n) /\ \A m \in Node \ {p} : children'[m] = children[m]
        /\ children[p] \in Seq(Node) /\ IsInjective(children[p])
    BY <1>3, <1>4
  <2> DEFINE v0 == children[p]
             w0 == Without(v0, n)
  <2>2. /\ IsInjective(w0)
        /\ \A m : IsIn(m, w0) <=> IsIn(m, v0) /\ m # n
        /\ \A i, j \in DOMAIN w0 : i < j =>
             \E u, v \in DOMAIN v0 : u < v /\ v0[u] = w0[i] /\ v0[v] = w0[j]
    <3> HIDE DEF v0
    <3>1. v0 \in Seq(Node) /\ IsInjective(v0)
      BY <1>4, Zenon DEF v0
    <3> QED BY <3>1, WithoutIs
  <2>3. children'[p] = w0
    BY <2>1
  <2> HIDE DEF w0
  <2> QED BY <2>1, <2>2, <2>3
<1>8. childless => ~InStack(p) /\ \A m : IsIn(m, children[p]) <=> m = n
  <2>1. ASSUME childless  PROVE \A m : IsIn(m, children[p]) <=> m = n
    BY <2>1, InSingle
  <2> QED BY <1>2, <2>1
<1>9. pc' = "pruning"
  BY <1>1, <1>2, <1>3, <1>8
<1>10. \A a, b \in Node : Orig(a, b)' <=> Orig(a, b)
  BY <1>1 DEF Orig
<1>11. \A a, b \in Node : IsIn(b, children'[a]) <=> IsIn(b, children[a]) /\ ~(a = p /\ b = n)
  BY <1>7
<1>12. Complete0'
  BY <1>1, <1>4 DEF Complete0
<1>13. Pins' = Pins /\ Top' = Top /\ Via' = Via /\ (\A m : InStack(m)' <=> InStack(m))
  BY <1>1 DEF Pins, PinOf, Top, Via, InStack
<1>14. stack # <<>>
  BY <1>5
<1> HIDE DEF chain, childless, w
<1>15. CASE ~chain
  <2>1. cuts' = w /\ parents' = parents
    BY <1>3, <1>15
  <2>2. \A a, b \in Node : Kept(a, b)' <=> Kept(a, b)
    BY <1>2, <1>11, <2>1 DEF Kept, w
  <2>3. Agree'
    <3>1. \A m \in Node : IsInjective(children'[m]) /\ IsInjective(parents'[m])
      BY <1>4, <1>7, <2>1
    <3> QED BY <1>4, <1>10, <1>11, <2>1, <2>2, <3>1 DEF Agree
  <2>4. Reached'
    BY <1>4, <1>13, <2>2 DEF Reached
  <2>5. Untouched'
    <3>1. ASSUME NEW m \in Node  PROVE Removed(m) => Removed(m)'
      <4>1. Removed(m) => m # p
        BY <1>6, InEmpty DEF Removed
      <4> QED BY <1>7, <2>1, <4>1 DEF Removed
    <3>2. \A m \in Node : children'[m] # <<>> => children[m] # <<>>
      BY <1>6, <1>7, InEmpty
    <3> QED BY <1>1, <1>4, <1>10, <2>1, <2>2, <3>1, <3>2 DEF Untouched
  <2>6. Calls'
    BY <1>1, <1>4, <1>11, <1>13, <2>1, <2>2 DEF Calls, TypeOK
  <2>7. Loops'
    <3>1. ASSUME NEW a \in Node, NEW b \in Node, Passed(a, b)  PROVE Passed(a, b)'
      <4>1. CASE a = p
        BY <1>1, <1>7, <3>1, <4>1 DEF Passed
      <4>2. CASE a # p
        BY <1>1, <1>7, <3>1, <4>2 DEF Passed
      <4> QED BY <4>1, <4>2
    <3>2. None \notin Node
      BY PathAssumption
    <3> QED BY <1>1, <1>4, <1>5, <3>1, <3>2 DEF Loops
  <2>8. Cutting'
    <3>1. ASSUME NEW k \in DOMAIN w, NEW a \in Node, NEW b \in Node, w[k] = << a, b >>
          PROVE  CutRight(k, a, b)'
      <4>1. k + 1 \in DOMAIN cuts /\ cuts[k + 1] = << a, b >> /\ k + 1 # 1
        BY <1>2, <3>1 DEF w
      <4>2. CutRight(k + 1, a, b)
        BY <1>5, <4>1
      <4>3. << a, b >> # << p, n >>
        <5>1. IsIn(<< a, b >>, w)
          BY <3>1 DEF IsIn
        <5> QED BY <1>2, <5>1 DEF w
      <4>4. IsIn(b, children'[a])
        BY <1>11, <4>2, <4>3 DEF CutRight
      <4>5. /\ a \in marked => InStack(a)
            /\ b = Top /\ a # Via
            /\ \E c \in Con : \E i, j \in 1 .. Len(trace[c]) - 1 :
                 i < j /\ trace[c][i] = a /\ trace[c][i + 1] = b /\ trace[c][j] = Top
        BY <4>1, <4>2 DEF CutRight
      <4> QED BY <1>1, <1>13, <4>4, <4>5 DEF CutRight
    <3>2. IsInjective(w)
      BY <1>2 DEF w
    <3> QED BY <1>1, <1>5, <1>13, <2>1, <3>1, <3>2 DEF Cutting
  <2> QED BY <1>9, <1>12, <2>1, <2>3, <2>4, <2>5, <2>6, <2>7, <2>8 DEF PInv
<1>16. CASE chain
  <2>0. PICK g : g = Head(parents[p])
    OBVIOUS
  <2>1. cuts' = << << g, p >> >> \o w /\ parents' = [parents EXCEPT ![p] = <<>>]
        /\ childless /\ Len(parents[p]) = 1
    BY <1>3, <1>16, <2>0 DEF chain
  <2>2. ~InStack(p) /\ p \notin marked /\ p # Source /\ \A m : IsIn(m, children[p]) <=> m = n
    BY <1>2, <1>8, <2>1
  <2>3. g \in Node /\ IsIn(g, parents[p]) /\ \A m : IsIn(m, parents[p]) <=> m = g
    <3>1. parents[p] \in Seq(Node) /\ parents[p] # <<>>
      BY <1>2, <1>4, <2>2
    <3> QED BY <2>0, <2>1, <3>1, InSome
  <2>4. parents'[p] = <<>> /\ \A m \in Node \ {p} : parents'[m] = parents[m]
    BY <1>4, <2>1
  <2>5. Kept(g, p) /\ ~IsIn(<< g, p >>, cuts) /\ g # p /\ IsIn(p, children[g])
    BY <1>4, <2>3 DEF Kept
  <2>6. children'[p] = <<>>
    <3>1. \A m : ~IsIn(m, children'[p])
      BY <1>7, <2>2
    <3>2. children'[p] \in Seq(Node)
      BY <1>4, <1>7, WithoutIs
    <3> QED BY <3>1, <3>2, InSome
  <2>7. /\ w \in Seq(Edge) /\ IsInjective(w) /\ << g, p >> \in Edge
        /\ \A e : IsIn(e, w) <=> IsIn(e, cuts) /\ e # << p, n >>
    BY <1>2, <2>3 DEF Edge, w
  <2>8. IsInjective(cuts') /\ \A e : IsIn(e, cuts') <=> e = << g, p >> \/ (IsIn(e, cuts) /\ e # << p, n >>)
    <3>1. ~IsIn(<< g, p >>, w)
      BY <2>5, <2>7
    <3> QED BY <2>1, <2>7, <3>1, InFront
  <2>9. \A a, b \in Node : Kept(a, b)' <=> Kept(a, b) /\ ~(a = g /\ b = p)
    BY <1>2, <1>11, <2>8 DEF Kept
  <2>10. Agree'
    <3>0. IsInjective(parents'[p])
      BY <2>4 DEF IsInjective
    <3>1. \A m \in Node : IsInjective(children'[m]) /\ IsInjective(parents'[m])
      BY <1>4, <1>7, <2>4, <3>0
    <3>2. \A a, b \in Node : IsIn(a, parents'[b]) <=> Kept(a, b)'
      BY <1>4, <2>3, <2>4, <2>9, InEmpty
    <3> QED BY <1>4, <1>10, <1>11, <3>1, <3>2 DEF Agree
  <2>11. Reached'
    <3> SUFFICES ASSUME NEW m \in Pins', NEW X \in SUBSET Node, Source \in X,
                        \A a \in X, b \in Node : Kept(a, b)' => b \in X
                 PROVE  m \in X
      BY DEF Reached
    <3> DEFINE Y == X \cup {p}
    <3>1. Y \in SUBSET Node /\ Source \in Y
      OBVIOUS
    <3>2. \A b \in Node : ~Kept(p, b)
      BY <1>2, <2>2 DEF Kept
    <3>3. \A a \in Y, b \in Node : Kept(a, b) => b \in Y
      BY <2>9, <3>2
    <3>4. m \in Y
      BY <1>4, <1>13, <3>1, <3>3 DEF Reached
    <3>5. m # p
      BY <1>4, <1>6, <1>13, InEmpty
    <3> QED BY <3>4, <3>5
  <2>12. Untouched'
    <3>1. ASSUME NEW b \in Node \ marked'
          PROVE  Removed(b)' \/ \A a \in Node : Orig(a, b)' => Kept(a, b)'
      <4>1. CASE b = p
        BY <2>4, <2>6, <4>1 DEF Removed
      <4>2. CASE b # p
        <5>1. Removed(b) \/ \A a \in Node : Orig(a, b) => Kept(a, b)
          BY <1>1, <1>4 DEF Untouched
        <5>2. Removed(b)' <=> Removed(b)
          BY <1>7, <2>4, <4>2 DEF Removed
        <5> QED BY <1>10, <2>9, <4>2, <5>1, <5>2
      <4> QED BY <4>1, <4>2
    <3>2. \A m \in Node \ {Source} : children'[m] # <<>> => parents'[m] # <<>>
      BY <1>4, <1>7, <2>4, <2>6 DEF Untouched
    <3> QED BY <3>1, <3>2 DEF Untouched
  <2>13. Calls'
    <3>1. \A m \in marked' \ {Source} : Len(parents'[m]) = 1
      BY <1>1, <1>4, <2>2, <2>4, ZenonT(60) DEF Calls, TypeOK
    <3>2. \A m \in marked' : ~InStack(m)' => \A q \in Node : IsIn(q, children'[m]) => q \in marked'
      <4>1. marked \subseteq Node
        BY DEF TypeOK
      <4> QED BY <1>1, <1>4, <1>11, <1>13, <4>1 DEF Calls
    <3>3. ASSUME NEW k \in 1 .. Len(stack') - 1, NEW a \in Node, NEW b \in Node, stack'[k] = a, stack'[k + 1] = b
          PROVE  a \in marked' /\ Kept(a, b)'
      <4>1. a \in marked /\ Kept(a, b)
        BY <1>1, <1>4, <3>3 DEF Calls
      <4>2. InStack(b)
        <5>1. Len(stack) \in Nat /\ \A m : InStack(m) <=> \E i \in 1 .. Len(stack) : stack[i] = m
          BY <1>1, <1>14, StackIs
        <5>2. k + 1 \in 1 .. Len(stack)
          BY <1>1, <5>1, Places
        <5> QED BY <1>1, <3>3, <5>1, <5>2
      <4> QED BY <1>1, <2>2, <2>9, <4>1, <4>2
    <3> QED BY <1>1, <1>4, <3>1, <3>2, <3>3 DEF Calls
  <2>14. Loops'
    <3>1. \A a, b \in Node : a # p => (Passed(a, b)' <=> Passed(a, b))
      BY <1>1, <1>7 DEF Passed
    <3>2. \A k \in 1 .. Len(stack) - 1 : \A a \in Node : stack[k] = a => a # p
      <4>1. Len(stack) \in Nat /\ \A m : InStack(m) <=> \E i \in 1 .. Len(stack) : stack[i] = m
        BY <1>1, <1>14, StackIs
      <4>2. \A k \in 1 .. Len(stack) - 1 : k \in 1 .. Len(stack)
        BY <4>1, Places
      <4> QED BY <2>2, <4>1, <4>2
    <3>3. None \notin Node
      BY PathAssumption
    <3> QED BY <1>1, <1>4, <1>5, <3>1, <3>2, <3>3 DEF Loops
  <2>15. Cutting'
    <3>1. CutRight(1, g, p)'
      <4>1. IsIn(p, children'[g])
        BY <1>11, <2>3, <2>5
      <4>2. g \in marked' => InStack(g)'
        <5>1. \A m \in marked : ~InStack(m) => \A q \in Node : IsIn(q, children[m]) => q \in marked
          BY <1>4 DEF Calls
        <5>2. g \in marked => InStack(g)
          BY <2>2, <2>5, <5>1
        <5> QED BY <1>1, <1>13, <5>2
      <4>3. p \notin marked' /\ Removed(p)'
        BY <1>1, <2>2, <2>4, <2>6 DEF Removed
      <4>4. PICK c \in Con : \E i, j \in 1 .. Len(trace[c]) - 1 :
              i < j /\ trace[c][i] = p /\ trace[c][i + 1] = n /\ trace[c][j] = Top
        BY <1>2 DEF CutRight
      <4>5. PICK i \in 1 .. Len(trace[c]) - 1, j \in 1 .. Len(trace[c]) - 1 :
              i < j /\ trace[c][i] = p /\ trace[c][i + 1] = n /\ trace[c][j] = Top
        BY <4>4
      <4>6. /\ Len(trace[c]) \in Nat /\ trace[c][1] = Source
            /\ \A k \in 1 .. Len(trace[c]) : trace[c][k] \in Node
        BY <1>4, TraceIs DEF Complete0
      <4> DEFINE h == i - 1
      <4>7. i # 1
        BY <2>2, <4>5, <4>6
      <4>8. h \in 1 .. Len(trace[c]) - 2 /\ h \in 1 .. Len(trace[c]) - 1 /\ h < j /\ h + 1 = i
            /\ h \in 1 .. Len(trace[c])
        BY <4>5, <4>6, <4>7
      <4> HIDE DEF h
      <4>9. Orig(trace[c][h], p) /\ trace[c][h] \in Node
        BY <1>4, <4>5, <4>6, <4>8, OrigIs
      <4>10. ~Removed(p)
        BY <1>6, InEmpty DEF Removed
      <4>11. Kept(trace[c][h], p)
        BY <1>4, <2>2, <4>9, <4>10 DEF Untouched
      <4>12. trace[c][h] = g
        BY <1>4, <2>3, <4>9, <4>11
      <4>13. \E d \in Con : \E x, y \in 1 .. Len(trace'[d]) - 1 :
               x < y /\ trace'[d][x] = g /\ trace'[d][x + 1] = p /\ trace'[d][y] = Top'
        BY <1>1, <1>13, <4>5, <4>8, <4>12
      <4>14. (p = Top' /\ g # Via') \/ (1 = 1 /\ p \notin marked' /\ Removed(p)')
        BY <4>3
      <4> QED BY <4>1, <4>2, <4>13, <4>14 DEF CutRight
    <3>2. ASSUME NEW k \in DOMAIN w, NEW a \in Node, NEW b \in Node, w[k] = << a, b >>
          PROVE  CutRight(k + 1, a, b)'
      <4>1. k + 1 \in DOMAIN cuts /\ cuts[k + 1] = << a, b >> /\ k + 1 # 1
        BY <1>2, <3>2 DEF w
      <4>2. CutRight(k + 1, a, b)
        BY <1>5, <4>1
      <4>3. << a, b >> # << p, n >>
        <5>1. IsIn(<< a, b >>, w)
          BY <3>2 DEF IsIn
        <5> QED BY <2>7, <5>1
      <4>4. IsIn(b, children'[a])
        BY <1>11, <4>2, <4>3 DEF CutRight
      <4>5. /\ a \in marked => InStack(a)
            /\ b = Top /\ a # Via
            /\ \E c \in Con : \E i, j \in 1 .. Len(trace[c]) - 1 :
                 i < j /\ trace[c][i] = a /\ trace[c][i + 1] = b /\ trace[c][j] = Top
        BY <4>1, <4>2 DEF CutRight
      <4> QED BY <1>1, <1>13, <4>4, <4>5 DEF CutRight
    <3>3. \A k \in DOMAIN cuts' : (k = 1 /\ cuts'[k] = << g, p >>)
            \/ \E x \in DOMAIN w : k = x + 1 /\ cuts'[k] = w[x]
      <4>1. w \in Seq(Edge) /\ << g, p >> \in Edge
        BY <2>7
      <4>2. Len(cuts') = Len(w) + 1 /\ DOMAIN cuts' = 1 .. Len(w) + 1 /\ cuts'[1] = << g, p >>
            /\ \A k \in 2 .. Len(w) + 1 : cuts'[k] = w[k - 1]
            /\ Len(w) \in Nat /\ DOMAIN w = 1 .. Len(w)
        BY <2>1, <4>1
      <4>3. \A k \in 1 .. Len(w) + 1 : k = 1 \/ (k \in 2 .. Len(w) + 1 /\ k - 1 \in 1 .. Len(w) /\ k = (k - 1) + 1)
        BY <4>2
      <4> QED BY <4>2, <4>3
    <3>4. \A k \in DOMAIN cuts' : \A a, b \in Node : cuts'[k] = << a, b >> => CutRight(k, a, b)'
      <4> SUFFICES ASSUME NEW k \in DOMAIN cuts', NEW a \in Node, NEW b \in Node, cuts'[k] = << a, b >>
                   PROVE  CutRight(k, a, b)'
        OBVIOUS
      <4>1. CASE k = 1 /\ cuts'[k] = << g, p >>
        <5>1. a = g /\ b = p
          BY <4>1
        <5> QED BY <3>1, <4>1, <5>1
      <4>2. CASE \E x \in DOMAIN w : k = x + 1 /\ cuts'[k] = w[x]
        <5>1. PICK x \in DOMAIN w : k = x + 1 /\ w[x] = << a, b >>
          BY <4>2
        <5> QED BY <3>2, <5>1
      <4> QED BY <3>3, <4>1, <4>2
    <3> QED BY <1>1, <1>5, <1>13, <2>8, <3>4 DEF Cutting
  <2>16. \A m \in marked : parents'[m] = parents[m]
    BY <2>2, <2>4 DEF TypeOK
  <2> QED BY <1>9, <1>12, <2>10, <2>11, <2>12, <2>13, <2>14, <2>15, <2>16 DEF PInv
<1> QED BY <1>15, <1>16

\* The next child has only visited ones in front of it; when there is none left, all
\* children have been visited.
LEMMA NextIs ==
  ASSUME TypeOK, PInv, pc = "pruning", stack # <<>>
  PROVE  /\ \A n \in NextChild : n \in Node /\ IsIn(n, children[Top]) /\ Passed(Top, n)
         /\ NextChild = {} => \A m \in Node : IsIn(m, children[Top]) => m \in marked
<1> DEFINE t == Top
           l == children[t]
<1>1. t \in Node /\ Loops /\ l \in Seq(Node) /\ IsInjective(l)
  BY StackIs, PruneIs
<1>2. Len(l) \in Nat /\ DOMAIN l = 1 .. Len(l) /\ \A k \in DOMAIN l : l[k] \in Node /\ IsIn(l[k], l)
  BY <1>1 DEF IsIn
<1>3. \A i, j \in DOMAIN l : l[i] = l[j] => i = j
  BY <1>1 DEF IsInjective
<1>4. \A n : Passed(t, n) <=> \A i, j \in DOMAIN l : l[j] = n /\ i < j => l[i] \in marked
  BY DEF Passed
<1>5. back \in Node => IsIn(back, l) /\ back \in marked /\ Passed(t, back)
  <2>1. \A a, b \in Node : stack # <<>> /\ Top = a /\ back = b =>
          IsIn(b, children[a]) /\ b \in marked /\ Passed(a, b)
    BY <1>1 DEF Loops
  <2> QED BY <1>1, <2>1
<1>6. NextChild = IF back = None
      THEN { l[k] : k \in {1} \cap DOMAIN l }
      ELSE { l[k] : k \in { j \in DOMAIN l : j > 1 /\ l[j - 1] = back } }
  BY DEF NextChild
<1>7. back = None \/ back \in Node
  BY DEF TypeOK
<1> HIDE DEF t, l
<1>8. CASE back = None
  <2>1. \A n \in NextChild : 1 \in DOMAIN l /\ n = l[1]
    BY <1>6, <1>8
  <2>2. \A i, j \in DOMAIN l : l[j] = l[1] /\ 1 \in DOMAIN l /\ i < j => FALSE
    BY <1>2, <1>3
  <2>3. ASSUME NextChild = {}  PROVE \A m \in Node : ~IsIn(m, l)
    <3>1. 1 \notin DOMAIN l
      BY <1>6, <1>8, <2>3
    <3>2. DOMAIN l = {}
      BY <1>2, <3>1
    <3> QED BY <3>2 DEF IsIn
  <2> QED BY <1>2, <1>4, <2>1, <2>2, <2>3 DEF t, l
<1>9. CASE back \in Node
  <2>0. back # None
    BY <1>9, PathAssumption
  <2>1. PICK i \in DOMAIN l : l[i] = back
    BY <1>5, <1>9 DEF IsIn
  <2>2. \A k \in DOMAIN l : k < i => l[k] \in marked
    BY <1>4, <1>5, <1>9, <2>1
  <2>3. back \in marked
    BY <1>5, <1>9
  <2>4. ASSUME NEW n \in NextChild
        PROVE  i + 1 \in DOMAIN l /\ n = l[i + 1]
    <3>1. PICK j \in DOMAIN l : j > 1 /\ l[j - 1] = back /\ n = l[j]
      BY <1>6, <2>0, <2>4
    <3>2. j - 1 \in DOMAIN l
      BY <1>2, <3>1
    <3>3. j - 1 = i
      BY <1>3, <2>1, <3>1, <3>2
    <3>4. i + 1 = j
      BY <1>2, <3>1, <3>3
    <3> QED BY <3>1, <3>4
  <2>5. ASSUME NEW n \in NextChild
        PROVE  n \in Node /\ IsIn(n, l) /\ Passed(t, n)
    <3>1. i + 1 \in DOMAIN l /\ n = l[i + 1]
      BY <2>4
    <3>2. ASSUME NEW x \in DOMAIN l, NEW y \in DOMAIN l, l[y] = n, x < y  PROVE l[x] \in marked
      <4>1. y = i + 1
        BY <1>3, <3>1, <3>2
      <4>2. x = i \/ x < i
        BY <1>2, <2>1, <3>2, <4>1
      <4> QED BY <2>1, <2>2, <2>3, <4>2
    <3> QED BY <1>2, <1>4, <3>1, <3>2
  <2>6. ASSUME NextChild = {}, NEW m \in Node, IsIn(m, l)  PROVE m \in marked
    <3>1. i + 1 \notin DOMAIN l
      <4> SUFFICES ASSUME i + 1 \in DOMAIN l  PROVE FALSE
        OBVIOUS
      <4>1. i + 1 > 1 /\ (i + 1) - 1 = i
        BY <1>2, <2>1
      <4>2. l[i + 1] \in NextChild
        BY <1>6, <2>0, <2>1, <4>1
      <4> QED BY <4>2, <2>6
    <3>2. i = Len(l)
      BY <1>2, <2>1, <3>1
    <3>3. PICK k \in DOMAIN l : l[k] = m
      BY <2>6 DEF IsIn
    <3>4. k = i \/ k < i
      BY <1>2, <3>2, <3>3
    <3> QED BY <2>1, <2>2, <2>3, <3>3, <3>4
  <2> QED BY <2>5, <2>6 DEF t, l
<1> QED BY <1>7, <1>8, <1>9

\* Going on to the next child.
LEMMA DescendPInv ==
  ASSUME TypeOK, PInv, Descend
  PROVE  PInv' /\ stack' \in Seq(Node) /\ back' \in Node \cup {None}
<1>1. /\ pc = "pruning" /\ pc' = pc /\ cuts = <<>> /\ stack # <<>> /\ Top \in marked
      /\ UNCHANGED << children, parents, trace, marked, cuts >>
  BY DEF Descend, graph, lists
<1>2. PICK n \in NextChild :
        IF n \in marked THEN back' = n /\ UNCHANGED stack
        ELSE stack' = Append(stack, n) /\ back' = None
  BY DEF Descend
<1>3. n \in Node /\ IsIn(n, children[Top]) /\ Passed(Top, n)
  BY <1>1, NextIs
<1>4. /\ Complete0 /\ Agree /\ Reached /\ Untouched /\ Calls /\ Loops /\ Cutting
  BY <1>1, PruneIs
<1>5. /\ Len(stack) \in Nat /\ Len(stack) >= 1 /\ DOMAIN stack = 1 .. Len(stack)
      /\ \A k \in 1 .. Len(stack) : stack[k] \in Node
      /\ stack[1] = Source /\ Top = stack[Len(stack)] /\ Top \in Node
      /\ \A m : InStack(m) <=> \E k \in 1 .. Len(stack) : stack[k] = m
      /\ \A k \in 1 .. Len(stack) - 1 : stack[k] \in marked
  BY <1>1, StackIs
<1>6. None \notin Node /\ stack \in Seq(Node) /\ IsInjective(stack)
  BY <1>4, PathAssumption DEF TypeOK, Calls
<1>7. Kept(Top, n)
  BY <1>1, <1>3, InEmpty DEF Kept
<1>8. \A a, b \in Node : /\ Kept(a, b)' <=> Kept(a, b)
                         /\ Orig(a, b)' <=> Orig(a, b)
                         /\ Passed(a, b)' <=> Passed(a, b)
  BY <1>1 DEF Kept, Orig, Passed
<1>9. Complete0' /\ Agree' /\ Reached' /\ Untouched'
  <2>1. Complete0'
    BY <1>1, <1>4 DEF Complete0
  <2>2. Agree'
    BY <1>1, <1>4, <1>8 DEF Agree
  <2>3. Reached'
    <3>1. Pins' = Pins
      BY <1>1 DEF Pins, PinOf
    <3> QED BY <1>4, <1>8, <3>1 DEF Reached
  <2>4. Untouched'
    BY <1>1, <1>4, <1>8 DEF Untouched, Removed
  <2> QED BY <2>1, <2>2, <2>3, <2>4
<1>10. Cutting'
  BY <1>1 DEF Cutting, IsInjective
<1>11. CASE n \in marked
  <2>1. back' = n /\ stack' = stack
    BY <1>2, <1>11
  <2>2. Calls'
    BY <1>1, <1>4, <1>8, <2>1 DEF Calls, InStack
  <2>3. Loops'
    <3>1. Top' = Top
      BY <2>1 DEF Top
    <3>2. \A a, b \in Node : Top' = a /\ back' = b => IsIn(b, children'[a]) /\ b \in marked' /\ Passed(a, b)'
      BY <1>1, <1>3, <1>5, <1>8, <1>11, <2>1, <3>1
    <3> QED BY <1>1, <1>4, <1>8, <2>1, <3>2 DEF Loops
  <2> QED BY <1>1, <1>3, <1>6, <1>9, <1>10, <2>1, <2>2, <2>3 DEF PInv
<1>12. CASE n \notin marked
  <2> DEFINE l == Len(stack)
  <2>1. stack' = Append(stack, n) /\ back' = None
    BY <1>2, <1>12
  <2>2. ~IsIn(n, stack)
    <3>1. \A k \in 1 .. Len(stack) : k \in 1 .. Len(stack) - 1 \/ k = Len(stack)
      BY <1>5, Places
    <3> QED BY <1>1, <1>5, <1>12, <3>1 DEF InStack
  <2>3. /\ stack' \in Seq(Node) /\ Len(stack') = l + 1 /\ stack' # <<>>
        /\ stack'[l + 1] = n
        /\ \A k \in 1 .. l : stack'[k] = stack[k]
        /\ \A m : IsIn(m, stack') <=> m = n \/ IsIn(m, stack)
        /\ IsInjective(stack')
    BY <1>3, <1>6, <2>1, <2>2, InAppend
  <2>4. l \in Nat /\ l >= 1
    BY <1>5
  <2> HIDE DEF l
  <2>5. \A k \in 1 .. Len(stack') - 1 : \/ k \in 1 .. l - 1 /\ k \in 1 .. l /\ k + 1 \in 1 .. l
                                        \/ k = l /\ k \in 1 .. l
    <3>1. Len(stack') - 1 = l
      BY <2>3, <2>4
    <3> QED BY <2>4, <3>1, Places
  <2>6. ASSUME NEW k \in 1 .. Len(stack') - 1, NEW a \in Node, NEW b \in Node,
               stack'[k] = a, stack'[k + 1] = b
        PROVE  a \in marked' /\ Kept(a, b)' /\ Passed(a, b)'
    <3>1. CASE k \in 1 .. l - 1 /\ k \in 1 .. l /\ k + 1 \in 1 .. l
      <4>1. stack[k] = a /\ stack[k + 1] = b
        BY <2>3, <2>6, <3>1
      <4> QED BY <1>1, <1>4, <1>8, <3>1, <4>1 DEF Calls, Loops, l
    <3>2. CASE k = l /\ k \in 1 .. l
      <4>1. a = Top /\ b = n
        BY <1>5, <2>3, <2>6, <3>2 DEF l
      <4> QED BY <1>1, <1>3, <1>7, <1>8, <4>1
    <3> QED BY <2>5, <3>1, <3>2
  <2>7. Calls'
    <3>1. stack'[1] = Source
      <4>1. 1 \in 1 .. l
        BY <2>4
      <4> QED BY <1>5, <2>3, <4>1
    <3>2. \A m : InStack(m) => InStack(m)'
      BY <2>3 DEF InStack
    <3> QED BY <1>1, <1>4, <2>3, <2>6, <3>1, <3>2 DEF Calls
  <2>8. Loops'
    BY <1>6, <2>1, <2>6 DEF Loops
  <2> QED BY <1>1, <1>9, <1>10, <2>1, <2>3, <2>7, <2>8 DEF PInv
<1> QED BY <1>11, <1>12

\* Returning from a call, all children of the node being visited.
LEMMA ReturnPInv ==
  ASSUME TypeOK, PInv, Return
  PROVE  PInv' /\ stack' \in Seq(Node) /\ back' \in Node \cup {None}
<1>1. /\ pc = "pruning" /\ pc' = pc /\ cuts = <<>> /\ stack # <<>> /\ Top \in marked /\ NextChild = {}
      /\ back' = Top /\ stack' = Front(stack)
      /\ UNCHANGED << children, parents, trace, marked, cuts >>
  BY DEF Return, graph, lists
<1>2. \A m \in Node : IsIn(m, children[Top]) => m \in marked
  BY <1>1, NextIs
<1>3. Complete0 /\ Agree /\ Reached /\ Untouched /\ Calls /\ Loops /\ Cutting
      /\ (\A a, b \in Node : IsIn(a, parents[b]) <=> Kept(a, b))
  BY <1>1, PruneIs
<1> DEFINE l == Len(stack)
<1>4. /\ l \in Nat /\ l >= 1 /\ DOMAIN stack = 1 .. l
      /\ \A k \in 1 .. l : stack[k] \in Node
      /\ stack[1] = Source /\ Top = stack[l] /\ Top \in Node
      /\ \A m : InStack(m) <=> \E k \in 1 .. l : stack[k] = m
      /\ \A i, j \in 1 .. l : stack[i] = stack[j] => i = j
      /\ \A k \in 1 .. l - 1 : stack[k] \in marked /\ Kept(stack[k], stack[k + 1])
      /\ l = 1 => Top = Source
      /\ l # 1 => Kept(Via, Top) /\ Via \in Node /\ Via = stack[l - 1]
  BY <1>1, StackIs
<1>5. stack \in Seq(Node)
  BY DEF TypeOK
<1>6. /\ stack' \in Seq(Node) /\ Len(stack') = l - 1 /\ DOMAIN stack' = 1 .. l - 1
      /\ \A k \in 1 .. l - 1 : stack'[k] = stack[k]
  <2>1. stack' = SubSeq(stack, 1, l - 1)
    BY <1>1 DEF Front
  <2>2. 1 \in Int /\ l - 1 \in Int /\ \A i \in 1 .. l - 1 : stack[i] \in Node
    BY <1>4
  <2> HIDE DEF l
  <2>3. /\ stack' \in Seq(Node) /\ Len(stack') = IF 1 <= l - 1 THEN (l - 1) - 1 + 1 ELSE 0
        /\ \A i \in 1 .. (l - 1) - 1 + 1 : stack'[i] = stack[1 + i - 1]
    BY <2>1, <2>2, SubSeqProperties
  <2>4. (l - 1) - 1 + 1 = l - 1 /\ \A i \in 1 .. l - 1 : 1 + i - 1 = i
    BY <1>4
  <2>5. Len(stack') = l - 1
    BY <1>4, <2>3, <2>4
  <2> QED BY <2>3, <2>4, <2>5
<1> HIDE DEF l
<1>7. \A k \in 1 .. l - 1 : k \in 1 .. l /\ k # l /\ k + 1 \in 1 .. l
  BY <1>4, Places
<1>8. \A a, b \in Node : /\ Kept(a, b)' <=> Kept(a, b)
                         /\ Orig(a, b)' <=> Orig(a, b)
                         /\ Passed(a, b)' <=> Passed(a, b)
  BY <1>1 DEF Kept, Orig, Passed
<1>9. Complete0' /\ Agree' /\ Reached' /\ Untouched'
  <2>1. Complete0'
    BY <1>1, <1>3 DEF Complete0
  <2>2. Agree'
    BY <1>1, <1>3, <1>8 DEF Agree
  <2>3. Reached'
    <3>1. Pins' = Pins
      BY <1>1 DEF Pins, PinOf
    <3> QED BY <1>3, <1>8, <3>1 DEF Reached
  <2>4. Untouched'
    BY <1>1, <1>3, <1>8 DEF Untouched, Removed
  <2> QED BY <2>1, <2>2, <2>3, <2>4
<1>10. Cutting'
  BY <1>1 DEF Cutting, IsInjective
<1>11. \A k \in 1 .. (l - 1) - 1 : k \in 1 .. l - 1 /\ k + 1 \in 1 .. l - 1
  <2>1. l - 1 \in Nat
    BY <1>4
  <2> QED BY <2>1, Places
<1>12. \A k \in 1 .. Len(stack') - 1 : \A a, b \in Node :
         stack'[k] = a /\ stack'[k + 1] = b => a \in marked' /\ Kept(a, b)' /\ Passed(a, b)'
  <2> SUFFICES ASSUME NEW k \in 1 .. Len(stack') - 1, NEW a \in Node, NEW b \in Node,
                      stack'[k] = a, stack'[k + 1] = b
               PROVE  a \in marked' /\ Kept(a, b)' /\ Passed(a, b)'
    OBVIOUS
  <2>1. k \in 1 .. l - 1 /\ stack[k] = a /\ stack[k + 1] = b
    BY <1>6, <1>11
  <2> QED BY <1>1, <1>3, <1>8, <2>1 DEF Calls, Loops, l
<1>13. Calls'
  <2>1. stack' = <<>> => Source \in marked
    <3>1. stack' = <<>> => l = 1
      BY <1>4, <1>6
    <3> QED BY <1>1, <1>4, <3>1
  <2>2. stack' # <<>> => stack'[1] = Source
    <3>1. stack' # <<>> => 1 \in 1 .. l - 1
      BY <1>4, <1>6
    <3> QED BY <1>4, <1>6, <3>1
  <2>3. IsInjective(stack')
    BY <1>4, <1>6, <1>7 DEF IsInjective
  <2>4. ASSUME NEW m \in marked', ~InStack(m)'  PROVE \A q \in Node : IsIn(q, children'[m]) => q \in marked'
    <3>1. InStack(m) => m = Top
      <4>1. \A k \in 1 .. l : k # l => k \in 1 .. l - 1
        BY <1>4
      <4>2. \A k \in 1 .. l - 1 : stack[k] # m
        BY <1>6, <2>4 DEF InStack, IsIn
      <4> QED BY <1>4, <4>1, <4>2
    <3> QED BY <1>1, <1>2, <1>3, <3>1 DEF Calls
  <2> QED BY <1>1, <1>3, <1>12, <2>1, <2>2, <2>3, <2>4 DEF Calls
<1>14. Loops'
  <2>1. ASSUME NEW a \in Node, NEW b \in Node, stack' # <<>>, Top' = a, back' = b
        PROVE  IsIn(b, children'[a]) /\ b \in marked' /\ Passed(a, b)'
    <3>1. l # 1 /\ l - 1 \in 1 .. l - 1 /\ (l - 1) + 1 = l
      BY <1>4, <1>6, <2>1
    <3>2. a = stack[l - 1] /\ b = stack[l] /\ b = Top
      BY <1>1, <1>4, <1>6, <2>1, <3>1 DEF Top, Last
    <3>3. Kept(a, b) /\ Passed(a, b)
      BY <1>3, <3>1, <3>2 DEF Calls, Loops, l
    <3> QED BY <1>1, <1>8, <3>2, <3>3 DEF Kept
  <2> QED BY <1>12, <2>1 DEF Loops
<1> QED BY <1>1, <1>4, <1>6, <1>9, <1>10, <1>13, <1>14 DEF PInv
-----------------------------------------------------------------------------
(* The tree *)

\* Tree, of the child lists C.
TreeOf(C) ==
  LET within[k \in Nat] ==
        IF k = 0 THEN {Source}
        ELSE LET near == within[k - 1]
             IN  near \cup UNION { ToSet(C[n]) : n \in near }
  IN  within[Cardinality(Node)]

\* It is the least set of nodes with the SOURCE and all children of its nodes.
LEMMA TreeOfIs ==
  ASSUME NEW C \in [Node -> Seq(Node)]
  PROVE  /\ Source \in TreeOf(C) /\ TreeOf(C) \subseteq Node
         /\ \A a \in TreeOf(C), b \in Node : IsIn(b, C[a]) => b \in TreeOf(C)
         /\ \A X \in SUBSET Node :
              Source \in X /\ (\A a \in X, b \in Node : IsIn(b, C[a]) => b \in X) => TreeOf(C) \subseteq X
<1> DEFINE S == SUBSET Node
           G(x) == x \cup UNION { ToSet(C[n]) : n \in x }
           W(w) == w = [k \in Nat |-> IF k = 0 THEN {Source} ELSE G(w[k - 1])]
           g == [e \in Nat \X S |-> G(e[2])]
           u == CHOOSE w : W(w)
           T == u[Cardinality(Node)]
<1>1. TreeOf(C) = T
  BY Zenon DEF TreeOf
<1>2. Source \in Node /\ IsFiniteSet(Node)
  BY PathAssumption
<1>3. \A n \in Node : \A b : b \in ToSet(C[n]) <=> IsIn(b, C[n])
  BY DEF ToSet, IsIn
<1>4. \A n \in Node : ToSet(C[n]) \subseteq Node
  BY <1>3, InSome
<1>5. \A x \in S : G(x) \in S /\ x \subseteq G(x)
  BY <1>4
<1>6. \A x \in S : \A b : b \in G(x) <=> b \in x \/ \E a \in x : IsIn(b, C[a])
  BY <1>3
<1> HIDE DEF G
<1>7. \E w : W(w)
  <2>1. g \in [Nat \X S -> S] /\ {Source} \in S
    BY <1>2, <1>5
  <2>2. \A n \in Nat, x \in S : g[<< n, x >>] = G(x)
    OBVIOUS
  <2> HIDE DEF g, S
  <2>3. PICK f : IsRecursion(f, S, {Source}, g)
    BY <2>1, Recursion
  <2>4. f \in [Nat -> S] /\ f[0] = {Source} /\ \A n \in Nat : f[n + 1] = G(f[n])
    BY <2>2, <2>3 DEF IsRecursion
  <2>5. \A k \in Nat : f[k] = IF k = 0 THEN {Source} ELSE G(f[k - 1])
    <3> SUFFICES ASSUME NEW k \in Nat, k # 0  PROVE f[k] = G(f[k - 1])
      BY <2>4
    <3>1. k - 1 \in Nat /\ (k - 1) + 1 = k
      OBVIOUS
    <3> QED BY <2>4, <3>1
  <2>6. f = [k \in Nat |-> f[k]]
    BY <2>4
  <2>7. W(f)
    BY <2>5, <2>6
  <2> QED BY <2>7
<1>8. W(u)
  <2> HIDE DEF W
  <2> QED BY <1>7, Zenon
<1> HIDE DEF u, W, g
<1>9. u[0] = {Source} /\ \A k \in Nat : u[k + 1] = G(u[k])
  <2>1. \A k \in Nat : k + 1 \in Nat /\ k + 1 # 0 /\ (k + 1) - 1 = k
    OBVIOUS
  <2>2. \A k \in Nat : u[k] = IF k = 0 THEN {Source} ELSE G(u[k - 1])
    BY <1>8 DEF W
  <2> QED BY <2>1, <2>2
<1>10. u \in [Nat -> S]
  <2> DEFINE A == { k \in Nat : u[k] \in S }
  <2>1. 0 \in A
    BY <1>2, <1>9
  <2>2. ASSUME NEW k \in Nat, k \in A  PROVE k + 1 \in A
    <3>1. u[k] \in S /\ u[k + 1] = G(u[k]) /\ k + 1 \in Nat
      BY <1>9, <2>2
    <3> QED BY <1>5, <3>1
  <2> HIDE DEF A
  <2>3. Nat \subseteq A
    BY <2>1, <2>2, NatInduct
  <2>4. \A k \in Nat : u[k] \in S
    BY <2>3 DEF A
  <2> QED BY <1>8, <2>4 DEF W
<1>11. \A k \in Nat : u[k] \subseteq T
  <2>1. \A k \in Nat : u[k] \subseteq u[k + 1]
    <3> SUFFICES ASSUME NEW k \in Nat  PROVE u[k] \subseteq u[k + 1]
      OBVIOUS
    <3>1. u[k] \in S /\ u[k + 1] = G(u[k])
      BY <1>9, <1>10
    <3> QED BY <1>5, <3>1
  <2>2. \A k \in Nat : u[k + 1] = u[k] => u[k + 2] = u[k + 1]
    <3>1. \A k \in Nat : k + 1 \in Nat /\ (k + 1) + 1 = k + 2
      OBVIOUS
    <3> QED BY <1>9, <3>1
  <2> HIDE DEF T
  <2>3. \A k \in Nat : u[k] \subseteq u[Cardinality(Node)]
    BY <1>2, <1>10, <2>1, <2>2, Saturates
  <2> QED BY <2>3 DEF T
<1>12. Cardinality(Node) \in Nat
  BY <1>2, FS_CardinalityType
<1>13. Source \in T /\ T \in S
  BY <1>9, <1>10, <1>11, <1>12
<1>14. ASSUME NEW a \in T, NEW b \in Node, IsIn(b, C[a])  PROVE b \in T
  <2>1. b \in G(T)
    BY <1>6, <1>13, <1>14
  <2> DEFINE c == Cardinality(Node)
  <2> HIDE DEF c
  <2>2. G(T) = u[c + 1] /\ c + 1 \in Nat
    <3>1. c \in Nat /\ T = u[c]
      BY <1>12 DEF c
    <3> HIDE DEF T
    <3> QED BY <1>9, <3>1
  <2> QED BY <1>11, <2>1, <2>2
<1>15. ASSUME NEW X \in SUBSET Node, Source \in X, \A a \in X, b \in Node : IsIn(b, C[a]) => b \in X
       PROVE  T \subseteq X
  <2> DEFINE A == { k \in Nat : u[k] \subseteq X }
  <2>1. 0 \in A
    BY <1>9, <1>15
  <2>2. ASSUME NEW k \in Nat, k \in A  PROVE k + 1 \in A
    <3>1. u[k] \subseteq X /\ u[k] \in S /\ u[k + 1] = G(u[k]) /\ G(u[k]) \in S
      BY <1>5, <1>9, <1>10, <2>2
    <3>2. G(u[k]) \subseteq X
      BY <1>6, <1>15, <3>1
    <3> QED BY <3>1, <3>2
  <2> HIDE DEF A
  <2>3. Nat \subseteq A
    BY <2>1, <2>2, NatInduct
  <2> QED BY <1>12, <2>3 DEF A
<1> HIDE DEF T
<1> QED BY <1>1, <1>13, <1>14, <1>15

\* The same for the child lists as they are.
LEMMA TreeIs ==
  ASSUME TypeOK
  PROVE  /\ Source \in Tree /\ Tree \subseteq Node
         /\ \A a \in Tree, b \in Node : IsIn(b, children[a]) => b \in Tree
         /\ \A X \in SUBSET Node :
              Source \in X /\ (\A a \in X, b \in Node : IsIn(b, children[a]) => b \in X) => Tree \subseteq X
<1>1. Tree = TreeOf(children)
  BY Zenon DEF Tree, TreeOf
<1>2. children \in [Node -> Seq(Node)]
  BY DEF TypeOK
<1> QED BY <1>1, <1>2, TreeOfIs

\* The tree is that of the child lists alone.
LEMMA TreeStays ==
  ASSUME UNCHANGED children
  PROVE  Tree' = Tree
<1>1. Tree = TreeOf(children)
  BY Zenon DEF Tree, TreeOf
<1>2. Tree' = TreeOf(children')
  BY Zenon DEF Tree, TreeOf
<1> QED BY <1>1, <1>2

\* What a pruned graph is, link by link.
LEMMA ShapeIs ==
  ASSUME TypeOK, Shape, Pruned
  PROVE  /\ parents[Source] = <<>> /\ Pins \subseteq Tree
         /\ \A a, b \in Node : IsIn(b, children[a]) => Orig(a, b)
         /\ \A n \in Tree \ {Source} : Len(parents[n]) = 1 /\ Head(parents[n]) \in Node
              /\ \A m : IsIn(m, parents[n]) <=> m = Head(parents[n])
         /\ \A n \in Tree \ {Source}, m \in Tree : IsIn(n, children[m]) <=> m = Head(parents[n])
<1>1. /\ \A a, b \in Node : IsIn(b, children[a]) => Orig(a, b)
      /\ Pins \subseteq Tree /\ parents[Source] = <<>>
      /\ \A n \in Tree \ {Source} :
           /\ Len(parents[n]) = 1
           /\ \A m \in Tree : IsIn(n, children[m]) <=> m = Head(parents[n])
  BY DEF Shape, PrunedToTree
<1>2. Tree \subseteq Node
  BY TreeIs
<1>3. ASSUME NEW n \in Tree \ {Source}
      PROVE  Head(parents[n]) \in Node /\ \A m : IsIn(m, parents[n]) <=> m = Head(parents[n])
  <2>1. parents[n] \in Seq(Node) /\ Len(parents[n]) = 1
    BY <1>1, <1>2 DEF TypeOK
  <2>2. parents[n] # <<>>
    BY <2>1, InSome, InEmpty
  <2> QED BY <2>1, <2>2, InSome
<1> QED BY <1>1, <1>3

\* The first child that has not been visited is a child and has not been visited; there
\* is none only when all children have been.
LEMMA UnvisitedIs ==
  ASSUME TypeOK, NEW n \in Node
  PROVE  /\ \A m \in Unvisited(n) : m \in Node /\ IsIn(m, children[n]) /\ m \notin marked
         /\ Unvisited(n) = {} => \A m \in Node : IsIn(m, children[n]) => m \in marked
<1> DEFINE l == children[n]
           J == { j \in DOMAIN l : l[j] \notin marked }
<1>1. l \in Seq(Node)
  BY DEF TypeOK
<1>2. Unvisited(n) = { l[k] : k \in { j \in DOMAIN l : l[j] \notin marked /\ \A i \in 1 .. j - 1 : l[i] \in marked } }
  BY DEF Unvisited
<1> HIDE DEF l
<1>3. Len(l) \in Nat /\ DOMAIN l = 1 .. Len(l) /\ \A k \in DOMAIN l : l[k] \in Node /\ IsIn(l[k], l)
  BY <1>1 DEF IsIn
<1>4. ASSUME NEW m \in Node, IsIn(m, l), m \notin marked  PROVE Unvisited(n) # {}
  <2>1. J \in SUBSET Nat /\ J # {}
    BY <1>3, <1>4 DEF IsIn
  <2>2. PICK j \in J : \A y \in J : j <= y
    BY <2>1, Least
  <2>3. j \in DOMAIN l /\ l[j] \notin marked /\ \A i \in 1 .. j - 1 : l[i] \in marked
    <3>1. \A i \in 1 .. j - 1 : i \in DOMAIN l /\ ~(j <= i)
      BY <1>3, <2>2
    <3> QED BY <2>2, <3>1
  <2> QED BY <1>2, <2>3
<1> QED BY <1>2, <1>3, <1>4 DEF l

-----------------------------------------------------------------------------
(* Writing the trace of the net *)

\* When the search is over every node of the tree has been visited, and the graph is
\* the tree that was wanted.
LEMMA StartTraceWInv ==
  ASSUME TypeOK, PInv, StartTrace
  PROVE  WInv'
<1>1. /\ pc = "pruning" /\ stack = <<>> /\ out' = << Source >> /\ at' = Source /\ marked' = {} /\ pc' = "down"
      /\ UNCHANGED << children, parents, trace >>
  BY DEF StartTrace, graph, lists
<1>2. /\ Complete0 /\ Reached /\ Calls /\ Cutting
      /\ \A a, b \in Node : IsIn(a, parents[b]) <=> Kept(a, b)
      /\ \A a, b \in Node : IsIn(b, children[a]) => Orig(a, b)
      /\ parents[Source] = <<>> /\ parents \in [Node -> Seq(Node)]
  BY <1>1, PruneIs
<1>3. \A a, b \in Node : Kept(a, b) <=> IsIn(b, children[a])
  <2>1. ~(Len(stack) > 1)
    BY <1>1
  <2>2. cuts = <<>>
    BY <1>2, <2>1 DEF Cutting
  <2> QED BY <2>2, InEmpty DEF Kept
<1>4. /\ Source \in Tree /\ Tree \subseteq Node
      /\ \A a \in Tree, b \in Node : IsIn(b, children[a]) => b \in Tree
      /\ \A X \in SUBSET Node :
           Source \in X /\ (\A a \in X, b \in Node : IsIn(b, children[a]) => b \in X) => Tree \subseteq X
  BY TreeIs
<1>5. Tree \subseteq marked
  <2>1. marked \in SUBSET Node
    BY DEF TypeOK
  <2>2. Source \in marked
    BY <1>1, <1>2 DEF Calls
  <2>3. \A n \in marked : ~InStack(n)
    BY <1>1, InEmpty DEF InStack
  <2>4. \A a \in marked, b \in Node : IsIn(b, children[a]) => b \in marked
    BY <1>2, <2>3 DEF Calls
  <2> QED BY <1>4, <2>1, <2>2, <2>4
<1>6. Pins \subseteq Tree
  <2>1. Tree \in SUBSET Node /\ \A a \in Tree, b \in Node : Kept(a, b) => b \in Tree
    BY <1>3, <1>4
  <2> QED BY <1>2, <1>4, <2>1 DEF Reached
<1>7. ASSUME NEW n \in Tree \ {Source}
      PROVE  Len(parents[n]) = 1 /\ \A m \in Tree : IsIn(n, children[m]) <=> m = Head(parents[n])
  <2>1. Len(parents[n]) = 1 /\ parents[n] \in Seq(Node)
    BY <1>2, <1>4, <1>5 DEF Calls
  <2>2. \A m : IsIn(m, parents[n]) <=> m = Head(parents[n])
    BY <2>1, InSome
  <2> QED BY <1>2, <1>3, <1>4, <2>1, <2>2
<1>8. Shape'
  <2>1. Tree' = Tree
    BY <1>1, TreeStays
  <2>2. Pins' = Pins
    BY <1>1 DEF Pins, PinOf
  <2>3. \A a, b \in Node : Orig(a, b)' <=> Orig(a, b)
    BY <1>1 DEF Orig
  <2>4. Complete0'
    BY <1>1, <1>2 DEF Complete0
  <2>5. PrunedToTree'
    BY <1>1, <1>2, <1>6, <1>7, <2>1, <2>2 DEF PrunedToTree
  <2> QED BY <1>1, <1>2, <2>3, <2>4, <2>5 DEF Shape
<1>9. Written'
  <2>1. Tree' = Tree
    BY <1>1, TreeStays
  <2>2. out' # <<>> /\ Len(out') = 1 /\ out'[1] = Source
    BY <1>1
  <2>3. \A p : ~IsIn(p, parents'[Source])
    BY <1>1, <1>2, InEmpty
  <2> QED BY <1>1, <1>4, <2>1, <2>2, <2>3 DEF Written
<1>10. Pending' /\ Finished'
  BY <1>1 DEF Pending, Finished
<1>11. Form'
  <2>1. Len(out') = 1 /\ \A n : IsIn(n, out') => n = Source
    BY <1>1, InSingle, PathAssumption
  <2>2. 2 .. Len(out') = {}
    BY <2>1
  <2> QED BY <1>1, <2>1, <2>2 DEF Form
<1> QED BY <1>8, <1>9, <1>10, <1>11 DEF WInv

\* What stays as it is while the trace is written.
LEMMA WritingIs ==
  ASSUME TypeOK, Shape, Pruned, Pruned', UNCHANGED << children, parents, trace >>
  PROVE  /\ Shape' /\ Tree' = Tree /\ (LeavesArePins' <=> LeavesArePins)
         /\ \A X : IsUpward(X)' <=> IsUpward(X)
<1>1. Tree' = Tree
  BY TreeStays
<1>2. Pins' = Pins
  BY DEF Pins, PinOf
<1>3. \A a, b \in Node : Orig(a, b)' <=> Orig(a, b)
  BY DEF Orig
<1>4. Complete0' <=> Complete0
  BY DEF Complete0
<1>5. PrunedToTree' <=> PrunedToTree
  BY <1>1, <1>2 DEF PrunedToTree
<1>6. LeavesArePins' <=> LeavesArePins
  BY <1>1, <1>2 DEF LeavesArePins
<1>7. \A X : IsUpward(X)' <=> IsUpward(X)
  BY DEF IsUpward
<1>8. Shape'
  BY <1>3, <1>4, <1>5 DEF Shape
<1> QED BY <1>1, <1>6, <1>7, <1>8

\* What has been written stays good when more is written.
LEMMA MoreOut ==
  ASSUME TypeOK, NEW x \in Node, out # <<>>, out' = Append(out, x), UNCHANGED trace
  PROVE  LET l == Len(out)
         IN  /\ l \in Nat /\ l >= 1 /\ out' \in Seq(Node) /\ out' # <<>> /\ Len(out') = l + 1
             /\ out'[1] = out[1] /\ out'[l + 1] = x /\ out'[(l + 1) - 1] = out[l]
             /\ \A m : IsIn(m, out') <=> m = x \/ IsIn(m, out)
             /\ (\A k \in 2 .. l : GoodStep(k)) => \A k \in 2 .. l : GoodStep(k)'
             /\ \A k \in 2 .. Len(out') : k \in 2 .. l \/ k = l + 1
             /\ \A j \in 1 .. (l + 1) - 1 : j \in DOMAIN out /\ out'[j] = out[j]
             /\ \A m : IsIn(m, out) => \E j \in 1 .. (l + 1) - 1 : out'[j] = m
<1> DEFINE l == Len(out)
<1>1. out \in Seq(Node) /\ l \in Nat /\ l >= 1 /\ DOMAIN out = 1 .. l
  <2>1. out \in Seq(Node)
    BY DEF TypeOK
  <2>2. l \in Nat /\ DOMAIN out = 1 .. l /\ l # 0
    BY <2>1
  <2> QED BY <2>1, <2>2
<1>2. /\ out' \in Seq(Node) /\ Len(out') = l + 1 /\ out' # <<>>
      /\ out'[l + 1] = x
      /\ \A k \in 1 .. l : out'[k] = out[k]
      /\ \A m : IsIn(m, out') <=> m = x \/ IsIn(m, out)
  BY <1>1, InAppend
<1> HIDE DEF l
<1>3. /\ 1 \in 1 .. l /\ l \in 1 .. l /\ (l + 1) - 1 = l
      /\ \A k \in 2 .. l : k \in 1 .. l /\ k - 1 \in 1 .. l /\ \A j \in 1 .. k - 1 : j \in 1 .. l
      /\ \A k \in 2 .. l + 1 : k \in 2 .. l \/ k = l + 1
  BY <1>1
<1>4. ASSUME NEW k \in 2 .. l, GoodStep(k)  PROVE GoodStep(k)'
  <2>1. out'[k] = out[k] /\ out'[k - 1] = out[k - 1] /\ \A j \in 1 .. k - 1 : out'[j] = out[j]
    BY <1>2, <1>3
  <2> QED BY <1>4, <2>1 DEF GoodStep
<1>5. out'[1] = out[1] /\ out'[(l + 1) - 1] = out[l]
  BY <1>2, <1>3
<1>6. \A m : IsIn(m, out) => \E j \in 1 .. (l + 1) - 1 : out'[j] = m
  BY <1>1, <1>2, <1>3 DEF IsIn
<1> QED BY <1>1, <1>2, <1>3, <1>4, <1>5, <1>6 DEF l

\* Going down writes a node that has not been written.
LEMMA DownWInv ==
  ASSUME TypeOK, WInv, Down
  PROVE  WInv' /\ at' \in Node /\ out' \in Seq(Node)
<1>1. /\ pc = "down" /\ marked' = marked \cup {at}
      /\ UNCHANGED << children, parents, trace >>
      /\ \/ /\ children[at] = <<>>
            /\ out' = Append(out, FirstEdge[at])
            /\ pc' = "up"
            /\ at' = at
         \/ /\ at' \in Unvisited(at)
            /\ out' = Append(out, at')
            /\ pc' = pc
  BY DEF Down, graph, lists
<1>2. Shape /\ Written /\ Pending /\ Form /\ Pruned /\ Pruned'
  BY <1>1 DEF WInv, Pruned
<1>3. Shape' /\ Tree' = Tree /\ (LeavesArePins' <=> LeavesArePins) /\ \A X : IsUpward(X)' <=> IsUpward(X)
  BY <1>1, <1>2, WritingIs
<1>4. /\ Tree \subseteq Node /\ \A a \in Tree, b \in Node : IsIn(b, children[a]) => b \in Tree
  BY TreeIs
<1>5. /\ parents[Source] = <<>> /\ Complete0
      /\ \A a, b \in Node : IsIn(b, children[a]) => Orig(a, b)
      /\ \A n \in Tree \ {Source} : \A m : IsIn(m, parents[n]) <=> m = Head(parents[n])
      /\ \A n \in Tree \ {Source}, m \in Tree : IsIn(n, children[m]) <=> m = Head(parents[n])
  BY <1>2, ShapeIs DEF Shape
<1>6. /\ at \in Tree /\ at \in Node /\ marked \subseteq Tree
      /\ out # <<>> /\ out[1] = Source
      /\ out[Len(out)] = at /\ IsIn(at, out)
      /\ \A n \in marked : IsIn(n, out)
      /\ \A n \in marked \cup {at}, p \in Node : IsIn(p, parents[n]) => p \in marked
      /\ \A m \in marked : children[m] = <<>> => IsIn(FirstEdge[m], out)
      /\ Source \in marked \/ at = Source
  <2>1. out # <<>> /\ out[Len(out)] = at
    BY <1>1, <1>2 DEF Written
  <2>2. IsIn(at, out)
    <3>1. Len(out) \in DOMAIN out
      BY <2>1 DEF TypeOK
    <3> QED BY <2>1, <3>1 DEF IsIn
  <2> QED BY <1>1, <1>2, <1>4, <2>1, <2>2 DEF Written
<1>7. PICK l \in Nat : l = Len(out)
  BY DEF TypeOK
<1>8. CASE /\ children[at] = <<>>
           /\ out' = Append(out, FirstEdge[at])
           /\ pc' = "up"
           /\ at' = at
  <2>1. FirstEdge[at] \in Node
    BY <1>6, PathAssumption
  <2>2. /\ l \in Nat /\ l >= 1 /\ out' \in Seq(Node) /\ out' # <<>> /\ Len(out') = l + 1
        /\ out'[1] = out[1] /\ out'[l + 1] = FirstEdge[at] /\ out'[(l + 1) - 1] = at
        /\ \A m : IsIn(m, out') <=> m = FirstEdge[at] \/ IsIn(m, out)
        /\ (\A k \in 2 .. l : GoodStep(k)) => \A k \in 2 .. l : GoodStep(k)'
        /\ \A k \in 2 .. Len(out') : k \in 2 .. l \/ k = l + 1
    BY <1>1, <1>6, <1>7, <1>8, <2>1, MoreOut
  <2>3. Written'
    BY <1>1, <1>3, <1>6, <1>8, <2>2 DEF Written
  <2>4. Pending'
    <3> SUFFICES ASSUME NEW m \in marked', NEW n \in Node, IsIn(n, children'[m]), n \notin marked',
                        NEW X \in SUBSET Node, at' \in X, IsUpward(X)'
                 PROVE  m \in X
      BY DEF Pending
    <3>1. m \in marked /\ IsIn(n, children[m]) /\ n \notin marked
      BY <1>1, <1>8, InEmpty
    <3> QED BY <1>2, <1>3, <1>8, <3>1 DEF Pending
  <2>5. Form'
    <3> SUFFICES ASSUME LeavesArePins'
                 PROVE  /\ \A k \in 2 .. Len(out') : GoodStep(k)'
                        /\ pc' # "down" => out'[Len(out')] \in Sink
                        /\ \A n \in Node \ Sink : IsIn(n, out') => n \in marked' \/ (pc' = "down" /\ n = at')
      BY DEF Form
    <3>1. LeavesArePins /\ at \in Pins
      BY <1>2, <1>3, <1>6, <1>8 DEF LeavesArePins
    <3>2. PICK c \in Con : at = PinOf(c)
      BY <1>5, <3>1, OrigIs
    <3>3. trace[c] # <<>>
      BY <1>5 DEF Complete0
    <3> DEFINE L == Len(trace[c])
    <3>4. /\ L \in Nat /\ L >= 3
          /\ \A k \in 1 .. L : trace[c][k] \in Sink <=> k = L
          /\ FirstEdge[trace[c][L - 1]] = trace[c][L] /\ trace[c][L] \in Sink
          /\ PinOf(c) = trace[c][L - 1]
      BY <3>3, TraceIs
    <3> HIDE DEF L
    <3>5. L \in 2 .. L /\ L - 1 \in 1 .. L /\ L - 1 # L
      BY <3>4
    <3>6. at \notin Sink /\ FirstEdge[at] \in Sink /\ trace[c][L - 1] = at /\ trace[c][L] = FirstEdge[at]
      BY <3>2, <3>4, <3>5
    <3>7. \A k \in 2 .. l : GoodStep(k)
      BY <1>2, <1>7, <3>1 DEF Form
    <3>8. GoodStep(l + 1)'
      <4>1. \E d \in Con : \E i \in 2 .. Len(trace'[d]) :
              trace'[d][i - 1] = out'[(l + 1) - 1] /\ trace'[d][i] = out'[l + 1]
        BY <1>1, <2>2, <3>5, <3>6 DEF L
      <4> QED BY <2>2, <3>6, <4>1 DEF GoodStep
    <3>9. \A n \in Node \ Sink : IsIn(n, out) => n \in marked \/ n = at
      BY <1>2, <3>1 DEF Form
    <3> QED BY <1>1, <1>8, <2>2, <3>6, <3>7, <3>8, <3>9
  <2>6. Finished'
    BY <1>8 DEF Finished
  <2> QED BY <1>3, <1>6, <1>8, <2>2, <2>3, <2>4, <2>5, <2>6 DEF WInv
<1>9. CASE /\ at' \in Unvisited(at)
           /\ out' = Append(out, at')
           /\ pc' = pc
  <2>1. PICK n \in Node : n = at' /\ IsIn(n, children[at]) /\ n \notin marked
    BY <1>6, <1>9, UnvisitedIs
  <2>2. Orig(at, n) /\ at # n /\ n # Source /\ at \notin Sink /\ n \notin Sink
    BY <1>5, <1>6, <2>1, OrigIs
  <2>3. n \in Tree /\ \A m : IsIn(m, parents[n]) <=> m = at
    <3>1. n \in Tree \ {Source}
      BY <1>4, <1>6, <2>1, <2>2
    <3>2. at = Head(parents[n])
      BY <1>5, <1>6, <2>1, <3>1
    <3> QED BY <1>5, <3>1, <3>2
  <2>4. /\ l \in Nat /\ l >= 1 /\ out' \in Seq(Node) /\ out' # <<>> /\ Len(out') = l + 1
        /\ out'[1] = out[1] /\ out'[l + 1] = n /\ out'[(l + 1) - 1] = at
        /\ \A m : IsIn(m, out') <=> m = n \/ IsIn(m, out)
        /\ (\A k \in 2 .. l : GoodStep(k)) => \A k \in 2 .. l : GoodStep(k)'
        /\ \A k \in 2 .. Len(out') : k \in 2 .. l \/ k = l + 1
        /\ \A j \in 1 .. (l + 1) - 1 : j \in DOMAIN out /\ out'[j] = out[j]
    BY <1>1, <1>6, <1>7, <1>9, <2>1, MoreOut
  <2>5. Written'
    <3>1. \A m \in marked' : children'[m] = <<>> => IsIn(FirstEdge[m], out')
      BY <1>1, <1>6, <2>1, <2>4, InEmpty
    <3>2. \A m \in marked' \cup {at'}, p \in Node : IsIn(p, parents'[m]) => p \in marked'
      BY <1>1, <1>6, <2>1, <2>3
    <3>3. marked' \subseteq Tree' /\ at' \in Tree' /\ Source \in marked'
      BY <1>1, <1>3, <1>6, <2>1, <2>3
    <3>4. \A m \in marked' : IsIn(m, out')
      BY <1>1, <1>6, <2>4
    <3> QED BY <1>1, <1>6, <1>9, <2>1, <2>4, <3>1, <3>2, <3>3, <3>4 DEF Written
  <2>6. Pending'
    <3> SUFFICES ASSUME NEW m \in marked', NEW y \in Node, IsIn(y, children'[m]), y \notin marked',
                        NEW X \in SUBSET Node, at' \in X, IsUpward(X)'
                 PROVE  m \in X
      BY DEF Pending
    <3>1. at \in X
      <4>1. IsUpward(X)
        BY <1>3
      <4> QED BY <1>6, <2>1, <2>3, <4>1 DEF IsUpward
    <3>2. m # at => m \in marked /\ IsIn(y, children[m]) /\ y \notin marked
      BY <1>1
    <3> QED BY <1>2, <1>3, <3>1, <3>2 DEF Pending
  <2>7. Form'
    <3> SUFFICES ASSUME LeavesArePins'
                 PROVE  /\ \A k \in 2 .. Len(out') : GoodStep(k)'
                        /\ pc' # "down" => out'[Len(out')] \in Sink
                        /\ \A m \in Node \ Sink : IsIn(m, out') => m \in marked' \/ (pc' = "down" /\ m = at')
      BY DEF Form
    <3>1. LeavesArePins
      BY <1>3
    <3>2. \A k \in 2 .. l : GoodStep(k)
      BY <1>2, <1>7, <3>1 DEF Form
    <3>3. \A m \in Node \ Sink : IsIn(m, out) => m \in marked \/ m = at
      BY <1>2, <3>1 DEF Form
    <3>4. GoodStep(l + 1)'
      <4>1. \E d \in Con : \E i \in 2 .. Len(trace'[d]) :
              trace'[d][i - 1] = out'[(l + 1) - 1] /\ trace'[d][i] = out'[l + 1]
        <5>1. PICK d \in Con : \E k \in 1 .. Len(trace[d]) - 2 : trace[d][k] = at /\ trace[d][k + 1] = n
          BY <2>2 DEF Orig
        <5>2. PICK k \in 1 .. Len(trace[d]) - 2 : trace[d][k] = at /\ trace[d][k + 1] = n
          BY <5>1
        <5>3. Len(trace[d]) \in Nat
          BY DEF TypeOK
        <5>4. k + 1 \in 2 .. Len(trace[d]) /\ (k + 1) - 1 = k
          BY <5>3
        <5> QED BY <1>1, <2>4, <5>2, <5>4
      <4>2. ~\E j \in 1 .. (l + 1) - 1 : out'[j] = out'[l + 1]
        <5>1. ~IsIn(n, out)
          BY <2>1, <2>2, <3>3
        <5> QED BY <2>4, <5>1 DEF IsIn
      <4> QED BY <2>2, <2>4, <4>1, <4>2 DEF GoodStep
    <3> QED BY <1>1, <1>9, <2>1, <2>4, <3>2, <3>3, <3>4
  <2>8. Finished'
    BY <1>1, <1>9 DEF Finished
  <2> QED BY <1>3, <2>1, <2>4, <2>5, <2>6, <2>7, <2>8 DEF WInv
<1> QED BY <1>1, <1>8, <1>9

\* Going back up passes only nodes of which every child has been visited.
LEMMA UpWInv ==
  ASSUME TypeOK, WInv, Up
  PROVE  WInv' /\ at' \in Node /\ out' \in Seq(Node)
<1>1. /\ pc = "up" /\ marked' = marked
      /\ UNCHANGED << children, parents, trace >>
      /\ \/ /\ Unvisited(at) # {}
            /\ out' = Append(out, at)
            /\ pc' = "down"
            /\ at' = at
         \/ /\ Unvisited(at) = {}
            /\ IF parents[at] = <<>> THEN pc' = "done" /\ at' = at
               ELSE at' = Head(parents[at]) /\ pc' = pc
            /\ out' = out
  BY DEF Up, graph, lists, prune
<1>2. Shape /\ Written /\ Pending /\ Form /\ Pruned /\ Pruned'
  BY <1>1 DEF WInv, Pruned
<1>3. Shape' /\ Tree' = Tree /\ (LeavesArePins' <=> LeavesArePins) /\ \A X : IsUpward(X)' <=> IsUpward(X)
  BY <1>1, <1>2, WritingIs
<1>4. /\ Source \in Tree /\ Tree \subseteq Node
      /\ \A a \in Tree, b \in Node : IsIn(b, children[a]) => b \in Tree
      /\ \A X \in SUBSET Node :
           Source \in X /\ (\A a \in X, b \in Node : IsIn(b, children[a]) => b \in X) => Tree \subseteq X
  BY TreeIs
<1>5. /\ parents[Source] = <<>>
      /\ \A n \in Tree \ {Source} : Len(parents[n]) = 1 /\ \A m : IsIn(m, parents[n]) <=> m = Head(parents[n])
  BY <1>2, ShapeIs
<1>6. /\ at \in Tree /\ at \in Node /\ marked \subseteq Tree /\ at \in marked /\ Source \in marked
      /\ out # <<>> /\ out[1] = Source
      /\ \A n \in marked : IsIn(n, out)
      /\ \A n \in marked \cup {at}, p \in Node : IsIn(p, parents[n]) => p \in marked
      /\ \A m \in marked : children[m] = <<>> => IsIn(FirstEdge[m], out)
  BY <1>1, <1>2, <1>4 DEF Written
<1>7. out \in Seq(Node)
  BY DEF TypeOK
<1>8. CASE /\ Unvisited(at) # {}
           /\ out' = Append(out, at)
           /\ pc' = "down"
           /\ at' = at
  <2>1. PICK l \in Nat : l = Len(out)
    BY DEF TypeOK
  <2>2. /\ l >= 1 /\ out' \in Seq(Node) /\ out' # <<>> /\ Len(out') = l + 1
        /\ out'[1] = out[1] /\ out'[l + 1] = at /\ out'[(l + 1) - 1] = out[l]
        /\ \A m : IsIn(m, out') <=> m = at \/ IsIn(m, out)
        /\ (\A k \in 2 .. l : GoodStep(k)) => \A k \in 2 .. l : GoodStep(k)'
        /\ \A k \in 2 .. Len(out') : k \in 2 .. l \/ k = l + 1
        /\ \A m : IsIn(m, out) => \E j \in 1 .. (l + 1) - 1 : out'[j] = m
    BY <1>1, <1>6, <1>8, <2>1, MoreOut
  <2>3. Written'
    BY <1>1, <1>3, <1>6, <1>8, <2>2 DEF Written
  <2>4. Pending'
    BY <1>1, <1>2, <1>3, <1>8 DEF Pending
  <2>5. Form'
    <3> SUFFICES ASSUME LeavesArePins'
                 PROVE  /\ \A k \in 2 .. Len(out') : GoodStep(k)'
                        /\ pc' # "down" => out'[Len(out')] \in Sink
                        /\ \A m \in Node \ Sink : IsIn(m, out') => m \in marked' \/ (pc' = "down" /\ m = at')
      BY DEF Form
    <3>1. /\ \A k \in 2 .. l : GoodStep(k)
          /\ out[l] \in Sink
          /\ \A m \in Node \ Sink : IsIn(m, out) => m \in marked
      BY <1>1, <1>2, <1>3, <2>1 DEF Form
    <3>2. GoodStep(l + 1)'
      <4>1. IsIn(at, out)
        BY <1>6
      <4> QED BY <2>2, <3>1, <4>1 DEF GoodStep
    <3> QED BY <1>1, <1>8, <2>2, <3>1, <3>2
  <2>6. Finished'
    BY <1>8 DEF Finished
  <2> QED BY <1>3, <1>6, <1>8, <2>2, <2>3, <2>4, <2>5, <2>6 DEF WInv
<1>9. CASE Unvisited(at) = {} /\ out' = out /\ parents[at] = <<>> /\ pc' = "done" /\ at' = at
  <2>1. \A m \in Node : IsIn(m, children[at]) => m \in marked
    BY <1>6, <1>9, UnvisitedIs
  <2>2. at = Source
    <3> SUFFICES ASSUME at # Source  PROVE FALSE
      OBVIOUS
    <3>1. IsIn(Head(parents[at]), parents[at])
      BY <1>5, <1>6
    <3> QED BY <1>9, <3>1, InEmpty
  <2>3. Tree \subseteq marked
    <3>1. ASSUME NEW a \in marked, NEW b \in Node, IsIn(b, children[a])  PROVE b \in marked
      <4> SUFFICES ASSUME b \notin marked  PROVE FALSE
        OBVIOUS
      <4>1. at \in {Source} /\ {Source} \in SUBSET Node /\ IsUpward({Source})
        BY <1>4, <1>5, <2>2, InEmpty DEF IsUpward
      <4>2. \A X \in SUBSET Node : at \in X /\ IsUpward(X) => a \in X
        BY <1>2, <3>1 DEF Pending
      <4>3. a = at
        BY <2>2, <4>1, <4>2
      <4> QED BY <2>1, <3>1, <4>3
    <3>2. marked \in SUBSET Node
      BY <1>4, <1>6
    <3> QED BY <1>4, <1>6, <3>1, <3>2
  <2>4. Written'
    BY <1>1, <1>3, <1>6, <1>9 DEF Written
  <2>5. Pending'
    BY <1>1, <1>2, <1>3, <1>9 DEF Pending
  <2>6. Form'
    <3>1. \A k : GoodStep(k)' <=> GoodStep(k)
      BY <1>1, <1>9 DEF GoodStep
    <3> QED BY <1>1, <1>2, <1>3, <1>9, <3>1 DEF Form
  <2>7. Finished'
    BY <1>1, <1>3, <2>3 DEF Finished
  <2> QED BY <1>3, <1>6, <1>7, <1>9, <2>4, <2>5, <2>6, <2>7 DEF WInv
<1>10. CASE Unvisited(at) = {} /\ out' = out /\ parents[at] # <<>> /\ at' = Head(parents[at]) /\ pc' = pc
  <2>1. \A m \in Node : IsIn(m, children[at]) => m \in marked
    BY <1>6, <1>10, UnvisitedIs
  <2>2. PICK h \in Node : h = at' /\ \A m : IsIn(m, parents[at]) <=> m = h
    <3>1. at # Source
      BY <1>5, <1>10
    <3>2. Head(parents[at]) \in Node
      BY <1>6, <1>10, InSome DEF TypeOK
    <3> QED BY <1>5, <1>6, <1>10, <3>1, <3>2
  <2>3. h \in marked /\ h \in Tree
    BY <1>6, <2>2
  <2>4. Written'
    <3>1. \A n \in marked' \cup {at'}, p \in Node : IsIn(p, parents'[n]) => p \in marked'
      BY <1>1, <1>6, <2>2, <2>3
    <3>2. at' \in Tree' /\ marked' \subseteq Tree' /\ at' \in marked' /\ Source \in marked'
      BY <1>1, <1>3, <1>6, <2>2, <2>3
    <3>3. \A m \in marked' : IsIn(m, out') /\ (children'[m] = <<>> => IsIn(FirstEdge[m], out'))
      BY <1>1, <1>6, <1>10
    <3> QED BY <1>1, <1>6, <1>10, <3>1, <3>2, <3>3 DEF Written
  <2>5. Pending'
    <3> SUFFICES ASSUME NEW m \in marked', NEW y \in Node, IsIn(y, children'[m]), y \notin marked',
                        NEW X \in SUBSET Node, at' \in X, IsUpward(X)'
                 PROVE  m \in X
      BY DEF Pending
    <3>1. m \in marked /\ IsIn(y, children[m]) /\ y \notin marked
      BY <1>1
    <3>2. IsUpward(X)
      BY <1>3
    <3>3. X \cup {at} \in SUBSET Node /\ at \in X \cup {at} /\ IsUpward(X \cup {at})
      BY <1>6, <2>2, <3>2 DEF IsUpward
    <3>4. m \in X \cup {at}
      BY <1>2, <3>1, <3>3 DEF Pending
    <3>5. m # at
      BY <2>1, <3>1
    <3> QED BY <3>4, <3>5
  <2>6. Form'
    <3>1. \A k : GoodStep(k)' <=> GoodStep(k)
      BY <1>1, <1>10 DEF GoodStep
    <3> QED BY <1>1, <1>2, <1>3, <1>10, <3>1 DEF Form
  <2>7. Finished'
    BY <1>1, <1>10 DEF Finished
  <2> QED BY <1>3, <1>7, <1>10, <2>2, <2>4, <2>5, <2>6, <2>7 DEF WInv
<1> QED BY <1>1, <1>8, <1>9, <1>10

-----------------------------------------------------------------------------
(* The invariant *)

PruningStep ==
  Finalize \/ Enter \/ CutParent \/ Descend \/ Return \/ StartTrace \/ Down \/ Up

\* The steps made when the net has been routed keep the types ...
LEMMA PruningTypes ==
  ASSUME TypeOK, RInv, PInv, WInv, PruningStep
  PROVE  TypeOK'
<1>0. Source \in Node /\ None \notin Node
  BY PathAssumption
<1>1. ASSUME Finalize  PROVE TypeOK'
  <2>1. /\ stack' = << Source >> /\ back' = None /\ marked' = {} /\ cuts' = <<>> /\ pc' = "pruning"
        /\ UNCHANGED << graph, walk, out >>
    BY <1>1 DEF Finalize
  <2>2. << Source >> \in Seq(Node)
    BY <1>0
  <2> QED BY <2>1, <2>2, SMTT(30) DEF TypeOK, graph, lists, walk
<1>2. ASSUME Enter  PROVE TypeOK'
  <2>1. /\ marked' = marked \cup {Top} /\ Top \in Node /\ back' = None
        /\ UNCHANGED << children, use, mapped, inGraph, trace, con, at, pos, stack, out, pc >>
        /\ cuts' \in Seq(Edge) /\ parents' \in [Node -> Seq(Node)]
    BY <1>2, EnterIs
  <2> QED BY <2>1 DEF TypeOK
<1>3. ASSUME CutParent  PROVE TypeOK'
  <2>1. /\ pc = "pruning" /\ cuts # <<>>
        /\ UNCHANGED << mapped, inGraph, trace, walk, stack, back, marked, out >>
    BY <1>3 DEF CutParent
  <2>2. PICK p \in Node, n \in Node : Head(cuts) = << p, n >> /\ Tail(cuts) \in Seq(Edge)
    BY <2>1, CutIs
  <2> DEFINE chain == children[p] = << n >> /\ Len(parents[p]) = 1
  <2>3. /\ children' = [children EXCEPT ![p] = Without(children[p], n)]
        /\ use' = [use EXCEPT ![<< p, n >>] = 0]
        /\ chain => /\ cuts' = << << Head(parents[p]), p >> >> \o Tail(cuts)
                    /\ parents' = [parents EXCEPT ![p] = <<>>]
        /\ ~chain => cuts' = Tail(cuts) /\ parents' = parents
    <3>1. Head(cuts)[1] = p /\ Head(cuts)[2] = n
      BY <2>2
    <3> QED BY <1>3, <3>1 DEF CutParent
  <2>4. /\ children \in [Node -> Seq(Node)] /\ parents \in [Node -> Seq(Node)]
        /\ IsInjective(children[p])
    BY <2>1, PruneIs
  <2>5. Without(children[p], n) \in Seq(Node)
    BY <2>4, WithoutIs
  <2>6. children' \in [Node -> Seq(Node)]
    BY <2>3, <2>4, <2>5
  <2>7. use' \in [Edge -> Nat]
    BY <2>3 DEF TypeOK
  <2>8. parents' \in [Node -> Seq(Node)] /\ cuts' \in Seq(Edge)
    <3>1. CASE chain
      <4>1. << >> \in Seq(Node)
        OBVIOUS
      <4>2. Head(parents[p]) \in Node
        BY <2>4, <3>1, InSome, InEmpty
      <4>3. << Head(parents[p]), p >> \in Edge
        BY <4>2 DEF Edge
      <4>4. << << Head(parents[p]), p >> >> \o Tail(cuts) \in Seq(Edge)
        BY <2>2, <4>3, InFront
      <4> QED BY <2>3, <2>4, <3>1, <4>1, <4>4
    <3>2. CASE ~chain
      BY <2>2, <2>3, <2>4, <3>2
    <3> QED BY <3>1, <3>2
  <2>9. pc' = "pruning"
    BY <1>3, CutParentPInv
  <2> QED BY <2>1, <2>6, <2>7, <2>8, <2>9 DEF TypeOK, walk
<1>4. ASSUME Descend \/ Return  PROVE TypeOK'
  <2>1. /\ pc' = pc
        /\ UNCHANGED << graph, walk, marked, cuts, out >>
    BY <1>4 DEF Descend, Return
  <2>2. stack' \in Seq(Node) /\ back' \in Node \cup {None}
    BY <1>4, DescendPInv, ReturnPInv
  <2> QED BY <2>1, <2>2 DEF TypeOK, graph, lists, walk
<1>5. ASSUME StartTrace  PROVE TypeOK'
  <2>1. /\ out' = << Source >> /\ at' = Source /\ marked' = {} /\ pc' = "down"
        /\ UNCHANGED << graph, con, pos, stack, back, cuts >>
    BY <1>5 DEF StartTrace
  <2>2. << Source >> \in Seq(Node)
    BY <1>0
  <2> QED BY <1>0, <2>1, <2>2 DEF TypeOK, graph, lists
<1>6. ASSUME Down \/ Up  PROVE TypeOK'
  <2>1. at' \in Node /\ out' \in Seq(Node)
    BY <1>6, DownWInv, UpWInv
  <2>2. pc' \in {"down", "up", "done"} /\ marked' \subseteq marked \cup {at}
        /\ UNCHANGED << graph, con, pos, stack, back, cuts >>
    BY <1>6 DEF Down, Up, prune
  <2> QED BY <2>1, <2>2 DEF TypeOK, graph, lists
<1> QED BY <1>1, <1>2, <1>3, <1>4, <1>5, <1>6 DEF PruningStep

\* ... and the invariant.
LEMMA PruningIInv ==
  ASSUME IInv, PruningStep
  PROVE  IInv'
<1>1. TypeOK /\ RInv /\ PInv /\ WInv
  BY DEF IInv
<1>2. TypeOK'
  BY <1>1, PruningTypes
<1>3. CASE Finalize \/ Enter \/ CutParent \/ Descend \/ Return
  <2>1. PInv'
    BY <1>1, <1>3, FinalizePInv, EnterPInv, CutParentPInv, DescendPInv, ReturnPInv
  <2>2. pc' = "pruning"
    <3>1. CutParent => pc' = "pruning"
      BY <1>1, CutParentPInv
    <3> QED BY <1>3, <3>1 DEF Finalize, Enter, Descend, Return
  <2> QED BY <1>2, <2>1, <2>2 DEF IInv, RInv, Routing, WInv, Pruned, CInv
<1>4. CASE StartTrace \/ Down \/ Up
  <2>1. WInv'
    BY <1>1, <1>4, StartTraceWInv, DownWInv, UpWInv
  <2>2. pc' \in {"down", "up", "done"}
    BY <1>4 DEF StartTrace, Down, Up
  <2> QED BY <1>2, <2>1, <2>2 DEF IInv, RInv, Routing, PInv, CInv
<1> QED BY <1>3, <1>4 DEF PruningStep

\* The invariant holds at the start, is kept by every step, and so holds always.
LEMMA InitIInv == Init => IInv
<1> SUFFICES ASSUME Init  PROVE IInv
  OBVIOUS
<1>1. /\ Source \in Node /\ Source \notin Sink /\ None \notin Node /\ << >> \in Seq(Node) /\ << >> \in Seq(Edge)
  BY PathAssumption
<1>2. TypeOK
  BY <1>1 DEF Init, TypeOK
<1>3. /\ pc = "idle" /\ inGraph = {Source}
      /\ \A n \in Node : children[n] = <<>> /\ parents[n] = <<>>
      /\ \A a, b \in Node : use[<< a, b >>] = 0
      /\ \A n \in Node : mapped[n] = IF n = Source THEN 1 ELSE 0
      /\ \A c \in Con : trace[c] = <<>>
  BY DEF Init, Edge
<1>4. Cardinality({}) = 0
  BY FS_EmptySet
<1>5. Lists
  <2>1. \A a, b \in Node : Users(a, b) = {}
    <3>1. \A c \in Con : Entered(c) = 0
      BY <1>3 DEF Entered
    <3> QED BY <3>1 DEF Users, RunsOver
  <2>2. \A n \in Node : IsInjective(children[n]) /\ IsInjective(parents[n])
    BY <1>3 DEF IsInjective
  <2> QED BY <1>3, <1>4, <2>1, <2>2, InEmpty DEF Lists
<1>6. MapIsRight
  <2>1. \A n \in Node : Holders(n) = {}
    BY <1>3 DEF Holders, Counted
  <2>2. \A n \in Node : mapped[n] = (IF n = Source THEN 1 ELSE 0) + Cardinality(Holders(n))
    BY <1>3, <1>4, <2>1
  <2>3. \A c \in Con : ~Counted(c)
    BY <1>3 DEF Counted
  <2> QED BY <1>3, <2>2, <2>3 DEF MapIsRight
<1>7. Walking /\ OwnPins
  BY <1>3 DEF Walking, OwnPins, Complete
<1> QED BY <1>2, <1>3, <1>5, <1>6, <1>7 DEF IInv, RInv, PInv, WInv, CInv, Pruned

\* Every step keeps it.
LEMMA NextIInv == IInv /\ [Next]_vars => IInv'
<1> SUFFICES ASSUME IInv, [Next]_vars  PROVE IInv'
  OBVIOUS
<1>1. CASE RoutingStep \/ Stray
  BY <1>1, RoutingIInv
<1>2. CASE PruningStep
  BY <1>2, PruningIInv
<1>3. CASE UNCHANGED vars
  <2>1. UNCHANGED << children, parents, use, mapped, inGraph, trace, con, at, pos, stack, back, marked, cuts,
                     out, pc >>
    BY <1>3 DEF vars, graph, lists, walk, prune
  <2>2. TypeOK'
    BY <2>1 DEF IInv, TypeOK
  <2>3. RInv'
    BY <2>1 DEF IInv, RInv, Routing, Lists, Users, RunsOver, Entered, MapIsRight, Holders, Counted, Walking, OwnPins,
                Complete, PinOf
  <2>4. PInv'
    BY <2>1 DEF IInv, PInv, Complete0, Agree, Orig, Kept, Reached, Pins, PinOf, Untouched, Removed, Calls, InStack,
                Loops, Passed, Top, Cutting, CutRight, Via
  <2>5. WInv'
    <3> SUFFICES ASSUME Pruned'  PROVE WInv'
      BY DEF WInv
    <3>1. TypeOK /\ Pruned /\ Shape /\ Written /\ Pending /\ Form /\ Finished
      BY <2>1 DEF IInv, WInv, Pruned
    <3>2. Shape' /\ Tree' = Tree /\ (LeavesArePins' <=> LeavesArePins) /\ \A X : IsUpward(X)' <=> IsUpward(X)
      BY <2>1, <3>1, WritingIs
    <3>3. \A k : GoodStep(k)' <=> GoodStep(k)
      BY <2>1 DEF GoodStep
    <3>4. Written' /\ Finished'
      BY <2>1, <3>1, <3>2 DEF Written, Finished
    <3>5. Pending'
      BY <2>1, <3>1, <3>2 DEF Pending
    <3>6. Form'
      BY <2>1, <3>1, <3>2, <3>3 DEF Form
    <3> QED BY <3>2, <3>4, <3>5, <3>6 DEF WInv
  <2>6. CInv'
    BY <2>1 DEF IInv, CInv, StrayNeedsSharedPin, PinOf, Ahead
  <2> QED BY <2>2, <2>3, <2>4, <2>5, <2>6 DEF IInv
<1> QED BY <1>1, <1>2, <1>3 DEF Next, Step, RoutingStep, PruningStep, Stopped

\* It is an invariant.
LEMMA AlwaysIInv == Spec => []IInv
  BY InitIInv, NextIInv, PTL DEF Spec

-----------------------------------------------------------------------------
(* What follows from it *)

\* While the graph is pruned every IPIN has a parent, and whatever has a call above it
\* a child.
Linked ==
  pc = "pruning" =>
    /\ \A n \in Pins : parents[n] # <<>>
    /\ \A k \in 1 .. Len(stack) - 1 : children[stack[k]] # <<>>

\* That follows from the invariant.
LEMMA AlwaysLinked == IInv => Linked
<1> SUFFICES ASSUME IInv, pc = "pruning"  PROVE Linked
  BY DEF Linked
<1>1. TypeOK /\ PInv
  BY DEF IInv
<1>2. \A n \in Pins : parents[n] # <<>>
  BY <1>1, PruneIs
<1>3. ASSUME NEW k \in 1 .. Len(stack) - 1  PROVE children[stack[k]] # <<>>
  <2>1. stack # <<>>
    <3> SUFFICES ASSUME stack = <<>>  PROVE FALSE
      OBVIOUS
    <3>1. Len(stack) = 0
      OBVIOUS
    <3>2. 1 .. 0 - 1 = {}
      OBVIOUS
    <3> QED BY <3>1, <3>2, <1>3
  <2>2. Kept(stack[k], stack[k + 1])
    BY <1>1, <1>3, <2>1, StackIs
  <2> QED BY <2>2, InEmpty DEF Kept
<1> QED BY <1>2, <1>3 DEF Linked

\* The links and the variables of the graph and of its walks have their types.
THEOREM Typed == Spec => []TypeOK
<1>1. IInv => TypeOK
  BY DEF IInv
<1> QED BY <1>1, AlwaysIInv, PTL

\* At every step of every walk the graph of the net is the union of the traces entered
\* in it: every edge is in both lists, once, as long as connections run over it, and its
\* usage says how many (update_route_graph, remove_connection_from_route_timing_graph).
THEOREM GraphIsUnion == Spec => []UnionOfTraces
<1>1. IInv => UnionOfTraces
  <2> SUFFICES ASSUME IInv, Routing  PROVE UnionOfTraces
    BY DEF UnionOfTraces
  <2>1. Lists
    BY DEF IInv, RInv
  <2> QED BY <2>1 DEF Lists, UnionOfTraces, Users
<1> QED BY <1>1, AlwaysIInv, PTL

\* The code follows a pointer it must not follow only when a connection comes to the
\* IPIN of another one that leads to the same SINK; remove_parent never does.
THEOREM StraysOnlyAtSharedPin == Spec => []StrayNeedsSharedPin
<1>1. IInv => StrayNeedsSharedPin
  BY DEF IInv, CInv, StrayNeedsSharedPin
<1> QED BY <1>1, AlwaysIInv, PTL

\* finalize_route_graph makes a tree of the graph that has all IPINs of the net,
\* whatever cycles the union of the traces has.
THEOREM PruningLeavesTree == Spec => []PrunedToTree
<1>1. IInv => PrunedToTree
  BY DEF IInv, WInv, Shape, PrunedToTree
<1> QED BY <1>1, AlwaysIInv, PTL

\* The trace written for the net is a tree in the form the checker wants, if the leaves
\* of the pruned graph are IPINs (depth_first_search and backtrace).
THEOREM WritesTree == Spec => []NetTraceIsTree
<1>1. IInv => NetTraceIsTree
  <2> SUFFICES ASSUME IInv, pc = "done", LeavesArePins
               PROVE  /\ out[1] = Source
                      /\ \A k \in 2 .. Len(out) : GoodStep(k)
                      /\ out[Len(out)] \in Sink
                      /\ \A c \in Con : IsIn(Ends(c), out)
    BY DEF NetTraceIsTree, GoodStep
  <2>1. TypeOK /\ Pruned /\ Shape /\ Written /\ Form /\ Finished /\ Complete0
    BY DEF IInv, WInv, Pruned, Shape
  <2>2. out[1] = Source /\ (\A k \in 2 .. Len(out) : GoodStep(k)) /\ out[Len(out)] \in Sink
    BY <2>1 DEF Written, Form
  <2>3. ASSUME NEW c \in Con  PROVE IsIn(Ends(c), out)
    <3>1. trace[c] # <<>>
      BY <2>1 DEF Complete0
    <3>2. PinOf(c) \in Pins /\ FirstEdge[PinOf(c)] = Ends(c)
      BY <2>1, <3>1, TraceIs DEF Pins, Ends
    <3>3. PinOf(c) \in Node /\ PinOf(c) \in marked
      BY <2>1, <3>2, ShapeIs, OrigIs DEF Finished
    <3>4. children[PinOf(c)] = <<>>
      <4>1. \A b \in Node : ~IsIn(b, children[PinOf(c)])
        BY <2>1, <3>2, <3>3, ShapeIs, OrigIs
      <4>2. children[PinOf(c)] \in Seq(Node)
        BY <2>1, <3>3 DEF TypeOK
      <4> QED BY <4>1, <4>2, InSome
    <3> QED BY <2>1, <3>2, <3>3, <3>4 DEF Written
  <2> QED BY <2>2, <2>3
<1> QED BY <1>1, AlwaysIInv, PTL

\* Cutting off the other parents never touches a node the search is at or has passed,
\* and never takes an IPIN out of the graph (remove_parent).
THEOREM SparesVisited == Spec => PruneSparesVisited
<1>1. ASSUME IInv, Linked', [Next]_vars
      PROVE  [pc = "pruning" /\ pc' = "pruning" =>
                \A n \in Node : /\ n \in Pins => parents'[n] # <<>>
                                /\ n \in marked => parents'[n] = parents[n]
                                /\ IsIn(n, Front(stack)) => children'[n] # <<>>]_vars
  <2> SUFFICES ASSUME Next, pc = "pruning", pc' = "pruning", NEW n \in Node
               PROVE  /\ n \in Pins => parents'[n] # <<>>
                      /\ n \in marked => parents'[n] = parents[n]
                      /\ IsIn(n, Front(stack)) => children'[n] # <<>>
    BY <1>1
  <2>1. TypeOK /\ PInv
    BY <1>1 DEF IInv
  <2>2. Enter \/ CutParent \/ Descend \/ Return
    BY DEF Next, Step, Add, RipUp, Finalize, Follow, SwitchBranches, Stray, NewPart, Leaves, Extend, Reconnect,
           Added, StepBack, RippedUp, StartTrace, Down, Up, Stopped
  <2>3. trace' = trace
    BY <2>2 DEF Enter, CutParent, Descend, Return, graph
  <2>4. Pins' = Pins
    BY <2>3 DEF Pins, PinOf
  <2>5. n \in marked => parents'[n] = parents[n]
    <3>1. Descend \/ Return => parents' = parents
      BY DEF Descend, Return, graph, lists
    <3> QED BY <2>1, <2>2, <3>1, EnterPInv, CutParentPInv
  <2>6. ASSUME IsIn(n, Front(stack))  PROVE children'[n] # <<>>
    <3>1. PICK k \in 1 .. Len(stack) - 1 : stack[k] = n
      <4> DEFINE l == Len(stack)
      <4>1. l \in Nat /\ DOMAIN stack = 1 .. l /\ \A k \in 1 .. l : stack[k] \in Node
        BY <2>1 DEF TypeOK
      <4>2. Front(stack) = SubSeq(stack, 1, l - 1)
        BY DEF Front
      <4> HIDE DEF l
      <4>3. 1 \in Int /\ l - 1 \in Int /\ \A i \in 1 .. l - 1 : stack[i] \in Node
        BY <4>1
      <4> DEFINE f == Front(stack)
      <4>4. /\ f \in Seq(Node) /\ Len(f) = IF 1 <= l - 1 THEN (l - 1) - 1 + 1 ELSE 0
            /\ \A i \in 1 .. (l - 1) - 1 + 1 : f[i] = stack[1 + i - 1]
        BY <4>2, <4>3, SubSeqProperties
      <4> HIDE DEF f
      <4>5. PICK k \in DOMAIN f : f[k] = n
        BY <2>6 DEF IsIn, f
      <4>6. k \in 1 .. Len(f)
        BY <4>4
      <4>7. k \in 1 .. l - 1 /\ k \in 1 .. (l - 1) - 1 + 1 /\ 1 + k - 1 = k
        BY <4>1, <4>4, <4>6
      <4> QED BY <4>4, <4>5, <4>7 DEF l
    <3>2. CASE CutParent
      <4>1. stack' = stack
        BY <3>2 DEF CutParent
      <4> QED BY <1>1, <3>1, <4>1 DEF Linked
    <3>3. CASE ~CutParent
      <4>1. children' = children
        BY <2>2, <3>3 DEF Enter, Descend, Return, graph, lists
      <4> QED BY <1>1, <3>1, <4>1, AlwaysLinked DEF Linked
    <3> QED BY <3>2, <3>3
  <2> QED BY <1>1, <2>4, <2>5, <2>6 DEF Linked
<1> QED BY <1>1, AlwaysIInv, AlwaysLinked, PTL DEF Spec, PruneSparesVisited
=============================================================================
