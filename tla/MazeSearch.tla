----------------------------- MODULE MazeSearch -----------------------------
(***************************************************************************)
(* The search for one connection after the other, timing_driven_route_con  *)
(* of vpr/SRC/route/croute_timing.c with node_to_heap, the traceback and   *)
(* reset_path_costs of route_common.c.                                     *)
(*                                                                         *)
(* The searches share rr_node_route_inf.  Only path_cost is cleaned up     *)
(* after a search; backward_path_cost and prev_node keep what earlier      *)
(* searches, made at other prices, left there.                             *)
(*                                                                         *)
(* ConnectionRouter uses the outcome only: RouteCon picks a path of the    *)
(* connection (a cheapest one without estimates), RouteConFails is the     *)
(* case that there is none.                                                *)
(***************************************************************************)
EXTENDS Integers, Sequences, FiniteSets

CONSTANTS
  Node,         \* the rr_nodes
  Edge,         \* the edges << from, to >> between them
  NumSearches,  \* searches are 1 .. NumSearches, one after the other
  SourceOf,     \* [search -> its SOURCE]
  TargetOf,     \* [search -> its SINK]
  Pruned,       \* [search -> nodes never put on the heap: outside the
                \*  bounding box or bin, or IPINs of another block]
  Prices,       \* the edge costs there may be: a set of [Edge -> Nat]
  Estimates,    \* the estimates there may be: a set of [Edge -> Nat]
  NO_PREVIOUS,
  HUGE          \* HUGE_POSITIVE_FLOAT

Search == 1 .. NumSearches

ASSUME SearchAssumption ==
  /\ IsFiniteSet(Node)
  /\ Edge \subseteq Node \X Node
  /\ NumSearches \in Nat
  /\ SourceOf \in [Search -> Node]
  /\ TargetOf \in [Search -> Node]
  /\ Pruned \in [Search -> SUBSET Node]
  /\ Prices \subseteq [Edge -> Nat]
  /\ Estimates \subseteq [Edge -> Nat]
  /\ NO_PREVIOUS \notin Node
  /\ HUGE \in Nat \ {0}

\* Nothing that is added up on the way over every node comes near HUGE.
ASSUME HugeAssumption ==
  \A p \in Prices, h \in Estimates : \A d, e \in Edge :
    Cardinality(Node) * p[d] + h[e] < HUGE

\* A SOURCE is entered by no edge and a SINK left by none.
ASSUME TerminalAssumption ==
  \A s \in Search : \A e \in Edge : e[2] # SourceOf[s] /\ e[1] # TargetOf[s]

VARIABLES
  path_cost,  \* rr_node_route_inf[n].path_cost
  back_cost,  \* rr_node_route_inf[n].backward_path_cost
  prev_node,  \* rr_node_route_inf[n].prev_node
  modified,   \* the nodes on the list of modified path costs
  heap,       \* the wavefront: a set of entries
  search,     \* the current search, or the next one when idle
  price,      \* the cost of an edge during the current or last search: the
              \* congestion cost of the node it leads to, the delay, the bend
  estimate,   \* astar_fac times the expected cost beyond an edge; it depends
              \* on the resistance upstream, hence on the way to the node
  trace,      \* the path found by the last search, << >> for none
  pc

routeInf == << path_cost, back_cost, prev_node, modified >>
vars == << routeInf, heap, search, price, estimate, trace, pc >>

Entry == [index : Node, cost : Nat, back : Nat, prev : Node \cup {NO_PREVIOUS}]

Init ==
  /\ path_cost = [n \in Node |-> HUGE]
  /\ back_cost = [n \in Node |-> 0]
  /\ prev_node = [n \in Node |-> NO_PREVIOUS]
  /\ modified = {}
  /\ heap = {}
  /\ search = 1
  /\ price \in Prices
  /\ estimate \in Estimates
  /\ trace = << >>
  /\ pc = "idle"

\* The SOURCE goes on the heap; prices and estimates are those of the moment.
StartSearch(p, h) ==
  /\ pc = "idle"
  /\ search \in Search
  /\ price' = p
  /\ estimate' = h
  /\ heap' = IF 0 < path_cost[SourceOf[search]]
             THEN {[index |-> SourceOf[search], cost |-> 0, back |-> 0,
                    prev |-> NO_PREVIOUS]}
             ELSE {}
  /\ trace' = << >>
  /\ pc' = "search"
  /\ UNCHANGED << routeInf, search >>

IsCheapest(e) == e \in heap /\ \A f \in heap : e.cost <= f.cost

\* The backward cost counts only when this search has touched the node.
OldBackCost(n) == IF path_cost[n] = HUGE THEN HUGE ELSE back_cost[n]

\* (mutant) a lower expected total is reason enough
IsBetterInTotal(e) == path_cost[e.index] > e.cost

\* "I only re-expand a node if both the known backward cost is lower in the
\* new expansion and the expected total cost to the sink is lower"
IsBetter(e) ==
  /\ path_cost[e.index] > e.cost
  /\ OldBackCost(e.index) > e.back

\* (mutant) the cost of the way so far is forgotten
ReachedAfresh(e, edge) ==
  [ index |-> edge[2], back |-> price[edge],
    cost |-> price[edge] + estimate[edge], prev |-> e.index ]

\* The entry that an edge from the node of e puts on the heap.
Reached(e, edge) ==
  [ index |-> edge[2],
    back  |-> e.back + price[edge],
    cost  |-> e.back + price[edge] + estimate[edge],
    prev  |-> e.index ]

\* Entries for the neighbours, unless they cost more than what is known.
Expansion(e) ==
  { f \in { Reached(e, edge) : edge \in {d \in Edge : d[1] = e.index} } :
      f.index \notin Pruned[search] /\ f.cost < path_cost[f.index] }

\* (mutant) the entry stays on the heap
RestWith(e) == heap

Rest(e) == heap \ {e}

\* A cheapest entry is taken off the heap and improves on its node.
ExpandNode(e) ==
  /\ pc = "search"
  /\ IsCheapest(e)
  /\ e.index # TargetOf[search]
  /\ IsBetter(e)
  /\ prev_node' = [prev_node EXCEPT ![e.index] = e.prev]
  /\ path_cost' = [path_cost EXCEPT ![e.index] = e.cost]
  /\ back_cost' = [back_cost EXCEPT ![e.index] = e.back]
  /\ modified'  = modified \cup {e.index}
  /\ heap' = Rest(e) \cup Expansion(e)
  /\ UNCHANGED << search, price, estimate, trace, pc >>

\* A cheapest entry is taken off the heap and does not.
SkipEntry(e) ==
  /\ pc = "search"
  /\ IsCheapest(e)
  /\ e.index # TargetOf[search]
  /\ ~IsBetter(e)
  /\ heap' = Rest(e)
  /\ UNCHANGED << routeInf, search, price, estimate, trace, pc >>

\* The way back from node n along prev_node (cut off when it never ends).
WayTo(n) ==
  LET way[i \in 0 .. Cardinality(Node)] ==
        IF i = 0 THEN << n >>
        ELSE LET w == way[i - 1]
             IN  IF prev_node[Head(w)] = NO_PREVIOUS THEN w
                 ELSE << prev_node[Head(w)] >> \o w
  IN  way[Cardinality(Node)]

\* update_traceback_td_con: the last step is the one the entry remembers.
Traceback(e) ==
  IF e.prev = NO_PREVIOUS THEN << e.index >> ELSE Append(WayTo(e.prev), e.index)

\* (mutant) the node at the end of the modified list is forgotten
ResetPathCostButFirst ==
  [n \in Node |-> IF n \in modified \ {SourceOf[search]} THEN HUGE ELSE path_cost[n]]

\* reset_path_costs
ResetPathCost == [n \in Node |-> IF n \in modified THEN HUGE ELSE path_cost[n]]

EndSearch ==
  /\ path_cost' = ResetPathCost
  /\ modified' = {}
  /\ heap' = {}
  /\ search' = search + 1
  /\ pc' = "idle"
  /\ UNCHANGED << back_cost, prev_node, price, estimate >>

\* The SINK comes up: its entry is the end of the path.
ReachTarget(e) ==
  /\ pc = "search"
  /\ IsCheapest(e)
  /\ e.index = TargetOf[search]
  /\ trace' = Traceback(e)
  /\ EndSearch

\* The heap runs empty: return false.
SearchFails ==
  /\ pc = "search"
  /\ heap = {}
  /\ trace' = << >>
  /\ EndSearch

Stopped == pc = "idle" /\ search = NumSearches + 1 /\ UNCHANGED vars

Next ==
  \/ \E p \in Prices, h \in Estimates : StartSearch(p, h)
  \/ \E e \in heap : ExpandNode(e) \/ SkipEntry(e) \/ ReachTarget(e)
  \/ SearchFails
  \/ Stopped

Spec == Init /\ [][Next]_vars /\ WF_vars(Next)

-----------------------------------------------------------------------------
(* Reference definitions *)

\* The nodes search s may use.
Open(s) == (Node \ Pruned[s]) \cup {SourceOf[s]}

\* The nodes within i edges of the SOURCE of s.
Within(s) ==
  LET w[i \in 0 .. Cardinality(Node)] ==
        IF i = 0 THEN {SourceOf[s]}
        ELSE w[i - 1] \cup { n \in Open(s) : \E m \in w[i - 1] : << m, n >> \in Edge }
  IN  w[Cardinality(Node)]

\* Cost of a cheapest path of s to every node (Bellman-Ford).
Distance(s) ==
  LET d[i \in 0 .. Cardinality(Node)] ==
        IF i = 0 THEN [n \in Node |-> IF n = SourceOf[s] THEN 0 ELSE HUGE]
        ELSE LET last == d[i - 1]
                 best(n) == { last[e[1]] + price[e] :
                                e \in {f \in Edge : f[2] = n /\ last[f[1]] < HUGE} }
                            \cup {last[n]}
             IN  [n \in Node |->
                    IF n \in Open(s)
                    THEN CHOOSE c \in best(n) : \A b \in best(n) : c <= b
                    ELSE last[n]]
  IN  d[Cardinality(Node)]

PathCost(path) ==
  LET sum[i \in 0 .. Len(path)] ==
        IF i < 2 THEN 0 ELSE sum[i - 1] + price[<< path[i - 1], path[i] >>]
  IN  sum[Len(path)]

IsPath(s, path) ==
  /\ path # << >>
  /\ Head(path) = SourceOf[s]
  /\ \A i \in 2 .. Len(path) : << path[i - 1], path[i] >> \in Edge
  /\ \A i, j \in 1 .. Len(path) : path[i] = path[j] => i = j

\* The estimate never promises more than an edge takes away from it: it
\* belongs to the node, and falls along an edge by at most the price.
IsConsistent(s) ==
  \E h \in [Node -> {estimate[e] : e \in Edge} \cup {0}] :
    /\ h[TargetOf[s]] = 0
    /\ \A e \in Edge : estimate[e] = h[e[2]] /\ h[e[1]] <= price[e] + h[e[2]]

-----------------------------------------------------------------------------
(* Properties *)

\* "this is necessary to prevent loops from forming in the routing and causing
\* havoc" (croute_timing.c): whatever the estimates are, the way back from any
\* node touched by this search is a path from the SOURCE, at no more than the
\* backward cost noted for the node.
WayBack ==
  pc = "search" =>
    \A n \in modified : /\ IsPath(search, WayTo(n))
                        /\ PathCost(WayTo(n)) <= back_cost[n]

\* "Returns true as long as is found some way to hook up this net ... If there
\* is no way ... it returns false": every search ends with a path exactly if
\* the nodes it may use hold one, whatever earlier searches left behind.
FindsAWay ==
  pc = "idle" /\ search > 1 =>
    LET s == search - 1
    IN  IF TargetOf[s] \in Within(s) THEN IsPath(s, trace) /\ trace[Len(trace)] = TargetOf[s]
                                     ELSE trace = << >>

\* With consistent estimates (none at all, for one) the path is a cheapest.
CheapestPath ==
  pc = "idle" /\ search > 1 /\ trace # << >> /\ IsConsistent(search - 1) =>
    PathCost(trace) = Distance(search - 1)[TargetOf[search - 1]]

\* Every search comes to an end, re-expansions included.
SearchesEnd == <>(search = NumSearches + 1)
=============================================================================
