----------------------------- MODULE RouteGraph -----------------------------
(***************************************************************************)
(* The routing graph of one net (croute_tree_timing.c): the union of the   *)
(* traces of its connections, kept up to date while connections are routed *)
(* and ripped up one at a time, because the delays of the net are read     *)
(* from it.  Nodes and edges are linked into child and parent lists; the   *)
(* node map of the net tells which rr_node already has a node in the graph.*)
(* When the routing has succeeded the graph is pruned to a tree and the    *)
(* tree is written out as the trace of the net.                            *)
(*                                                                         *)
(* A node of the graph is known by its rr_node, an edge by its two ends.   *)
(* Every step of the walks through the lists is an action.                 *)
(***************************************************************************)
EXTENDS Integers, FiniteSets, SequencesExt

CONSTANTS
  Node,       \* the rr_nodes around the net
  Sink,       \* those of type SINK: they never get a node in the graph
  Source,     \* the SOURCE that drives the net
  FirstEdge,  \* [Node -> rr_node[n].edges[0]]
  Con,        \* the connections of the net
  Paths       \* [Con -> the traces its search can return]

None == "none"

\* A trace runs from the SOURCE over an IPIN to a SINK and meets no node twice.
\* An IPIN leads nowhere but to its SINK, and nothing else leads to a SINK.
ASSUME PathAssumption ==
  /\ IsFiniteSet(Node) /\ IsFiniteSet(Con)
  /\ None \notin Node
  /\ Sink \subseteq Node
  /\ Source \in Node \ Sink
  /\ FirstEdge \in [Node -> Node]
  /\ \A c \in Con : \A p \in Paths[c] :
       /\ p \in Seq(Node)
       /\ Len(p) >= 3
       /\ p[1] = Source
       /\ \A k \in DOMAIN p : (p[k] \in Sink) <=> (k = Len(p))
       /\ IsInjective(p)
       /\ FirstEdge[p[Len(p) - 1]] = p[Len(p)]
       /\ \A k \in 1 .. Len(p) - 2 : FirstEdge[p[k]] \notin Sink

VARIABLES
  children,  \* [Node -> the rr_nodes at the far end of child_list, in order]
  parents,   \* [Node -> those at the near end of u.parent_list, in order]
  use,       \* [edge -> its usage, 0 when there is no such edge]
  mapped,    \* [Node -> usage in the node map of the net]
  inGraph,   \* nodes whose map entry has an rg_node
  trace,     \* [Con -> trace_head_con, <<>> for NULL]
  con,       \* the connection being added or ripped up
  at, pos,   \* rg_node, and the trace element the walk compares with
  stack,     \* calls of remove_secundary_parents in progress
  back,      \* the child the last of them has returned from, if any
  marked,    \* nodes whose visited flag has been flipped
  cuts,      \* parent links remove_parent still has to take out, as edges
  out,       \* trace of the net as written so far
  pc

lists  == << children, parents, use >>
graph  == << lists, mapped, inGraph, trace >>
walk   == << con, at, pos >>
prune  == << stack, back, marked, cuts >>
vars   == << graph, walk, prune, out, pc >>

Edge == Node \X Node

IsIn(n, list) == \E k \in DOMAIN list : list[k] = n

\* The list after the link to n has been taken out; no list ever has two.
Without(list, n) ==
  IF IsIn(n, list) THEN RemoveAt(list, CHOOSE k \in DOMAIN list : list[k] = n)
  ELSE list

Init ==
  /\ children = [n \in Node |-> <<>>]
  /\ parents  = [n \in Node |-> <<>>]
  /\ use      = [e \in Edge |-> 0]
  /\ mapped   = [n \in Node |-> IF n = Source THEN 1 ELSE 0]
  /\ inGraph  = {Source}
  /\ trace    = [c \in Con |-> <<>>]
  /\ con \in Con /\ at = Source /\ pos = 1
  /\ stack = <<>> /\ back = None /\ marked = {} /\ cuts = <<>>
  /\ out = <<>>
  /\ pc = "idle"

Ahead == trace[con][pos]

-----------------------------------------------------------------------------
(* A connection has been routed: its trace is entered in the graph *)

\* add_con_td counts the nodes in the map before the graph is touched.
Add(c) ==
  /\ pc = "idle"
  /\ trace[c] = <<>>
  /\ \E p \in Paths[c] :
       /\ trace' = [trace EXCEPT ![c] = p]
       /\ mapped' = [n \in Node |-> IF IsIn(n, p) THEN mapped[n] + 1 ELSE mapped[n]]
  /\ con' = c /\ at' = Source /\ pos' = 2
  /\ pc' = "matching"
  /\ UNCHANGED << lists, inGraph, prune, out >>

\* The trace goes on along an edge the graph has.
Follow ==
  /\ pc = "matching"
  /\ IsIn(Ahead, children[at])
  /\ use' = [use EXCEPT ![<< at, Ahead >>] = @ + 1]
  /\ at' = Ahead /\ pos' = pos + 1
  /\ UNCHANGED << children, parents, mapped, inGraph, trace, con, prune, out, pc >>

Leaves == pc = "matching" /\ ~IsIn(Ahead, children[at])

\* The next node is in the graph, but on another branch: the new edge goes to
\* the end of the child list that has just been searched.
SwitchBranches ==
  /\ Leaves
  /\ mapped[Ahead] > 1
  /\ Ahead \in inGraph /\ children[at] # <<>>
  /\ children' = [children EXCEPT ![at] = Append(@, Ahead)]
  /\ parents' = [parents EXCEPT ![Ahead] = << at >> \o @]
  /\ use' = [use EXCEPT ![<< at, Ahead >>] = 1]
  /\ at' = Ahead /\ pos' = pos + 1
  /\ UNCHANGED << mapped, inGraph, trace, con, prune, out, pc >>

\* The map counts the next node twice but has no rg_node for it, or the list
\* just searched is empty and prev_link is not a link of it: the code goes on
\* through a null or a stale pointer.
Stray ==
  /\ Leaves
  /\ mapped[Ahead] > 1
  /\ Ahead \notin inGraph \/ children[at] = <<>>
  /\ pc' = "crashed"
  /\ UNCHANGED << graph, walk, prune, out >>

\* The trace leaves the graph.
NewPart ==
  /\ Leaves
  /\ mapped[Ahead] <= 1
  /\ inGraph' = inGraph \cup {Ahead}
  /\ children' = [children EXCEPT ![at] = << Ahead >> \o @, ![Ahead] = <<>>]
  /\ parents' = [parents EXCEPT ![Ahead] = << at >>]
  /\ use' = [use EXCEPT ![<< at, Ahead >>] = 1]
  /\ at' = Ahead /\ pos' = pos + 1
  /\ pc' = "extending"
  /\ UNCHANGED << mapped, trace, con, prune, out >>

\* (mutant) the map is not told of the new rg_node
ExtendUntold ==
  /\ pc = "extending"
  /\ Ahead \notin inGraph \cup Sink
  /\ children' = [children EXCEPT ![at] = << Ahead >>, ![Ahead] = <<>>]
  /\ parents' = [parents EXCEPT ![Ahead] = << at >>]
  /\ use' = [use EXCEPT ![<< at, Ahead >>] = 1]
  /\ at' = Ahead /\ pos' = pos + 1
  /\ UNCHANGED << mapped, inGraph, trace, con, prune, out, pc >>

Extend ==
  /\ pc = "extending"
  /\ Ahead \notin inGraph \cup Sink
  /\ inGraph' = inGraph \cup {Ahead}
  /\ children' = [children EXCEPT ![at] = << Ahead >>, ![Ahead] = <<>>]
  /\ parents' = [parents EXCEPT ![Ahead] = << at >>]
  /\ use' = [use EXCEPT ![<< at, Ahead >>] = 1]
  /\ at' = Ahead /\ pos' = pos + 1
  /\ UNCHANGED << mapped, trace, con, prune, out, pc >>

Reconnect ==
  /\ pc = "extending"
  /\ Ahead \in inGraph \ Sink
  /\ children' = [children EXCEPT ![at] = << Ahead >>]
  /\ parents' = [parents EXCEPT ![Ahead] = << at >> \o @]
  /\ use' = [use EXCEPT ![<< at, Ahead >>] = 1]
  /\ at' = Ahead /\ pos' = pos + 1
  /\ pc' = "matching"
  /\ UNCHANGED << mapped, inGraph, trace, con, prune, out >>

\* The IPIN in front of the SINK becomes rg_sinks[con].
Added ==
  /\ pc = "extending"
  /\ Ahead \in Sink
  /\ pc' = "idle"
  /\ UNCHANGED << graph, walk, prune, out >>

-----------------------------------------------------------------------------
(* A connection is ripped up: the graph is walked back from its IPIN *)

\* rip_up_con_td takes the nodes out of the map first; an entry whose last
\* use goes takes its rg_node along.
RipUp(c) ==
  /\ pc = "idle"
  /\ trace[c] # <<>>
  /\ mapped' = [n \in Node |-> IF IsIn(n, trace[c]) THEN mapped[n] - 1 ELSE mapped[n]]
  /\ inGraph' = { n \in inGraph : mapped'[n] > 0 }
  /\ con' = c
  /\ pos' = Len(trace[c]) - 1
  /\ at' = trace[c][pos']
  /\ pc' = "ripping"
  /\ UNCHANGED << lists, trace, prune, out >>

\* The first parent of the IPIN; above it the parent the back trace names.
IsWayBack(p) ==
  /\ IsIn(p, parents[at])
  /\ IF pos = Len(trace[con]) - 1
     THEN p = Head(parents[at])
     ELSE pos > 1 /\ p = trace[con][pos - 1]

\* (mutant) an edge is taken out even when another connection runs over it
RipEdgeOutright(p) ==
  /\ use' = [use EXCEPT ![<< p, at >>] = 0]
  /\ parents' = [parents EXCEPT ![at] = Without(@, p)]
  /\ children' = [children EXCEPT ![p] = Without(@, at)]

\* The last connection over an edge takes it out of both lists.
RipEdge(p) ==
  IF use[<< p, at >>] = 1
  THEN /\ use' = [use EXCEPT ![<< p, at >>] = 0]
       /\ parents' = [parents EXCEPT ![at] = Without(@, p)]
       /\ children' = [children EXCEPT ![p] = Without(@, at)]
  ELSE /\ use' = [use EXCEPT ![<< p, at >>] = @ - 1]
       /\ UNCHANGED << children, parents >>

StepBack ==
  /\ pc = "ripping"
  /\ \E p \in Node :
       /\ IsWayBack(p)
       /\ RipEdge(p)
       /\ at' = p
  /\ pos' = pos - 1
  /\ UNCHANGED << mapped, inGraph, trace, con, prune, out, pc >>

\* free_traceback_td_con: the trace goes once the graph has been walked.
RippedUp ==
  /\ pc = "ripping"
  /\ ~\E p \in Node : IsWayBack(p)
  /\ trace' = [trace EXCEPT ![con] = <<>>]
  /\ pc' = "idle"
  /\ UNCHANGED << lists, mapped, inGraph, walk, prune, out >>

-----------------------------------------------------------------------------
(* finalize_route_graph: a node keeps the parent it is first reached from *)

Finalize ==
  /\ pc = "idle"
  /\ \A c \in Con : trace[c] # <<>>
  /\ stack' = << Source >> /\ back' = None /\ marked' = {} /\ cuts' = <<>>
  /\ pc' = "pruning"
  /\ UNCHANGED << graph, walk, out >>

Top == Last(stack)
Via == stack[Len(stack) - 1]

\* (mutant) only the first of the other parents is removed
SecundaryParentsOne(n) ==
  IF Len(parents[n]) > 1 THEN << Head(Without(parents[n], Via)) >> ELSE <<>>

\* The parents of n that the search did not come from.
SecundaryParents(n) ==
  IF Len(parents[n]) > 1 THEN Without(parents[n], Via) ELSE <<>>

Enter ==
  /\ pc = "pruning" /\ cuts = <<>>
  /\ stack # <<>> /\ Top \notin marked
  /\ marked' = marked \cup {Top}
  /\ LET drop == SecundaryParents(Top)
     IN  /\ cuts' = [k \in DOMAIN drop |-> << drop[k], Top >>]
         /\ parents' = IF drop = <<>> THEN parents
                       ELSE [parents EXCEPT ![Top] = << Via >>]
  /\ back' = None
  /\ UNCHANGED << children, use, mapped, inGraph, trace, walk, stack, out, pc >>

\* (mutant) the ancestors go whether or not they have other children
CutParentChain ==
  /\ pc = "pruning" /\ cuts # <<>>
  /\ LET p == Head(cuts)[1]
         n == Head(cuts)[2]
     IN  /\ children' = [children EXCEPT ![p] = Without(@, n)]
         /\ use' = [use EXCEPT ![<< p, n >>] = 0]
         /\ IF Len(parents[p]) = 1
            THEN /\ cuts' = << << Head(parents[p]), p >> >> \o Tail(cuts)
                 /\ parents' = [parents EXCEPT ![p] = <<>>]
            ELSE /\ cuts' = Tail(cuts)
                 /\ UNCHANGED parents
  /\ UNCHANGED << mapped, inGraph, trace, walk, stack, back, marked, out, pc >>

\* remove_parent: a parent that is left without children goes too, and with it
\* the link to its own parent, unless it has several parents: then it stays.
CutParent ==
  /\ pc = "pruning" /\ cuts # <<>>
  /\ LET p == Head(cuts)[1]
         n == Head(cuts)[2]
         childless == children[p] = << n >>
     IN  /\ children' = [children EXCEPT ![p] = Without(@, n)]
         /\ use' = [use EXCEPT ![<< p, n >>] = 0]
         /\ IF childless /\ Len(parents[p]) = 1
            THEN /\ cuts' = << << Head(parents[p]), p >> >> \o Tail(cuts)
                 /\ parents' = [parents EXCEPT ![p] = <<>>]
                 /\ UNCHANGED pc
            ELSE /\ cuts' = Tail(cuts)
                 /\ pc' = IF childless /\ parents[p] = <<>> THEN "crashed" ELSE pc
                 /\ UNCHANGED parents
  /\ UNCHANGED << mapped, inGraph, trace, walk, stack, back, marked, out >>

\* (mutant) the loop starts over after each call
FirstChildAgain == { children[Top][k] : k \in {1} \cap DOMAIN children[Top] }

\* The child the loop over child_list comes to next: {} at its end.
NextChild ==
  LET list == children[Top]
  IN  IF back = None
      THEN { list[k] : k \in {1} \cap DOMAIN list }
      ELSE { list[k] : k \in { j \in DOMAIN list : j > 1 /\ list[j - 1] = back } }

Descend ==
  /\ pc = "pruning" /\ cuts = <<>>
  /\ stack # <<>> /\ Top \in marked
  /\ \E n \in NextChild :
       IF n \in marked
       THEN back' = n /\ UNCHANGED stack
       ELSE stack' = Append(stack, n) /\ back' = None
  /\ UNCHANGED << graph, walk, marked, cuts, out, pc >>

Return ==
  /\ pc = "pruning" /\ cuts = <<>>
  /\ stack # <<>> /\ Top \in marked
  /\ NextChild = {}
  /\ back' = Top
  /\ stack' = Front(stack)
  /\ UNCHANGED << graph, walk, marked, cuts, out, pc >>

-----------------------------------------------------------------------------
(* trace_from_timing_rg: the tree is written out branch by branch *)

StartTrace ==
  /\ pc = "pruning" /\ stack = <<>>
  /\ out' = << Source >>
  /\ at' = Source
  /\ marked' = {}
  /\ pc' = "down"
  /\ UNCHANGED << graph, con, pos, stack, back, cuts >>

\* The first child that has not been visited: {} if there is none.
Unvisited(n) ==
  { children[n][k] : k \in { j \in DOMAIN children[n] :
      /\ children[n][j] \notin marked
      /\ \A i \in 1 .. j - 1 : children[n][i] \in marked } }

\* depth_first_search: on to the first child that has not been visited.  What
\* has no children is taken for an IPIN, and its first edge for that to a SINK.
\* (A node whose children have all been visited would be an error of the code,
\* and a deadlock here.)
Down ==
  /\ pc = "down"
  /\ marked' = marked \cup {at}
  /\ \/ /\ children[at] = <<>>
        /\ out' = Append(out, FirstEdge[at])
        /\ pc' = "up"
        /\ UNCHANGED at
     \/ /\ at' \in Unvisited(at)
        /\ out' = Append(out, at')
        /\ UNCHANGED pc
  /\ UNCHANGED << graph, con, pos, stack, back, cuts >>

\* (mutant) the next branch is written without the node it hangs on
UpNoHook ==
  /\ pc = "up"
  /\ \/ /\ Unvisited(at) # {}
        /\ pc' = "down"
        /\ UNCHANGED << at, out >>
     \/ /\ Unvisited(at) = {}
        /\ IF parents[at] = <<>>
           THEN pc' = "done" /\ UNCHANGED at
           ELSE at' = Head(parents[at]) /\ UNCHANGED pc
        /\ UNCHANGED out
  /\ UNCHANGED << graph, con, pos, prune >>

\* backtrace: up to a node with another branch, which is written once more as
\* the hook of that branch.
Up ==
  /\ pc = "up"
  /\ \/ /\ Unvisited(at) # {}
        /\ out' = Append(out, at)
        /\ pc' = "down"
        /\ UNCHANGED at
     \/ /\ Unvisited(at) = {}
        /\ IF parents[at] = <<>>
           THEN pc' = "done" /\ UNCHANGED at
           ELSE at' = Head(parents[at]) /\ UNCHANGED pc
        /\ UNCHANGED out
  /\ UNCHANGED << graph, con, pos, prune >>

Stopped == pc \in {"done", "crashed"} /\ UNCHANGED vars

Step ==
  \/ Follow \/ SwitchBranches \/ Stray \/ NewPart
  \/ Extend \/ Reconnect \/ Added
  \/ StepBack \/ RippedUp
  \/ Enter \/ CutParent \/ Descend \/ Return
  \/ StartTrace \/ Down \/ Up

Next ==
  \/ \E c \in Con : Add(c) \/ RipUp(c)
  \/ Finalize
  \/ Step
  \/ Stopped

\* The walks are loops of one thread: once begun they are carried on.
Spec == Init /\ [][Next]_vars /\ WF_vars(Step)
-----------------------------------------------------------------------------
(* Properties *)

\* The part of the trace of c that the graph stands for: all of it up to the
\* IPIN, except while c itself is being added or ripped up.
Entered(c) ==
  IF trace[c] = <<>> THEN 0
  ELSE IF c = con /\ pc \in {"matching", "extending"} THEN pos - 1
  ELSE IF c = con /\ pc = "ripping" THEN pos
  ELSE Len(trace[c]) - 1

RunsOver(c, e) ==
  \E k \in 1 .. Entered(c) - 1 : << trace[c][k], trace[c][k + 1] >> = e

InUse(n) == n = Source \/ \E c \in Con : \E k \in 1 .. Entered(c) : trace[c][k] = n

Routing == pc \in {"idle", "matching", "extending", "ripping"}

\* At every step of every walk the graph is the union of the traces entered in
\* it: an edge is counted once for each connection that runs over it, is in
\* the child list of one end and the parent list of the other exactly as long
\* as it is counted, never twice (update_route_graph and
\* remove_connection_from_route_timing_graph).
UnionOfTraces ==
  Routing =>
    /\ \A n \in Node : IsInjective(children[n]) /\ IsInjective(parents[n])
    /\ \A a, b \in Node :
         /\ use[<< a, b >>] = Cardinality({ c \in Con : RunsOver(c, << a, b >>) })
         /\ IsIn(b, children[a]) <=> use[<< a, b >>] > 0
         /\ InUse(b) => (IsIn(a, parents[b]) <=> use[<< a, b >>] > 0)

PinOf(c) == trace[c][Len(trace[c]) - 1]

\* The walk over the lists goes astray only in one case: the connection ends
\* in the IPIN of another connection of the net, to the same SINK, for which
\* the map has a second use but never an rg_node (the branch-switching part of
\* add_con_path_to_route_graph_and_update_R_upstream).
StrayNeedsSharedPin ==
  pc = "crashed" =>
    \E c \in Con \ {con} :
      /\ trace[c] # <<>>
      /\ PinOf(c) = PinOf(con) /\ Ahead \in Sink

Pins == { PinOf(c) : c \in { d \in Con : trace[d] # <<>> } }

\* Taking out a secundary parent, with the ancestors that lose their last
\* child, never touches a node the search is at or has passed, nor an IPIN
\* (remove_parent is called while child lists up the call stack are walked).
PruneSparesVisited ==
  [][pc = "pruning" /\ pc' = "pruning" =>
       \A n \in Node : /\ n \in Pins => parents'[n] # <<>>
                       /\ n \in marked => parents'[n] = parents[n]
                       /\ IsIn(n, Front(stack)) => children'[n] # <<>>]_vars

Pruned == pc \in {"down", "up", "done"}

\* The nodes that can be reached from the SOURCE through the child lists.
Tree ==
  LET within[k \in Nat] ==
        IF k = 0 THEN {Source}
        ELSE LET near == within[k - 1]
             IN  near \cup UNION { ToSet(children[n]) : n \in near }
  IN  within[Cardinality(Node)]

\* What finalize_route_graph leaves is a tree: every node but the SOURCE has
\* one parent, of which it is a child, and every IPIN of the net is in it.
PrunedToTree ==
  Pruned =>
    LET tree == Tree
    IN  /\ Pins \subseteq tree
        /\ parents[Source] = <<>>
        /\ \A n \in tree \ {Source} :
             /\ Len(parents[n]) = 1
             /\ \A m \in tree : IsIn(n, children[m]) <=> m = Head(parents[n])

\* The leaves of the pruned graph are IPINs.  It need not be so: remove_parent
\* leaves a node behind that has lost its last child and has two parents.
LeavesArePins ==
  Pruned =>
    \A n \in Tree : children[n] = <<>> => n \in Pins

Ends(c) == trace[c][Len(trace[c])]

\* When all leaves are IPINs, the trace of the net is a tree in the form the
\* checker wants: it starts at the SOURCE, goes on only along edges that the
\* connections use, takes up a new branch only after a SINK and at a node it
\* has written before, writes no other node twice, and ends in every SINK.
NetTraceIsTree ==
  pc = "done" /\ LeavesArePins =>
    /\ out[1] = Source
    /\ \A k \in 2 .. Len(out) :
         IF out[k - 1] \in Sink
         THEN \E j \in 1 .. k - 1 : out[j] = out[k]
         ELSE /\ \E c \in Con : \E i \in 2 .. Len(trace[c]) :
                   trace[c][i - 1] = out[k - 1] /\ trace[c][i] = out[k]
              /\ out[k] \in Sink \/ ~\E j \in 1 .. k - 1 : out[j] = out[k]
    /\ out[Len(out)] \in Sink
    /\ \A c \in Con : IsIn(Ends(c), out)

\* Every walk through the lists comes to its end, though the union of the
\* traces may well have cycles.
WalksEnd == []<>(pc \in {"idle", "done", "crashed"})
=============================================================================
