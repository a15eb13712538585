-------------------------- MODULE ConnectionRouter --------------------------
(***************************************************************************)
(* The timing-driven connection router (TIMING_DRIVEN_CONR) of             *)
(* vpr/SRC/route/croute_timing.c: negotiated congestion in which the unit  *)
(* of rip-up is one source-to-sink connection instead of a whole net.      *)
(*                                                                         *)
(* The module keeps all bookkeeping the router does per routing-resource   *)
(* node (rr_node): its occupancy, its present and accumulated congestion   *)
(* cost, the per-net usage maps, the temporary sharing discount that       *)
(* exists while one connection is off the board, and the output pins that  *)
(* are reserved for local use.  The search itself is abstracted to the     *)
(* choice of one of the paths of the connection; the routing graph used    *)
(* for delays (update_route_graph) does not feed back into this state.     *)
(***************************************************************************)
EXTENDS Integers, FiniteSets, FiniteSetsExt

CONSTANTS
  Node,             \* the rr_nodes
  Capacity,         \* [Node -> capacity of the node]
  BaseCost,         \* [Node -> base congestion cost]
  WireLength,       \* [Node -> length of a channel wire, 0 for other nodes]
  Net,              \* the non-global nets
  Source,           \* [Net -> the SOURCE node that drives the net]
  NumCons,          \* connections are 1 .. NumCons, in routing order
  NetOf,            \* [connection -> its net]
  Routes,           \* [connection -> the paths to its SINK, as node sets]
  NumClasses,       \* (block, pin class) pairs are 1 .. NumClasses
  ClassOpins,       \* [pin class -> the OPINs its SOURCE drives]
  NumLocal,         \* [pin class -> OPINs to keep for use inside the block]
  FirstIterPresFac, InitialPresFac, PresFacMult, MaxPresFac, AccFac,
  MaxIter,          \* max_router_iterations
  PredictAfter,     \* the failure predictors may speak after this iteration
  CongestionDriven, \* TRUE: no timing analysis and no A* bias (see RouteCon)
  CostScale         \* costs are compared in units of 1 / CostScale

Con   == 1 .. NumCons
Class == 1 .. NumClasses
Sources == { Source[i] : i \in Net }

ASSUME NodeAssumption ==
  /\ IsFiniteSet(Node)
  /\ Capacity \in [Node -> Nat \ {0}]
  /\ BaseCost \in [Node -> Nat]
  /\ WireLength \in [Node -> Nat]

ASSUME NetAssumption ==
  /\ IsFiniteSet(Net)
  /\ Source \in [Net -> Node]
  /\ NumCons \in Nat
  /\ NetOf \in [Con -> Net]
  /\ Routes \in [Con -> SUBSET SUBSET Node]

\* Every path starts at the SOURCE of its net; nothing leads into a SOURCE.
ASSUME RouteAssumption ==
  \A c \in Con : \A r \in Routes[c] : r \cap Sources = {Source[NetOf[c]]}

\* An OPIN belongs to one class of one block, and a block never keeps more
\* OPINs of a class for itself than the class has.
ASSUME OpinAssumption ==
  /\ NumClasses \in Nat
  /\ ClassOpins \in [Class -> SUBSET (Node \ Sources)]
  /\ \A k, l \in Class : k # l => ClassOpins[k] \cap ClassOpins[l] = {}
  /\ NumLocal \in [Class -> Nat]
  /\ \A k \in Class : NumLocal[k] <= Cardinality(ClassOpins[k])

ASSUME OptionAssumption ==
  /\ {FirstIterPresFac, InitialPresFac, PresFacMult, MaxPresFac, AccFac} \subseteq Nat
  /\ MaxIter \in Nat \ {0}
  /\ PredictAfter \in Nat
  /\ CongestionDriven \in BOOLEAN
  /\ CostScale \in Nat \ {0}

VARIABLES
  occ,        \* rr_node[n].occ
  pres,       \* rr_node_route_inf[n].pres_cost, as num / den
  presOld,    \* rr_node_route_inf[n].pres_cost_old
  usage,      \* rr_node_route_inf[n].usage
  acc,        \* rr_node_route_inf[n].acc_cost
  presFac,    \* pres_fac
  nodeMap,    \* node_maps[net]: usage count of each node, 0 when absent
  trace,      \* trace_head_con[con] as a set of nodes, {} for NULL
  localOpins, \* clb_opins_used_locally[class].list
  itry,       \* iteration number
  con,        \* the connection being routed
  class,      \* the pin class being served by reserve_locally_used_opins
  pc

nodeVars == << occ, pres, presOld, usage, acc >>
loopVars == << presFac, itry, con, class >>
conVars  == << nodeMap, trace, localOpins >>
vars     == << nodeVars, loopVars, conVars, pc >>

Returned == {"success", "failed"}

-----------------------------------------------------------------------------
(* Costs *)

\* pres_cost of node n at occupancy o: what ONE MORE net would have to pay.
PresCost(n, o) ==
  [ num |-> IF o < Capacity[n] THEN 1 ELSE 1 + (o + 1 - Capacity[n]) * presFac,
    den |-> 1 ]

\* The price of n for a connection whose net uses n for u others already: no
\* additional occupancy, and the cost is shared with the other connections.
SharedCost(n, o, u) ==
  [ num |-> IF o < Capacity[n] THEN 1 ELSE 1 + (o - Capacity[n]) * presFac,
    den |-> u + 1 ]

CongCost(n) == (CostScale * BaseCost[n] * acc[n] * pres[n].num) \div pres[n].den

RouteCost(r) == MapThenSumSet(CongCost, r)

\* (mutant) a node at its capacity counts as overused
FeasibleWithSlack == \A n \in Node : occ[n] < Capacity[n]

Feasible == \A n \in Node : occ[n] <= Capacity[n]

ShouldRoute(c) == trace[c] = {} \/ \E n \in trace[c] : occ[n] > Capacity[n]

-----------------------------------------------------------------------------
(* Bookkeeping of one connection *)

\* Usage of n by the net of c once c is ripped up.
RemainingUse(c, n) ==
  IF n \in trace[c] THEN nodeMap[NetOf[c]][n] - 1 ELSE nodeMap[NetOf[c]][n]

\* (mutant) every connection gives its own occupancy back
OccWithoutPerCon(c, n) == IF n \in trace[c] THEN occ[n] - 1 ELSE occ[n]

\* A node is released when the last connection of the net leaves it.
OccWithout(c, n) ==
  IF n \in trace[c] /\ RemainingUse(c, n) = 0 THEN occ[n] - 1 ELSE occ[n]

\* (mutant) an entry that is already there is set up again
IncreasedUseAfresh(c, n) == IF n \in trace[c] THEN 1 ELSE nodeMap[NetOf[c]][n]

\* Usage of n by the net of c once the new trace of c is added.
IncreasedUse(c, n) ==
  IF n \in trace[c] THEN nodeMap[NetOf[c]][n] + 1 ELSE nodeMap[NetOf[c]][n]

\* (mutant) every connection occupies the node for itself
OccWithPerCon(c, n) == IF n \in trace[c] THEN occ[n] + 1 ELSE occ[n]

\* (mutant) an occupied node is taken to be in use by the own net
OccWithUnlessOccupied(c, n) ==
  IF n \in trace[c] /\ ~(occ[n] > 0) THEN occ[n] + 1 ELSE occ[n]

\* A node is occupied when the first connection of the net enters it.
OccWith(c, n) ==
  IF n \in trace[c] /\ ~(occ[n] > 0 /\ IncreasedUse(c, n) > 1)
  THEN occ[n] + 1 ELSE occ[n]

\* Prices while c is off the board: n was at "full"; the nodes its net still
\* uses are loaded in at the shared price.
PresWithout(c, n) ==
  IF RemainingUse(c, n) > 0
  THEN SharedCost(n, OccWithout(c, n), RemainingUse(c, n))
  ELSE IF n \in trace[c] THEN PresCost(n, OccWithout(c, n)) ELSE pres[n]

OldPresWithout(c, n) ==
  IF RemainingUse(c, n) = 0 THEN presOld[n]
  ELSE IF n \in trace[c] THEN PresCost(n, OccWithout(c, n)) ELSE pres[n]

\* (mutant) the shared prices are never loaded out
PresWithoutLoadOut(c, n) ==
  IF n \in trace[c] THEN PresCost(n, OccWith(c, n)) ELSE pres[n]

\* Prices with c back on the board: the shared prices are loaded out first.
PresWith(c, n) ==
  IF n \in trace[c] THEN PresCost(n, OccWith(c, n))
  ELSE IF nodeMap[NetOf[c]][n] > 0 THEN presOld[n]
  ELSE pres[n]

-----------------------------------------------------------------------------
Init ==
  /\ occ  = [n \in Node |-> 0]
  /\ pres = [n \in Node |-> [num |-> 1, den |-> 1]]
  /\ presOld = [n \in Node |-> [num |-> 1, den |-> 1]]
  /\ usage = [n \in Node |-> 0]
  /\ acc = [n \in Node |-> 1]
  /\ presFac = FirstIterPresFac
  /\ nodeMap = [i \in Net |-> [n \in Node |-> IF n = Source[i] THEN 1 ELSE 0]]
  /\ trace = [c \in Con |-> {}]
  /\ localOpins = [k \in Class |-> {}]
  /\ itry = 1
  /\ con = 1
  /\ class = 1
  /\ pc = "next_con"

(***************************************************************************)
(* One connection: keep it, or rip it up, route it and add it back.        *)
(***************************************************************************)
\* (mutant) the connection loop does not advance
NextConStuck == con

NextCon == con + 1

KeepCon ==
  /\ pc = "next_con"
  /\ con \in Con
  /\ ~ShouldRoute(con)
  /\ con' = NextCon
  /\ UNCHANGED << nodeVars, presFac, itry, class, conVars, pc >>

RipUpCon ==
  /\ pc = "next_con"
  /\ con \in Con
  /\ ShouldRoute(con)
  /\ nodeMap' = [nodeMap EXCEPT ![NetOf[con]] =
                   [n \in Node |-> RemainingUse(con, n)]]
  /\ occ'     = [n \in Node |-> OccWithout(con, n)]
  /\ pres'    = [n \in Node |-> PresWithout(con, n)]
  /\ presOld' = [n \in Node |-> OldPresWithout(con, n)]
  /\ usage'   = [n \in Node |-> IF RemainingUse(con, n) > 0
                                THEN RemainingUse(con, n) ELSE usage[n]]
  /\ trace'   = [trace EXCEPT ![con] = {}]
  /\ pc' = "route"
  /\ UNCHANGED << acc, loopVars, localOpins >>

\* The search ends on the SINK along some path.  With timing analysis the
\* path depends on delays, criticalities and the A* estimate, and any path
\* can win; with CongestionDriven it is a cheapest one.
RouteCon(r) ==
  /\ pc = "route"
  /\ r \in Routes[con]
  /\ CongestionDriven => \A q \in Routes[con] : RouteCost(r) <= RouteCost(q)
  /\ trace' = [trace EXCEPT ![con] = r]
  /\ pc' = "add"
  /\ UNCHANGED << nodeVars, loopVars, nodeMap, localOpins >>

\* The heap runs empty: there is no trace to add.
RouteConFails ==
  /\ pc = "route"
  /\ Routes[con] = {}
  /\ pc' = "add"
  /\ UNCHANGED << nodeVars, loopVars, conVars >>

AddCon ==
  /\ pc = "add"
  /\ trace[con] # {}
  /\ nodeMap' = [nodeMap EXCEPT ![NetOf[con]] =
                   [n \in Node |-> IncreasedUse(con, n)]]
  /\ occ'     = [n \in Node |-> OccWith(con, n)]
  /\ pres'    = [n \in Node |-> PresWith(con, n)]
  /\ usage'   = [n \in Node |-> IF nodeMap[NetOf[con]][n] > 0
                                THEN 0 ELSE usage[n]]
  /\ con' = NextCon
  /\ pc' = "next_con"
  /\ UNCHANGED << presOld, acc, presFac, itry, class, trace, localOpins >>

\* (mutant) a failed search is skipped, and its result ignored
AddConSkipped ==
  /\ pc = "add"
  /\ trace[con] = {}
  /\ con' = NextCon
  /\ pc' = "next_con"
  /\ UNCHANGED << nodeVars, presFac, itry, class, conVars >>

\* add_con_td is called whether or not a path was found, and walks the trace
\* from its head: without one it dereferences NULL.
AddConWithoutTrace ==
  /\ pc = "add"
  /\ trace[con] = {}
  /\ pc' = "crashed"
  /\ UNCHANGED << nodeVars, loopVars, conVars >>

(***************************************************************************)
(* The end of an iteration                                                 *)
(***************************************************************************)
\* FIRST_ITER_WIRELENTH_LIMIT, in percent of the wire there is.
WirelengthLimit == 85

\* Wire in use, a wire that several connections of a net share counted once.
UsedWire(i) ==
  MapThenSumSet(LAMBDA n : WireLength[n], {n \in Node : nodeMap[i][n] > 0})

TooMuchWire ==
  100 * MapThenSumSet(UsedWire, Net)
    > WirelengthLimit * MapThenSumSet(LAMBDA n : WireLength[n], Node)

\* After the first iteration only: far too much wire is in use.
WirelengthAbort ==
  /\ pc = "next_con"
  /\ con = NumCons + 1
  /\ itry = 1
  /\ TooMuchWire
  /\ pc' = "failed"
  /\ UNCHANGED << nodeVars, loopVars, conVars >>

\* From the second iteration on, the OPINs reserved last time are released.
IsReleased(n) == itry # 1 /\ \E k \in Class : n \in localOpins[k]

ReleaseOpins ==
  /\ pc = "next_con"
  /\ con = NumCons + 1
  /\ itry = 1 => ~TooMuchWire
  /\ occ'  = [n \in Node |-> IF IsReleased(n) THEN occ[n] - 1 ELSE occ[n]]
  /\ pres' = [n \in Node |-> IF IsReleased(n) THEN PresCost(n, occ[n] - 1)
                                              ELSE pres[n]]
  /\ class' = 1
  /\ pc' = "reserve"
  /\ UNCHANGED << presOld, usage, acc, presFac, itry, con, conVars >>

\* The cheapest OPINs of the class are reserved.
ReserveOpins(S) ==
  /\ pc = "reserve"
  /\ class \in Class
  /\ S \subseteq ClassOpins[class]
  /\ Cardinality(S) = NumLocal[class]
  /\ \A n \in S, q \in ClassOpins[class] \ S : CongCost(n) <= CongCost(q)
  /\ occ'  = [n \in Node |-> IF n \in S THEN occ[n] + 1 ELSE occ[n]]
  /\ pres' = [n \in Node |-> IF n \in S THEN PresCost(n, occ[n] + 1) ELSE pres[n]]
  /\ acc'  = [n \in Node |-> IF n \in S /\ occ[n] + 1 >= Capacity[n]
                             THEN acc[n] + (occ[n] + 1 - Capacity[n]) * AccFac
                             ELSE acc[n]]
  /\ localOpins' = [localOpins EXCEPT ![class] = S]
  /\ class' = class + 1
  /\ UNCHANGED << presOld, usage, presFac, itry, con, nodeMap, trace, pc >>

\* The predictors of routing failure look at the overuse of the last
\* iterations and at their run time, not at the outcome of this one.
PredictorAbort ==
  /\ pc = "reserve"
  /\ class = NumClasses + 1
  /\ itry > PredictAfter
  /\ pc' = "failed"
  /\ UNCHANGED << nodeVars, loopVars, conVars >>

Succeed ==
  /\ pc = "reserve"
  /\ class = NumClasses + 1
  /\ Feasible
  /\ pc' = "success"
  /\ UNCHANGED << nodeVars, loopVars, conVars >>

NextPresFac ==
  IF itry = 1 THEN InitialPresFac
  ELSE IF presFac * PresFacMult < MaxPresFac THEN presFac * PresFacMult
  ELSE MaxPresFac

\* (mutant) a full node is charged as if it were overused
ChargedAccAtCapacity(n) ==
  IF occ[n] >= Capacity[n] /\ itry # 1
  THEN acc[n] + (occ[n] + 1 - Capacity[n]) * AccFac
  ELSE acc[n]

\* (mutant) overuse leaves no trace in the history
ChargedAccNever(n) == acc[n]

\* Nothing is charged to the history after the first iteration.
ChargedAcc(n) ==
  IF occ[n] > Capacity[n] /\ itry # 1
  THEN acc[n] + (occ[n] - Capacity[n]) * AccFac
  ELSE acc[n]

RepricedPres(n) ==
  IF occ[n] >= Capacity[n]
  THEN [num |-> 1 + (occ[n] + 1 - Capacity[n]) * NextPresFac, den |-> 1]
  ELSE pres[n]

\* Raise the price of every congested node and start again; give up after
\* MaxIter iterations.
NextIteration ==
  /\ pc = "reserve"
  /\ class = NumClasses + 1
  /\ ~Feasible
  /\ presFac' = NextPresFac
  /\ acc'  = [n \in Node |-> ChargedAcc(n)]
  /\ pres' = [n \in Node |-> RepricedPres(n)]
  /\ itry' = itry + 1
  /\ con' = 1
  /\ pc' = IF itry = MaxIter THEN "failed" ELSE "next_con"
  /\ UNCHANGED << occ, presOld, usage, class, conVars >>

\* try_timing_driven_route_conr has returned, or the process is gone.
Stopped == pc \in Returned \cup {"crashed"} /\ UNCHANGED vars

Next ==
  \/ KeepCon
  \/ RipUpCon
  \/ \E r \in UNION {Routes[c] : c \in Con} : RouteCon(r)
  \/ RouteConFails
  \/ AddCon
  \/ AddConWithoutTrace
  \/ WirelengthAbort
  \/ ReleaseOpins
  \/ \E S \in SUBSET (UNION {ClassOpins[k] : k \in Class}) : ReserveOpins(S)
  \/ PredictorAbort
  \/ Succeed
  \/ NextIteration
  \/ Stopped

\* The router is one sequential function: it does not stop between two steps.
Spec == Init /\ [][Next]_vars /\ WF_vars(Next)

-----------------------------------------------------------------------------
(* Properties *)

Discounted == {"route", "add", "crashed"}

\* The path of c that the maps and the occupancies account for.
OnBoard(c) == IF pc = "add" /\ c = con THEN {} ELSE trace[c]

NetsThrough(n) == { NetOf[c] : c \in { d \in Con : n \in OnBoard(d) } }

\* n is reserved for local use; during reserve_locally_used_opins the classes
\* from the current one on hold stale lists that were already released.
IsHeld(n) == \E k \in Class : n \in localOpins[k] /\ ~(pc = "reserve" /\ k >= class)

\* Types of all variables (counters never go negative: no node is released
\* more often than it was occupied).
TypeOK ==
  /\ occ \in [Node -> Nat]
  /\ pres \in [Node -> [num : Nat, den : Nat \ {0}]]
  /\ presOld \in [Node -> [num : Nat, den : Nat \ {0}]]
  /\ usage \in [Node -> Nat]
  /\ acc \in [Node -> Nat]
  /\ presFac \in Nat
  /\ nodeMap \in [Net -> [Node -> Nat]]
  /\ trace \in [Con -> SUBSET Node]
  /\ localOpins \in [Class -> SUBSET Node]
  /\ itry \in 1 .. MaxIter + 1
  /\ con \in 1 .. NumCons + 1
  /\ class \in 1 .. NumClasses + 1
  /\ pc \in {"next_con", "route", "add", "reserve", "crashed"} \cup Returned

\* The usage map of a net (add_rr_to_rg_node, remove_rr_to_rg_node) counts,
\* for every node, the connections of the net that run through it; the SOURCE
\* has one more, put there by init_graph_to_source.
MapExact ==
  \A i \in Net, n \in Node :
    nodeMap[i][n] = Cardinality({c \in Con : NetOf[c] = i /\ n \in OnBoard(c)})
                    + (IF n = Source[i] THEN 1 ELSE 0)

\* rr_node.occ counts each net once however many of its connections share the
\* node, plus the local reservation, through every interleaving of rip-ups,
\* additions and reservations.
OccupancyExact ==
  \A n \in Node \ Sources :
    occ[n] = Cardinality(NetsThrough(n)) + (IF IsHeld(n) THEN 1 ELSE 0)

\* Present costs always agree with the occupancy and the present factor, the
\* sharing discount is in force exactly on the nodes of the net whose
\* connection is off the board, and it is undone completely (load in in
\* rip_up_con_td, load out in add_con_td).
PricesExact ==
  \A n \in Node :
    IF pc \in Discounted /\ nodeMap[NetOf[con]][n] > 0
    THEN /\ pres[n] = SharedCost(n, occ[n], nodeMap[NetOf[con]][n])
         /\ presOld[n] = PresCost(n, occ[n])
         /\ usage[n] = nodeMap[NetOf[con]][n]
    ELSE /\ pres[n] = PresCost(n, occ[n])
         /\ usage[n] = 0

\* A new iteration always finds a connection to rip up: the overuse that kept
\* the router from finishing lies on some trace (should_route_con), so an
\* iteration can never go by without changing anything.
VictimExists ==
  pc = "next_con" /\ con = 1 /\ itry > 1 => \E c \in Con : ShouldRoute(c)

\* Accumulated cost never falls, and a node is charged only while more nets
\* use it than fit.
HistoryChargesOveruse ==
  [][\A n \in Node : acc'[n] # acc[n] =>
       acc'[n] > acc[n] /\ occ'[n] > Capacity[n]]_vars

\* try_timing_driven_route_conr always returns.
Terminates == <>(pc \in Returned)

\* When the router can only move along congestion costs it resolves the
\* congestion of this instance within the iterations it has.
Converges == <>(pc = "success")

\* feasible_routing and pathfinder_update_cost rely on occupancies that are
\* "up to date" (route_common.c:404-405, 492-493): a SOURCE is occupied by
\* every net it drives, as any other node is by the nets through it.
SourceOccupancyExact ==
  pc = "reserve" => \A n \in Sources : occ[n] = Cardinality(NetsThrough(n))

-----------------------------------------------------------------------------
(* The promise *)

Promise == INSTANCE NegotiatedRouting WITH
  Unmetered <- Sources,
  Paths     <- Routes,
  Opins     <- ClassOpins,
  route     <- trace,
  reserved  <- localOpins,
  status    <- IF pc \in Returned THEN pc ELSE "working"

\* Whatever happens during the negotiation, success is reported only for a
\* complete routing that respects every capacity, as counted from the traces
\* and the reservations alone (feasible_routing looks at rr_node.occ only).
KeepsPromise == Promise!Spec
=============================================================================
