# A formal model of the connection router

This directory holds TLA+ specifications of ConnectionRouter, a fork of VTR in
which VPR's router negotiates congestion per *connection* (one source-to-sink
pair) instead of per net, and of the parts of VPR around it: the placer that
comes before, the search for a channel width that calls it, and the checker
every routing goes through; TLC configurations that check them on small
instances; and TLAPS developments that prove the main results for every device,
netlist and option setting. All source paths below are relative to
`src/vpr/SRC/route/` unless they start with `src/`.

## 1. The system

The repository is the VTR flow: synthesis (`src/ODIN_II`), technology mapping
(`src/abc_with_bb_support`), and `src/vpr` for packing, placement, routing,
timing and power. There are no unit tests, only regression scripts over
benchmarks. What is this repository's own is the connection router; the models
start there and go outwards.

| Component | Source | State it keeps | Operations | What makes it correct |
|---|---|---|---|---|
| Timing-driven connection router | `croute_timing.c` | `pres_fac`, iteration, `trace_head_con[]` | `try_timing_driven_route_conr`, `try_timing_driven_route_con`, `rip_up_con_td`, `add_con_td`, `should_route_con` | success only for a legal routing; it ends; every iteration makes an attempt to remove overuse |
| Congestion bookkeeping | `route_common.c` | `rr_node[].occ`, `rr_node_route_inf[].pres_cost`, `acc_cost`, `pres_cost_old`, `usage` | `feasible_routing`, `pathfinder_update_cost`, `get_rr_cong_cost` | occupancy is what the traces say; prices follow from occupancy; history grows only by overuse |
| Local OPIN reservation | `route_common.c` | `clb_opins_used_locally` | `reserve_locally_used_opins`, `adjust_one_rr_occ_and_apcost` | as many OPINs as needed, counted once, released once |
| Node map of a net | `route_common.c` | open-addressing table of (rr_node, usage) | `get_rr_to_rg_node_entry`, `add_rr_to_rg_node`, `remove_rr_to_rg_node`, doubling | a bag, whatever collides, wraps or moves |
| Wavefront heap | `route_common.c` | `heap[]`, `heap_tail`, `heap_size` | `add_to_heap`, `get_heap_head`, `empty_heap`, `invalidate_heap_entries` | a priority queue; no slot read that was never written |
| Maze search | `croute_timing.c`, `route_common.c` | `path_cost`, `backward_path_cost`, `prev_node`, list of modified costs | `timing_driven_route_con`, `timing_driven_expand_neighbours_con`, `node_to_heap`, `update_traceback_td_con`, `reset_path_costs` | finds a path if there is one; no loops; no leftovers of the last search; cheapest without bias |
| Routing graph for delays | `croute_tree_timing.c` | a DAG per net: child and parent lists, edge usage counts, R and C | `update_route_graph`, `remove_connection_from_route_timing_graph`, `finalize_route_graph`, `trace_from_timing_rg` | the graph is the union of the traces; pruned, it is a tree; its trace is legal |
| Route checker | `check_route.c` | flags per net | `check_route`, `recompute_occupancy_from_scratch`, `check_locally_used_clb_opins` | accepts the legal routings and no others; comes to a verdict |
| Place and route flow | `src/vpr/SRC/base/place_and_route.c` | `low`, `high`, `current`, `final`, the best routing | `place_and_route`, `binary_search_place_and_route` | minimal width; what is restored belongs together |
| Placement | `src/vpr/SRC/place/place.c`, `place_macro.c`, `src/vpr/SRC/base/read_place.c` | `block[]`, `grid[][]`, bounding boxes, `blocks_affected` | `initial_placement`, `read_user_pad_loc`, `try_swap`, `comp_bb_cost`, `check_place` | blocks and grid agree; macros stay whole; pads of the user stay; boxes and cost are those of the blocks |
| Breadth-first and directed connection routers | `croute_breadth_first.c`, `croute_directed_search.c` | source lists on the nodes | `rip_up_con`, `add_con`, `*_fast` variants | as the timing-driven one |
| Net-based routers | `route_timing.c`, `route_tree_timing.c`, `route_breadth_first.c` | `trace_head[]`, route tree | rip-up and reroute of a net | as above, per net |
| Routing-resource graph | `rr_graph*.c`, `check_rr_graph.c`, `build_switchblocks.c`, `cb_metrics.c` | `rr_node[]`, edges | construction | connectivity |
| Packing, timing, power, readers, graphics | `src/vpr/SRC/{pack,timing,power,base,draw,util}` | | | |
| Other tools | `src/ODIN_II`, `src/abc_with_bb_support`, ... | | | |

How the parts interact. `place_and_route` places the blocks, then calls
`try_route` for one channel width or for each width of a binary search, saves
the best routing, restores it, and has `check_route` look at it. `try_route`
builds the rr-graph for the width and calls one router.
The connection router owns the iteration: for each connection,
`should_route_con` looks at the occupancy of its trace; `rip_up_con_td` takes
the connection out of the node map of its net, releases the nodes no other
connection of the net uses, and then *loads in* a discount on all nodes the net
still uses; the maze search reads these prices through `get_rr_cong_cost`;
`add_con_td` *loads out* the discount and puts the new trace on the board. At
the end of an iteration `reserve_locally_used_opins` moves the local
reservations, `feasible_routing` decides, `pathfinder_update_cost` reprices.
Everything is shared through the global arrays `rr_node` and
`rr_node_route_inf`: nothing is passed as an argument or returned. Beside the
node map each net has a routing graph, which `rip_up_con_td` and `add_con_td`
walk after they have changed the map; when the negotiation has succeeded it is
pruned to a tree, and the tree becomes `trace_head[net]`, which the checker and
the output read. The placer runs alone, over `block`, `grid` and the arrays of
bounding boxes; the pins of the nets are where its blocks end up.

What is hard here. The program is sequential, so nothing interleaves in time;
what interleaves are *connections* whose partial rip-ups and additions update
the same counters in any order, over many iterations, with any outcome of the
searches in between. The hazards are counters that have to stay equal to what
the traces say although nobody recomputes them, prices that are overwritten and
restored, state that survives from one search to the next, hash-table deletion,
array-boundary reads, and the liveness of the negotiation. Around the router
they are walks over linked lists that change while they are walked, swaps that
are given up halfway, flags and signs that say which of two copies is valid, and
results of one attempt that are mixed with those of another. `PROJECT.json`
lists them at their lines.

## 2. The modules

### ConnectionRouter (with NegotiatedRouting)

`ConnectionRouter.tla` is the router with all its per-node bookkeeping. One
variable stands for one field or array of the program:

| Variable | Program |
|---|---|
| `occ`, `pres`, `presOld`, `usage`, `acc` | `rr_node[n].occ`; `pres_cost`, `pres_cost_old`, `usage`, `acc_cost` of `rr_node_route_inf[n]` |
| `nodeMap` | `node_maps[net]` as a function, 0 for a node that is not in the map |
| `trace` | `trace_head_con[con]` as a set of nodes, `{}` for NULL |
| `localOpins` | `clb_opins_used_locally`, one entry per (block, class) |
| `presFac`, `itry`, `con`, `class`, `pc` | locals and loop positions |

| Action | Code |
|---|---|
| `KeepCon` | `should_route_con` says no |
| `RipUpCon` | `rip_up_con_td`: release, reprice, load in the discount, free the trace |
| `RouteCon(r)`, `RouteConFails` | `timing_driven_route_con` returns true or false |
| `AddCon` | `add_con_td`: load out the discount, occupy, reprice |
| `AddConWithoutTrace` | `add_con_td` after a failed search |
| `WirelengthAbort` | the wirelength check of the first iteration |
| `ReleaseOpins`, `ReserveOpins(S)` | the two halves of `reserve_locally_used_opins`, the second one per class |
| `PredictorAbort` | `predict_success_route_iter` and the run-time predictor give up |
| `Succeed`, `NextIteration` | `feasible_routing` and what follows |

Prices are kept as exact fractions (`num`/`den`), so that a discount that is
not undone completely shows. A trace is the set of its nodes: the order on the
path does not matter to the bookkeeping, and `MazeSearch` shows that a path
visits no node twice. Which path a search returns is open (`RouteCon` takes any
path in `Routes[con]`), because delays, criticalities and the A* estimate can
make any path win; with `CongestionDriven` it is a cheapest one. The two
predictors are open as well, after iteration `PredictAfter` (5 in the code).

`NegotiatedRouting.tla` is the promise of `try_route`: routes are withdrawn and
found again in any order, OPINs are set aside, and `success` is reported only
when all connections have a route and no node carries more nets than it can,
counted from the routes themselves. `KeepsPromise` is the refinement.

### NodeHashMap (with NodeBag)

The table with probing, doubling, gap closing and the counter `no_entries` as
the code computes it: re-inserting an entry adds its *usage*, so the counter
drifts above the number of entries. `NodeBag.tla` is the bag it should be;
`ConnectionRouter` uses the map as such a bag. (`MapInit`, `MapNext` and `MapSpec`
have their prefix because the proofs extend both modules.)

### BinaryHeap (with PriorityQueue)

The array with `heap[1 .. heap_size]`, doubling, and the slots from `heap_tail`
on with what was last written there or `Junk`. `get_heap_head` reads
`heap[ito + 1]` when only `ito < heap_tail` was tested; a read of `Junk` or
beyond the array sets `wild`. `PriorityQueue.tla` is the promise.

### MazeSearch

One search after the other over a small graph. Prices and estimates are inputs
chosen anew for each search, `Pruned` is what the bounding box, the bin for
high-fanout nets and the IPIN test keep off the heap. Costs belong to edges:
congestion cost of the node, delay and bend cost; the estimate belongs to the
edge as well, since it depends on the resistance upstream. `path_cost`,
`back_cost` and `prev_node` survive the search as they do in the program.
Reference definitions: `Within` (reachability) and `Distance` (Bellman-Ford).
`RouteCon` of `ConnectionRouter` is the outcome of such a search.

### RouteGraph

The routing graph of one net. A node is known by its rr_node, so an edge is a
pair; each step of a walk through the lists is an action, because the hazards
lie between the steps: a list is searched, then the pointers left over from the
search are used.

| Variable | Program |
|---|---|
| `children`, `parents` | `child_list` and `u.parent_list`, in order |
| `use` | `usage` of an edge |
| `mapped`, `inGraph` | the node map of the net, which the same calls keep: usage, and whether the entry has an `rg_node` |
| `trace`, `con`, `at`, `pos` | `trace_head_con`, the connection at hand, `rg_node`, the element of the trace |
| `stack`, `back`, `marked`, `cuts` | the calls of `remove_secundary_parents`, the child the last one returned from, the visited flags, what `remove_parent` still has to take out |
| `out` | the trace of the net as written so far |

| Action | Code |
|---|---|
| `Add`; `Follow`, `SwitchBranches`, `Stray`, `NewPart`, `Extend`, `Reconnect`, `Added` | `add_con_td` and the cases of `add_con_path_to_route_graph_and_update_R_upstream` |
| `RipUp`; `StepBack`, `RippedUp` | `rip_up_con_td` and `remove_connection_from_route_timing_graph` |
| `Finalize`; `Enter`, `CutParent`, `Descend`, `Return` | `finalize_route_graph`: `remove_secundary_parents`, `remove_parent` |
| `StartTrace`, `Down`, `Up` | `trace_from_timing_rg_dbg`: `depth_first_search`, `backtrace` |

`ConnectionRouter` chooses which connection is added or ripped up; here any
may be, at any time.

### RouteCheck

`check_route` over a given routing: `Recount` (the occupancy from scratch, and
`feasible_routing`), `CheckLocal`/`LocalsChecked` (the local OPINs, with the
loop counter that is overwritten), then per net `CheckSource`, `Element` for
each element of the trace, and `NetDone`. `check_switch`, `check_node` and
`check_adjacent` are the set `Edge`. The inputs are traces, right and wrong; the
reference (`IsTree`, `IsListing`, `WithinCapacity`) is written over the traces
as a whole, where the checker only compares neighbours.

### WidthSearch

`place_and_route` around a router that may succeed or fail at any width. `Start`,
`Succeed`, `Fail`, `StopBelowFs`, `GiveUp` and `Found` are the search, `Searched`
and `VerifyAttempt` the verification, `Restore` and `Check` what follows.
`opts` are the options of a run of the program (given width, direction of the
wires, `PLACE_ALWAYS`, verification), chosen at the start. `routing`, `saved`,
`placement` and `placeFile` tell attempts and placements apart by number, so that
mixing them up shows. `attempts` is the parity of `attempt_count`: trying the same
width again changes nothing else, and would otherwise pass for a stuttering step.
`failed` is a history variable.

`BestIsRestored` is about the state after `Restore`, which is what `check_route`
and `print_route` get. The comment in the source promises more than the code
does: "Restore the best placement (if necessary), the best routing"
(`src/vpr/SRC/base/place_and_route.c:493`), but saving the placement during the
search (387-392) and reading it back (497-506) are both under `#if 0`. The
property therefore says of the routing that it is a legal one of the final width,
and of placement and place file *exactly when* they are those of that routing:
the placement if the blocks were placed once or the last attempt succeeded, the
file if they were placed once or the verification found a narrower width.

### Placement

| Variable | Program |
|---|---|
| `block`, `fixed` | `block[b].x, y, z`; `is_fixed` |
| `grid`, `usage` | `grid[x][y].blocks[z]`, `grid[x][y].usage` |
| `box`, `netCost`, `bbCost` | `bb_coords` with `bb_num_on_edges`, `net_cost`, `bb_cost` |
| `newBox`, `updated`, `marked`, `affected` | `ts_bb_coord_new` with `ts_bb_edge_new`, `bb_updated_before`, the nets whose `temp_net_cost` is not negative, `ts_nets_to_update` |
| `moves` | `blocks_affected`: block, old and new place, `swapped_to_empty` |
| `todo`, `offset`, `count`, `pc` | loop positions of `find_affected_blocks` and of the loop that takes moves over |
| `pending` | loop position of the box updates: the pins `<< i, k >>` (pin `k` of the block of move `i`) still to be applied, in the order `Before` of the two nested loops |

| Action | Code |
|---|---|
| `PlaceMacro`, `MacrosPlaced`, `PlaceBlock` | `initial_placement_pl_macros`, `initial_placement_blocks`: any legal free place |
| `ReadPads` | `read_user_pad_loc`, or the random placement that stands |
| `CompBBCost` | `comp_bb_cost(NORMAL)` |
| `PickSwap` | `try_swap` up to `find_affected_blocks`, with `find_to` |
| `SetupBlocksAffected`, `Abort` | `setup_blocks_affected` for one block, and the way out when it says no |
| `FindAffectedNets`, `UpdateBB` | `find_affected_nets`; `update_bb` for one pin |
| `Accept`, `Commit`, `Accepted`, `Reject` | the two branches behind `assess_swap`; `Commit` is one move taken over into the grid |
| `Freeze`, `CheckPlace` | the last inner loop at temperature 0; `check_place` |

A pin is where its block is, the cost of a net is the half perimeter of its
box. Whether a swap with a higher cost is kept is open, as for a random number,
until the temperature is 0.

## 3. The runs

Every property of a passing run has a mutant in `PROJECT.json`: a change to the
code's operators (marked `(mutant)` in the modules) with which TLC finds the
property violated.

| Run | Instance and bounds | What it shows |
|---|---|---|
| `core` | 2 nets, 3 connections, 2 contested wires, one reserved OPIN, 3 iterations; any path may win | `TypeOK`, `MapExact`, `OccupancyExact`, `PricesExact`, `VictimExists`, `HistoryChargesOveruse`, `Terminates`, `KeepsPromise` |
| `chain` | 3 nets in a chain of displacements, 10 iterations, cheapest paths | `Converges` |
| `unroutable` | `core` with a connection that has no path | `KeepsPromise` |
| `shared_source` | two nets from one SOURCE of capacity 2 | violation of `SourceOccupancyExact` |
| `hash_map` | 5 keys, 3 of which share the last slot of a table of 32, usage up to 2, one doubling | `NeverExits`, `ScanReachesAll`, `ImplementsBag` |
| `heap` | up to 5 entries, costs 1 to 3, initial array of 2 | `NoWildAccess`, `ImplementsQueue` |
| `maze` | 6 nodes, 3 cycles, 8 price vectors, 4 estimates, 3 searches | `WayBack`, `FindsAWay`, `CheapestPath`, `SearchesEnd` |
| `route_graph` | 3 connections, 11 nodes, 11 paths, added and ripped up without limit | `UnionOfTraces`, `StrayNeedsSharedPin`, `PrunedToTree`, `NetTraceIsTree`, `PruneSparesVisited`, `WalksEnd` |
| `route_check` | all lists of up to 6 nodes for one net, 3 routings of a second net, 3 lists of local OPINs | `AcceptedIsRouting`, `RoutingIsAccepted`, `Decides` |
| `width_search` | from 20 tracks, limit 100, any outcomes, wires of one or both directions, one placement or many, with and without verification | `Bracket`, `BestIsRestored`, `NextNarrowerFails`, `TwoNarrowerFail`, `Ends` |
| `place_swap` | 2 by 3 tiles, a chain of 2, 2 single blocks, 2 pads, 2 nets, with and without a pad file | `GridAgrees`, `MacrosHold`, `BoxesAreRight`, `MovedOnce`, `CheckPasses`, `QuenchNeverRises`, `PadsStay` |
| `user_pads` | the same with a pad file | violation of `PadsReloaded` |

Why the bounds are enough. In `core` every action fires and every mixture of
keeping and rerouting connections of one net occurs, including a node that the
net leaves and re-enters in one iteration; the third iteration is the first in
which reservations are released, history has been charged and `pres_fac` has
reached its cap (`MaxPresFac = 3`, the cap of the code is `HUGE / 1e5`). What
the run shows for these sizes is proved for all sizes (section 4). In
`hash_map` the cluster of slot 31 wraps to the homes of keys 32 and 1, so that
gap closing meets entries at home, displaced entries and the end of the array;
`MaxSize`, `MaxUse` and `MaxCount` cut off larger tables, higher usages and
larger drifts of the counter (and `MaxGrowth = 1` two doublings at once), which is why that run stops without a successor
(`CHECK_DEADLOCK FALSE`). In `heap` the right child beyond the end is read at
even and odd lengths, and each doubling happens with a full array. In `maze`
each pair of a previous and a current price vector occurs, and two of the
estimates are far from admissible. The graph has a re-expansion that lowers the
backward cost of a node after an entry was made from it. `route_graph` has no
bound on the number of additions: its paths close a cycle between two wires, part
and meet again, make an ancestor superfluous, and end in the IPIN of another
connection. In `route_check` two nets share a node of capacity 2, hooks and
repeated nodes occur at every position, and six elements are two
branches and one element too many. `width_search` has `Fs` 3 and goes up
beyond the limit, and down: with wires of both directions to a single track,
where the test against `Fs` ends it, with wires of one direction to a pair, where
halving and rounding give the upper bound again and the comparison with it ends
it (`CannotGoLower`; without it the search tries 2 tracks for ever, which is the
mutant of `Ends`). Placing for each attempt is combined with wires of both
directions only, since no width depends on it. In
`place_swap` the chain is longer than half a column, so that it can meet itself
and the edge; the pads share a tile with two slots or not; the large net (the
code keeps counts of pins on the edges from 4 sinks on) has boxes of no width
and of the whole chip, and the small one is always computed anew. That run stops
when the placement has been checked, hence `CHECK_DEADLOCK FALSE`.

Model parameters that differ from the defaults of the code: `PresFacMult` 2
(1.3), `FirstIterPresFac` 0, `InitialPresFac` 1 (0.5), `AccFac` 1, iterations 3
or 10 (50), predictors after iteration 2 (5) so that they can speak. None of
the invariants depends on them, as the proofs show; `Converges` does.

Fairness. `ConnectionRouter` and `MazeSearch` assume weak fairness of the whole
next-state relation: the program is one sequential function without blocking
calls, so it takes some step as long as it can. No choice between paths,
predictors or outcomes is assumed to be fair. In `RouteGraph`, `RouteCheck` and
`WidthSearch` it is the steps of the loops, once begun, that are weakly fair
(`WF_vars(Step)`); that connections are added or ripped up is not. `Placement`
has safety and action properties only: the number of swaps depends on the
annealing schedule. `NodeHashMap` and `BinaryHeap` are called, not running, and
assume none.

One type invariant, `TypeOK` of `ConnectionRouter`, is a run's property, since
it is there that counters could go below zero. The types of the other modules
are part of their proofs (`TypeOK` in the modules of proofs, `TInv` of
`PlacementProofs`), of their invariants (`NodeHashMap`, `BinaryHeap`), or of the
properties themselves.

Disagreements found. Two are shown by runs:

* `shared_source`: `init_graph_to_source` enters the SOURCE of a net in its map
  with usage 1, and the exemption in `add_con_td` and `rip_up_con_td`
  (`type == SOURCE && type == SINK`, lines 1481 and 1527) is never true. Every
  connection therefore finds its SOURCE in use by its own net. A SOURCE that
  another net occupies already is not occupied again, although
  `feasible_routing` and `pathfinder_update_cost` assume occupancies that are up
  to date (`route_common.c:404-405`, 492-493). `OccupancyExact` is therefore
  stated for all other nodes, and `NegotiatedRouting` does not limit SOURCEs
  (each of the OPINs behind a SOURCE is limited).
* `user_pads`: `read_user_pad_loc` leaves the z of a pad at -1, "Will be reloaded
  by initial_placement anyway" (`src/vpr/SRC/base/read_place.c:228`), but it is
  called by `initial_placement` as its last step, and nothing is reloaded.
  `print_place` writes that z. `GridAgrees` compares x and y of such pads only.

Others were met while modelling; the models have the behaviour, no run is
devoted to it:

* `try_timing_driven_route_con` calls `add_con_td` whether or not the search
  found a path (`croute_timing.c:580`); without any path it logs an error and
  dereferences the NULL trace, so that the documented `return false`
  (`croute_timing.c:137`, 699-700) is never reached (`AddConWithoutTrace`).
* `remove_parent` leaves a node behind that has lost its last child but has two
  parents (`croute_tree_timing.c:375`); `depth_first_search` takes the leaf for
  an IPIN and writes the first edge of a wire as its SINK. `NetTraceIsTree` is
  stated for graphs whose leaves are IPINs (`LeavesArePins`).
* Two connections of a net that reach the same SINK over the same IPIN: the
  second finds the SINK in the map with usage 2, but the SINK never gets an
  `rg_node` (`croute_tree_timing.c:641`); the walk goes on through a null or
  stale pointer (`Stray`). `StrayNeedsSharedPin` says that this is the only case.
* `check_locally_used_clb_opins` overwrites its loop counter with a pin number
  (`check_route.c:625`), so that entries are skipped: `AcceptedIsRouting` says
  nothing of the local OPINs.
* `check_sink` marks all pins on a SINK with the first arrival
  (`check_route.c:185-203`): a net with several pins on one SINK passes with
  fewer arrivals (`OneByOne` in the properties of `RouteCheck`).
* With `PLACE_ALWAYS` the best placement is not saved during the search and never
  restored, in spite of the comment at `place_and_route.c:493`: the routing that
  is restored fits the blocks only if the last attempt was the best, and
  `check_route` refuses it otherwise (`Check`, `pc = "thrown"`). Even when the
  check passes, the place file may be that of the beginning, which no routing of
  the search was made for. `BestIsRestored` states both conditions.
* With `Fs` above 3 the search stops at the first width below `Fs / 3` and takes
  the upper bound, which may leave a narrower admissible width untried
  (`place_and_route.c:349-353`): `NextNarrowerFails` is proved for `Fs <= 3`.
* The breadth-first connection router enters a net in the source lists under its
  net number and looks it up under its SOURCE node (`route_common.c:1951`, 2089),
  and exits with `exit(10)` in its second iteration.

## 4. What is proved

### The connection router

`ConnectionRouterProofs.tla` proves, for all values of the constants that
satisfy the named assumptions of `ConnectionRouter`:

| Theorem | Statement |
|---|---|
| `Invariant` | `Spec => []IInv`, the inductive invariant |
| `TypeCorrect` | `Spec => []TypeOK` |
| `MapsExact` | `Spec => []MapExact` |
| `OccupanciesExact` | `Spec => []OccupancyExact` |
| `PricesAreExact` | `Spec => []PricesExact` |
| `SomeVictim` | `Spec => []VictimExists` |
| `HistoryIsEarned` | `Spec => HistoryChargesOveruse` |
| `PromiseKept` | `Spec => KeepsPromise` (refinement of `NegotiatedRouting`) |

Assumptions: `RouteAssumption` (a path holds the SOURCE of its net and no
other; in the rr-graph no edge leads into a SOURCE), `OpinAssumption` (an OPIN
belongs to one class; a block reserves at most as many OPINs as a class has),
and the types of the constants. Nothing is assumed about capacities other than
that they are positive, nor about costs, options or the graph.

The argument. `OccupancyExact` is not inductive: `rip_up_con_td` decides by the
node map, not by the traces, whether a node is released. The invariant is built
in layers, each inductive relative to those before it. `Shape` gives domains
and ranges in `Int`. `Flow` says at which points of the iteration connections
have traces and classes have valid reservations (during
`reserve_locally_used_opins` the classes not yet served hold stale lists).
`MapExact` needs both. `OccByMap` then states occupancy through the *maps* (how
many nets have a node in their map), because that is what the guards test; the
step for `AddCon` needs that a node in use by the own net is occupied, which is
where `occ > 0 && usage > 1` would go wrong for nodes other than a SOURCE.
`SourceOcc` bounds the one exception. `PricesExact` follows from the maps alone.
`Signs` (positive prices, non-negative history) needs the sign of the
occupancies, so it comes after them. `OverusedAtStart` carries `~Feasible` over
the iteration boundary; with `OccByMap` an overused node has two users or a
user and a reservation, hence lies on a trace, which is `VictimExists`. For the
refinement every action is matched with a step of the promise or a stutter;
`Succeed` needs that `occ`, which `feasible_routing` inspects, is the load that
`NegotiatedRouting` counts.

### The width search

`WidthSearchProofs.tla`, for all options, under `WidthAssumption` (the constants have their types
and `Fs`, `MaxPins` are positive), for any outcomes of the attempts:

| Theorem | Statement |
|---|---|
| `Typed` | `Spec => []TypeOK` |
| `SearchBracket` | `Spec => []Bracket` |
| `WidthsEven` | `Spec => []EvenWidths` |
| `BestRestored` | `Spec => []BestIsRestored` |
| `AttemptsNarrow` | `Spec => EveryAttemptNarrows` |
| `NarrowerFails` | `Fs <= 3 /\ Spec => []NextNarrowerFails` |
| `TwoFailBelow` | `Fs <= 3 /\ Spec => []TwoNarrowerFail` |

`Bracket` is not inductive. That the next width lies strictly between the bounds
after halving *and rounding* needs that the bounds are even with wires of one
direction (`Evens`), that they are more than one step apart (`Bounds`), and,
while one of them is missing, how the width follows from the other. `Narrowest`
carries what is known of the width below the final one through the end of the
search; the last width before 1 is where `Fs` enters. The verification needs a
second invariant (`VInv`): the two flags say how the last two attempts ended, and
which widths those were follows from `current` (`FlagsFresh` carries the flags
from their initial value through the search, where nothing sets them). A third
one (`PlaceInv`) says which placement the kept routing was made for (`Stamped`)
and which one was written out last (`Written`).

`Ends` itself is only model-checked, for the instance of the run. What is proved
for every instance, wires of one direction included, is that no attempt is idle:
it doubles the width (until the limit), finds a first bound, lowers the upper
bound, or brings the two closer together (`EveryAttemptNarrows`).

### Placement

`PlacementProofs.tla`, for all grids, netlists, macros and pad files that satisfy
the assumptions of `Placement`:

| Theorem | Statement |
|---|---|
| `Invariance` | `Spec => []IInv`, the inductive invariant |
| `GridKept` | `Spec => []GridAgrees` |
| `MacrosKept` | `Spec => []MacrosHold` |
| `EachOnce` | `Spec => []MovedOnce` |
| `PadsUntouched` | `Spec => PadsStay` |
| `BoxesKept` | `Spec => []BoxesAreRight` |
| `QuenchKept` | `Spec => QuenchNeverRises` |
| `CheckNeverFails` | `Spec => []CheckPasses` |

Assumptions: `GridAssumption` (columns of one type, pads on the ring only; the
code says "Assumes that a column only contains blocks of the same type"),
`NetlistAssumption` (finitely many nets, each with a pin: a net has a driver),
`MacroAssumption` (a macro is a vertical chain of blocks of
one type, as carry chains are; no block is in two), `PadFileAssumption` (no slot
given twice).

The argument. While a swap is tried, the blocks have moved and the grid has not,
so `GridAgrees` says nothing until the swap has ended. What is invariant is that
the grid agrees with the blocks *as they would be taken back* (`Restored`), and
that the moves are, so far, an exchange of places: each block and each new place
is in the list once, a block that did not move into an empty place has a partner
(`MovesInv`, `SwapInv`). That a block to be moved next has not moved already
(`TodoInv`) needs that members of a macro keep their distances: if a place ahead
of the macro is held by a block that the macro has displaced, it would lie a
whole offset away from itself (lemmas `NextMove`, `NewPlaces`). After the decision
the moves go into the grid one by one; `CommitInv` says which places the grid
already has right, and that a place left for good is not one entered before.
The places of macro members are tested against the edges of the chip only; that
their type fits is the lemma `SameColumn`, where `GridAssumption` and
`MacroAssumption` are used.

The boxes (`BInv`). During the loop over the pins of the moved blocks the box that
is tried for a large net is neither that of the places before the swap nor that of
the places now. What is invariant is that it is the box of the pins *as far as it
knows*: pins still in `pending` are taken to be where they were (`Known`). One pin
then changes one value of each axis, and `AxisMoved` shows that `update_bb` computes
the new ends and the pins on them, for any number of pins, unless the pin was the
last one on the end it leaves, when the box is computed from scratch with every pin
where it is now; the flag `scratch` keeps later pins from being applied to that box
a second time. When no pin is pending the box is that of the blocks (`Settled`), and
a net that is not in `affected` has no pin that moved. That flags and marks are
reset, on either way out, for exactly the nets that were tried is part of the
invariant (`FlagsInv`): the mutant that forgets it breaks it.

The cost (`CostInv`). `bb_cost` is changed by the differences of the affected
nets. `find_affected_nets` lists every net with a moved pin, and each once; so the
differences are those between the terms of two sums over all nets, and `SumChange`
(in `DataInduction`) gives `NewBoxCost = bbCost + Delta` (`DeltaIsRight`), in exact
arithmetic. From that follow `QuenchNeverRises` and, with the next invariant, that
`check_place` never stops the program.

The usage of the tiles (`UsageInv`) is the number of places taken. While moves are
taken over one by one, a move that was recorded as going to an empty place must
still find it empty, and the place it leaves still taken, although moves before it
have changed the grid: each place is left once and entered once, and no place left
for good is entered.

### The maze search

`MazeSearchProofs.tla`, for every graph, all prices and estimates, and whatever
earlier searches have left in `rr_node_route_inf`:

| Theorem | Statement |
|---|---|
| `Typed` | `Spec => []TypeOK` |
| `NoLoops` | `Spec => []WayBack` |
| `FindsExistingWays` | `Spec => []FindsAWay` |
| `CheapestIsFound` | `Spec => []CheapestPath` |

Assumptions: `TerminalAssumption` (no edge into a SOURCE, none out of a SINK) and
`HugeAssumption`: what a path can cost stays below `HUGE_POSITIVE_FLOAT`, since
the code takes a node of that cost for one it has not met. That is not a
consequence of the code: `HUGE_POSITIVE_FLOAT` is 1e30, and `pres_fac` is capped
only at 1e25 (`croute_timing.c:374`), so that a node overused 1e5 times would do.
With the default factor 1.3 and 50 iterations `pres_fac` stays below 1e6.

The argument. The three theorems need one invariant together. `InOrder`: along
`prev_node` the backward cost falls, or stays and the predecessor was expanded
before; so no way back can loop, even over edges that cost nothing. `Ways` and
`Entries`: the cost of every node expanded, and of every entry on the heap, is
that of some walk from the SOURCE on which every node is noted with no more than
it costs there. It need not be the walk along `prev_node`, since predecessors are
expanded again at lower costs; but it meets no node twice, so costs stay below
`HUGE`, and no entry is lost by the comparison in `node_to_heap`. `Frontier`: what
is one edge from an expanded node is expanded or on the heap; so an empty heap
means that everything within reach has been expanded (`FindsAWay`), and with
consistent estimates the first entry for the SINK has the least cost
(`CheapestPath`). That the heap is empty of stale costs is `Cleaned`.

### The routing graph

`RouteGraphProofs.tla`, for every set of connections of a net, all traces and any
order in which connections are added and ripped up:

| Theorem | Statement |
|---|---|
| `Typed` | `Spec => []TypeOK` |
| `GraphIsUnion` | `Spec => []UnionOfTraces` |
| `StraysOnlyAtSharedPin` | `Spec => []StrayNeedsSharedPin` |
| `SparesVisited` | `Spec => PruneSparesVisited` |
| `PruningLeavesTree` | `Spec => []PrunedToTree` |
| `WritesTree` | `Spec => []NetTraceIsTree` |

Assumption: `PathAssumption`: a trace runs from the SOURCE of the net over an
IPIN to a SINK and meets no node twice (`NoLoops`), an IPIN leads nowhere but to
its SINK, and nothing else leads to a SINK, as the rr-graph is built.

The argument has one part per phase. *While the net is routed* (`RInv`): usage is
the number of connections over an edge and both lists hold the edges in use
(`Lists`), also at nodes that are not in use, which `UnionOfTraces` leaves out
and the step that enters a node anew needs. That the walk takes the right case
depends on the node map, so the map has to be known exactly (`MapIsRight`), and
where the walk is (`Walking`): while it follows the graph it stands at a node of
another connection, so the list it has just searched is not empty; once it has
left the graph, at a node of no other one. That ripping up starts on the right
edge needs that no IPIN has two connections (`OwnPins`). *While the graph is pruned*
(`PInv`): an edge that is about to be cut is still in the child list, so all is
said in terms of edges that are *kept*. Every IPIN is in every set of nodes that
holds the SOURCE and is closed under kept edges (`Reached`), which says that it
can be reached without a path to be named; a node not visited yet has all parents
it ever had, or is gone (`Untouched`); and what the calls have left behind is
finished (`Calls`, `Loops`). The cut of a link (`CutRight`) is the hard case: it
goes on to an ancestor that has lost its last child, which has not been visited,
since a node on the call stack keeps the child the search went down to. It does
not meet the node just entered, as it lies in front of that node on a trace.
*While the trace is written* (`WInv`): a node with children left to visit lies on
the way up from the current node (`Pending`), so that when the walk is back at
the SOURCE nothing is left; the elements written so far are good (`Form`). That
`Tree`, defined by counting steps, is the least set closed under children is the
lemma `TreeOfIs`.

### The route checker

`RouteCheckProofs.tla`, for every device, all nets and all lists of nodes for
traces, right or wrong:

| Theorem | Statement |
|---|---|
| `Typed` | `Spec => []TypeOK` |
| `AcceptsRoutingsOnly` | `Spec => []AcceptedIsRouting` |
| `RoutingsPass` | `Spec => []RoutingIsAccepted` |

Assumption: `CheckAssumption`, the types of the constants (a SINK is left by no
edge; OPINs are told apart by their pin numbers).

The argument. The checker compares neighbours and keeps two sets; the invariant
(`Reading`) says by positions what the part of the trace read so far is: every
branch starts at a node before it, and no two wires end in one node (`ReadUpTo`),
and the pins reached are those a wire leads to (`PinsUpTo`). The tree (`IsTree`,
which counts wires from the SOURCE) comes out of that at the end by induction over
the position. For the other direction a listing of a tree never has a wire to a
node it has met (`OneWayIn`). That the recount is the true occupancy needs that an
element counts just if a wire leads to it (`CountedValue`), and that a trace
meets each node over one wire (`DoneFits`, `RoutingFits`).

### The node map

In the second part of `ConnectionRouterProofs.tla` (the router takes these maps for
functions), for any rr_nodes and any table that holds the root when it is new:

| Theorem | Statement |
|---|---|
| `MapNeverExits` | `MapSpec => []NeverExits` |
| `ScanIsComplete` | `MapSpec => []ScanReachesAll` |
| `MapIsBag` | `MapSpec => ImplementsBag` |

Assumption: `KeyAssumption` (rr_nodes are not negative; `100 < 35 * InitSize`, where
the code has 32). The bounds `MaxUse`, `MaxSize`, `MaxGrowth` and `MaxCount` of the
runs may have any value.

The argument. A table is `Good` when every entry can be found, that is when no
slot between the home of its rr_node and its place is free (`AllPlaced`), when no
rr_node has two entries, when the counter is not below the number of entries, and
when these fill less than 35% of the slots. The last of them is about the entries
and not about the counter, since `no_entries` may exceed even the size of the
table: what keeps a slot free is that a new entry is only taken in after the test
with the counter, and the counter errs upwards. A free slot ends every search
(`SearchIs`), so a search finds what is there (`FoundIs`) and nothing else
(`MissingIs`). Closing a gap is the hard case: while it goes on, `AllPlaced` does
not hold. What does is `HolesBefore`: when a slot on the way to an entry is free,
the entry lies in the part of the cluster that is still to be looked at, and the
slot in the part that has been. An entry that is put in again goes into the first
free slot of its way, which is that hole or its old slot; and an entry at home has no
way. The loop that closes the gap is bounded by the counter, too, and its two copies
have different bounds. Neither ends the loop before a free slot does: the slots
passed hold entries, which the counter does not undercount, and in the copy with the
tighter bound the removed entry was not at home, so that the slot in front of the gap
holds one more (`HasGap`, `NextSlot`).

### The wavefront heap

`BinaryHeapProofs.tla`, for any costs, any number of entries and any size of array:

| Theorem | Statement |
|---|---|
| `ReadsWithinHeap` | `Spec => []NoWildAccess` |
| `HeapIsQueue` | `Spec => ImplementsQueue` |

Assumption: `HeapAssumption` (costs are numbers, an array has a slot at the start,
what stands in a slot never written is no entry).

The argument. The invariant is the order of the heap over the slots in use. While an
entry rises or sinks it holds everywhere but at that entry (`OrderedBut`,
`OrderedBelow`), and swaps change no count of entries (`CountSwapped`). When an entry
is taken off, the last one moves to the root and its old slot is the one that
`get_heap_head` may read beyond the end: it has been written, and it holds what is
sinking. If the comparison with it decides, the entry changes places with itself.
Invalid entries that are skipped count for nothing, so after any number of them the
first valid one is the cheapest of those that were there (`SkippingKeeps`, `GetStep`).

### Induction over data

The induction theorems of the library cannot be instantiated by the provers here
(they take an operator). `DataInduction.tla` proves the forms that are needed for
*sets* and *functions*, from the library's fact that inclusion is well founded on
the subsets of a finite set: the least element of a set of numbers, induction over
`Nat` and over intervals, that recursive functions exist (`Recursion`), that a
chain of growing subsets has reached its limit after as many steps as there are
elements (`Saturates`), that a list without repetition is no longer than there are
elements (`NoRepetition`), that a set grows by as many elements as are put in
(`PutIn`), and sums over a set: that they exist, that their terms can be taken in
any order (`SumPick`), that they change by the sum of the changes (`SumChange`), and
that equal terms have equal sums (`SumSame`). The recursive functions of the
models (`Within`, `Distance`, `IsTree`, `Counted`, `Tree`, and the loops of the
heap and of the node map) are taken hold of with these.

### Only model-checked

* Liveness (`Terminates`, `Converges`, `SearchesEnd`, `WalksEnd`, `Decides`,
  `Ends`): it needs fairness and `ENABLED`, which are beyond the prover.

Every safety and action property of the passing runs is also proved.

## 5. What is not modelled

* Timing analysis and delays: the weights of the search. `RouteCon` allows any
  path, so the safety results hold whatever they are.
* R, C and Tdel of the routing graph with their recursive updates: data along
  the lists that `RouteGraph` keeps.
* Floating-point rounding: prices are exact fractions, so the equality of
  `PricesExact` means "computed by the same expression". Absorption of small
  history increments by a large `acc_cost` is out of scope. The drift of
  `bb_cost`, which the placer recomputes now and then, is absent for the same
  reason.
* In the placer: the timing part of the cost, the annealing schedule and range
  limit (any legal place may be picked), blocks larger than a tile, the search
  for macros, delay tables, reading and writing place files.
* The breadth-first and directed connection routers, which do not complete a
  second iteration (section 3), and the net-based routers, which the connection
  routers replace.
* The rr-graph generator, packing, timing and power analysis: constructions and
  estimates over data without a protocol of their own. The readers, options,
  reports and graphics of VPR.
* The other programs of the flow (`src/ODIN_II`, `src/abc_with_bb_support`,
  `src/libarchfpga`, `src/ace2`, `src/pcre`, ...): most of the lines of the
  repository, vendored, generated, or independent of routing.

## 6. Plan

What is left, in this order:

1. `NetRouter`: the net-based negotiation (`try_timing_driven_route`,
   `timing_driven_route_net`, `pathfinder_update_one_cost`), where a net is
   ripped up as a whole and its sinks share a route tree; implements
   `NegotiatedRouting`.
2. `SourceListRouter`: `rip_up_con`/`add_con` and the `_fast` variants, for one
   iteration, with the target flag after a failed search.
3. The composition of `RouteGraph` with the node map of `NodeHashMap`, which it
   takes for a bag.
