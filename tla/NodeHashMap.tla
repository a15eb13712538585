----------------------------- MODULE NodeHashMap -----------------------------
(***************************************************************************)
(* The node map of one net, t_rr_to_rg_node_hash_map of                    *)
(* vpr/SRC/route/route_common.c: an open-addressing hash table with linear *)
(* probing.  Removing an entry closes the gap by re-inserting the entries  *)
(* that follow it, and the table doubles when the counter no_entries says  *)
(* that it is 35% full.  That counter is no exact count: re-inserting an   *)
(* entry adds the usage of the entry to it.                                *)
(*                                                                         *)
(* ConnectionRouter uses these maps as the functions nodeMap[net]; here    *)
(* the table is shown to implement such a bag (NodeBag).                   *)
(***************************************************************************)
EXTENDS Integers, FiniteSets

CONSTANTS
  Key,         \* rr_nodes the net may use
  Root,        \* the SOURCE of the net
  InitSize,    \* slots of a new table (32 in init_graph_to_source)
  MaxUse,      \* bound: connections of the net through one node
  MaxSize,     \* bound: largest table
  MaxGrowth,   \* bound: doublings for one new entry
  MaxCount     \* bound: largest value of no_entries

ASSUME KeyAssumption ==
  /\ Key \subseteq Nat
  /\ Root \in Key
  /\ {InitSize, MaxUse, MaxSize, MaxGrowth, MaxCount} \subseteq Nat \ {0}
  /\ 100 < 35 * InitSize    \* the Root fits in

VARIABLES
  map,     \* the table: size, node_entries, no_entries; exited when the
           \* process has called exit(2) or used a NULL entry
  held,    \* [Key -> the connections of the net whose trace holds the node]
  answer   \* usage of the entry the last operation returned, 0 for NULL

mapVars == << map, held, answer >>

NULL == [rr_node |-> -1, usage |-> 0]
Entry == [rr_node : Key, usage : Nat \ {0}]

-----------------------------------------------------------------------------
(* Probing *)

EmptyTable(size) == [i \in 0 .. size - 1 |-> NULL]

Home(m, k) == k % m.size

\* The slot reached after i probes for k.
Probe(m, k, i) == ((k % m.size) + i) % m.size

\* A search for k stops at probe i: a free slot or the entry of k.
StopsAt(m, k, i) ==
  LET e == m.node_entries[Probe(m, k, i)]
  IN  e = NULL \/ e.rr_node = k

IsFull(m, k) == \A i \in 0 .. m.size - 1 : ~StopsAt(m, k, i)

\* The slot where a search for k ends (when it ends).
Place(m, k) ==
  Probe(m, k, CHOOSE i \in 0 .. m.size - 1 :
                /\ StopsAt(m, k, i)
                /\ \A j \in 0 .. i - 1 : ~StopsAt(m, k, j))

\* get_rr_to_rg_node_entry
Get(m, k) == IF IsFull(m, k) THEN NULL ELSE m.node_entries[Place(m, k)]

Exit(m) == [m EXCEPT !.exited = TRUE]

-----------------------------------------------------------------------------
(* Re-insertion: growing the table and closing gaps *)

\* The counter grows by the usage of the entry.
Reinsert(m, e) ==
  IF Get(m, e.rr_node) # NULL \/ IsFull(m, e.rr_node) THEN Exit(m)
  ELSE [m EXCEPT !.node_entries[Place(m, e.rr_node)] = e,
                 !.no_entries = @ + e.usage]

\* All entries move to a table twice the size.
Doubled(m) ==
  LET larger == [m EXCEPT !.size = 2 * m.size, !.no_entries = 0,
                          !.node_entries = EmptyTable(2 * m.size)]
      moved[i \in 0 .. m.size] ==    \* the first i slots are done
        IF i = 0 THEN [map |-> larger, n |-> 0]
        ELSE LET prev == moved[i - 1]
                 e    == m.node_entries[i - 1]
             IN  IF e = NULL \/ prev.n >= m.no_entries THEN prev
                 ELSE [map |-> Reinsert(prev.map, e), n |-> prev.n + 1]
  IN  moved[m.size].map

\* (mutant) entries are moved into the gap without regard to their home
GapClosedByOne(m, gap, last) ==
  LET next == (gap + 1) % m.size
  IN  [m EXCEPT !.node_entries[gap] = m.node_entries[next],
                !.node_entries[next] = NULL]

\* The entries behind the gap that are not at home are put in again, up to
\* the next free slot.  The counter, which bounds the loop, may be larger than
\* the table: the free slot ends it.
GapClosed(m, gap, last) ==
  LET moved[i \in 0 .. m.size] ==    \* i slots behind the gap are done
        IF i = 0 THEN [map |-> m, done |-> FALSE]
        ELSE LET prev == moved[i - 1]
                 loc  == (gap + i) % m.size
                 e    == prev.map.node_entries[loc]
             IN  IF prev.done \/ i >= prev.map.no_entries + last \/ e = NULL
                 THEN [prev EXCEPT !.done = TRUE]
                 ELSE IF Home(m, e.rr_node) = loc THEN prev
                 ELSE [prev EXCEPT !.map = Reinsert(
                         [prev.map EXCEPT !.node_entries[loc] = NULL], e)]
  IN  moved[m.size].map

-----------------------------------------------------------------------------
(* Operations *)

HasRoom(m) == 100 * (m.no_entries + 1) < 35 * m.size

\* The table after d doublings.
Grown(m, d) ==
  LET doubled[c \in 0 .. d] == IF c = 0 THEN m ELSE Doubled(doubled[c - 1])
  IN  doubled[d]

\* The table in which a new entry fits: the first in the row of doublings.
Fitting(m) ==
  Grown(m, CHOOSE d \in 0 .. MaxGrowth :
             /\ HasRoom(Grown(m, d))
             /\ \A c \in 0 .. d - 1 : ~HasRoom(Grown(m, c)))

\* add_rr_to_rg_node
Added(m, k) ==
  IF IsFull(m, k) THEN Exit(m)
  ELSE IF Get(m, k) # NULL
  THEN [m EXCEPT !.node_entries[Place(m, k)].usage = @ + 1]
  ELSE LET f == Fitting(m)
       IN  [f EXCEPT !.node_entries[Place(f, k)] = [rr_node |-> k, usage |-> 1],
                     !.no_entries = @ + 1]

\* (mutant) the loop bound of the other case
LastBehindNever(m, k) == 0

\* The two copies of the loop that closes a gap differ in their bounds: one
\* more slot is looked at when the removed entry was at home.
LastBehind(m, k) == IF Place(m, k) = Home(m, k) THEN 1 ELSE 0

\* (mutant) the counter follows the usage
RemovedCountingUses(m, k) ==
  [m EXCEPT !.node_entries[Place(m, k)] =
              IF @.usage > 1 THEN [@ EXCEPT !.usage = @ - 1] ELSE NULL,
            !.no_entries = @ - 1]

\* remove_rr_to_rg_node
Removed(m, k) ==
  IF Get(m, k) = NULL THEN Exit(m)
  ELSE IF Get(m, k).usage > 1
  THEN [m EXCEPT !.node_entries[Place(m, k)].usage = @ - 1]
  ELSE GapClosed([m EXCEPT !.node_entries[Place(m, k)] = NULL,
                           !.no_entries = @ - 1],
                 Place(m, k), LastBehind(m, k))

MapInit ==
  /\ map = Added([size |-> InitSize, node_entries |-> EmptyTable(InitSize),
                  no_entries |-> 0, exited |-> FALSE], Root)
  /\ held = [k \in Key |-> 0]
  /\ answer = 1

\* add_con_td puts a node of a new trace into the map ...
Add(k) ==
  /\ ~map.exited
  /\ held[k] < MaxUse
  /\ Get(map, k) = NULL =>
       \E d \in 0 .. MaxGrowth : /\ HasRoom(Grown(map, d))
                              /\ Grown(map, d).size <= MaxSize
  /\ map' = Added(map, k)
  /\ held' = [held EXCEPT ![k] = @ + 1]
  /\ answer' = Get(map', k).usage

\* ... and rip_up_con_td takes a node of an old trace out.
Remove(k) ==
  /\ ~map.exited
  /\ held[k] > 0
  /\ map' = Removed(map, k)
  /\ map'.no_entries <= MaxCount
  /\ held' = [held EXCEPT ![k] = @ - 1]
  /\ answer' = Get(map', k).usage

MapNext == \E k \in Key : Add(k) \/ Remove(k)

MapSpec == MapInit /\ [][MapNext]_mapVars

-----------------------------------------------------------------------------
(* Properties *)

Used(m) == { i \in DOMAIN m.node_entries : m.node_entries[i] # NULL }

\* "hashmap seems to be full, which is not possible"; "entry with same key
\* already present"; "no node entry found" (route_common.c): none of the
\* messages of the map can appear, whatever collides, wraps around or moves.
NeverExits == ~map.exited

\* The loops that load the sharing discount in and out (rip_up_con_td,
\* add_con_td) scan the slots and stop after no_entries entries: they reach
\* every entry although the counter does not count them.
Scanned(m) ==
  { i \in Used(m) : Cardinality({j \in Used(m) : j < i}) < m.no_entries }

ScanReachesAll == Scanned(map) = Used(map)

\* Every operation answers as a bag would, and what probing finds is the bag.
Bag == INSTANCE NodeBag WITH count <- [k \in Key |-> Get(map, k).usage]

ImplementsBag == Bag!Spec
=============================================================================
