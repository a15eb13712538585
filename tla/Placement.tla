----------------------------- MODULE Placement ------------------------------
(***************************************************************************)
(* The placer (place/place.c): an initial random placement, then swaps     *)
(* that are tried out on the blocks, judged by the change of the bounding  *)
(* boxes they cause, and either taken over into the grid or taken back.    *)
(*                                                                         *)
(* Blocks take one tile, so a pin is where its block is.  The cost of a    *)
(* net is the half perimeter of its box (the crossing and channel factors  *)
(* are 1) and place_algorithm is BOUNDING_BOX_PLACE.                       *)
(***************************************************************************)
EXTENDS Integers, FiniteSets, Sequences, FiniteSetsExt, SequencesExt

CONSTANTS
  NX, NY,     \* tiles in the core; a ring of tiles surrounds it
  Type, EmptyType, IOType,
  TypeAt,     \* grid[x][y].type
  Capacity,   \* type->capacity
  NumBlocks,
  TypeOf,     \* block[b].type
  NetsOf,     \* block[b].nets without OPEN pins and global nets
  Net,
  Macros,     \* pl_macros: sequences of [block, dx, dy, dz]
  PadFiles,   \* choices for the pad file: where it puts each pad, or NoFile
  NoFile,
  SmallNet    \* 4: with fewer sinks, a box is computed anew each time

Block == 1 .. NumBlocks
Tile  == (0 .. NX + 1) \X (0 .. NY + 1)
Core  == (1 .. NX) \X (1 .. NY)
Pads  == { b \in Block : TypeOf[b] = IOType }

TileOf(l) == << l[1], l[2] >>
Slots(t)  == { << t[1], t[2], z >> : z \in 0 .. Capacity[TypeAt[t]] - 1 }

\* legal_pos, of all types
Loc == UNION { Slots(t) : t \in Tile }
LegalPos(type) == { l \in Loc : TypeAt[TileOf(l)] = type }

Plus(l, d)  == << l[1] + d[1], l[2] + d[2], l[3] + d[3] >>
Minus(l, m) == << l[1] - m[1], l[2] - m[2], l[3] - m[3] >>
Offset(member) == << member.dx, member.dy, member.dz >>

MacroOf(b)  == { i \in DOMAIN Macros : \E k \in DOMAIN Macros[i] : Macros[i][k].block = b }
InMacro(b)  == MacroOf(b) # {}
Members(i)  == [k \in DOMAIN Macros[i] |-> Macros[i][k].block]

Empty   == 0                \* EMPTY
Nowhere == << -1, -1, -1 >> \* x, y and z of a block that is not placed yet

\* The core is a matrix of columns of one type each ("Assumes that a column
\* only contains blocks of the same type"); pads are on the ring.
ASSUME GridAssumption ==
  /\ NX \in Nat \ {0} /\ NY \in Nat \ {0}
  /\ {EmptyType, IOType} \subseteq Type /\ EmptyType # IOType
  /\ TypeAt \in [Tile -> Type]
  /\ Capacity \in [Type -> Nat] /\ Capacity[EmptyType] = 0
  /\ \A t \in Core : TypeAt[t] # IOType /\ TypeAt[t] = TypeAt[<< t[1], 1 >>]
  /\ \A t \in Tile \ Core : TypeAt[t] \in {IOType, EmptyType}

ASSUME NetlistAssumption ==
  /\ NumBlocks \in Nat
  /\ TypeOf \in [Block -> Type \ {EmptyType}]
  /\ NetsOf \in [Block -> Seq(Net)]
  /\ IsFiniteSet(Net)
  /\ \A n \in Net : \E b \in Block : \E k \in DOMAIN NetsOf[b] : NetsOf[b][k] = n
  /\ SmallNet \in Nat

\* A macro is a vertical chain (a carry chain) of blocks of one type, and a
\* block is in one macro at most.
ASSUME MacroAssumption ==
  /\ Macros \in Seq(Seq([block : Block, dx : {0}, dy : Int, dz : {0}]))
  /\ \A i \in DOMAIN Macros :
       /\ Macros[i] # << >> /\ Macros[i][1].dy = 0
       /\ \A j, k \in DOMAIN Macros[i] :
            /\ TypeOf[Macros[i][j].block] = TypeOf[Macros[i][k].block]
            /\ j # k => /\ Macros[i][j].dy # Macros[i][k].dy
                        /\ Macros[i][j].block # Macros[i][k].block
       /\ TypeOf[Macros[i][1].block] # IOType
  /\ \A b \in Block : \A i, j \in MacroOf(b) : i = j

\* A pad file that read_user_pad_loc takes, with no slot given twice.
ASSUME PadFileAssumption ==
  \A f \in PadFiles \ {NoFile} :
    /\ f \in [Pads -> LegalPos(IOType)]
    /\ \A b, c \in Pads : f[b] = f[c] => b = c

VARIABLES
  padFile,
  block,    \* where a block says it is
  fixed,    \* blocks with is_fixed
  grid,     \* grid[x][y].blocks[z]
  usage,    \* grid[x][y].usage
  box,      \* bb_coords and bb_num_on_edges
  netCost,
  bbCost,
  newBox,   \* ts_bb_coord_new and ts_bb_edge_new
  updated,  \* bb_updated_before
  marked,   \* nets whose temp_net_cost is not negative
  affected, \* ts_nets_to_update: the net at the pin that brought it up
  moves,    \* blocks_affected
  todo,     \* blocks still to be moved by this swap
  offset,   \* distance they are moved by
  pending,  \* pins of moved blocks whose nets are still to be updated
  frozen,   \* the temperature is 0
  count,    \* macros placed, or moves taken over into the grid
  pc

where == << block, fixed, grid, usage >>
costs == << box, netCost, bbCost >>
trial == << newBox, updated, marked, affected, pending >>
swap  == << moves, todo, offset >>
vars  == << padFile, where, costs, trial, swap, frozen, count, pc >>

-----------------------------------------------------------------------------
(* Bounding boxes *)

Pins(n) == { p \in UNION { {b} \X DOMAIN NetsOf[b] : b \in Block } : NetsOf[p[1]][p[2]] = n }
Large(n) == Cardinality(Pins(n)) - 1 >= SmallNet

\* "IO blocks [count] as being within the 1..nx, 1..ny clb array"
Clip(v, n) == Max({1, Min({v, n})})
ClipX(l) == Clip(l[1], NX)
ClipY(l) == Clip(l[2], NY)

Axis(at) ==
  LET vals == { at[p] : p \in DOMAIN at }
      on(v) == Cardinality({ p \in DOMAIN at : at[p] = v })
  IN  [lo |-> Min(vals), hi |-> Max(vals), onLo |-> on(Min(vals)), onHi |-> on(Max(vals))]

FromScratch(n, at) == [x |-> Axis([p \in Pins(n) |-> ClipX(at[p[1]])]),
                       y |-> Axis([p \in Pins(n) |-> ClipY(at[p[1]])])]

\* The pins on the edges are counted for large nets only.
KeepEdges(new, old) ==
  LET edges(a, b) == [lo |-> a.lo, hi |-> a.hi, onLo |-> b.onLo, onHi |-> b.onHi]
  IN  [x |-> edges(new.x, old.x), y |-> edges(new.y, old.y)]
NoBox == LET edges == [lo |-> 0, hi |-> 0, onLo |-> 0, onHi |-> 0] IN [x |-> edges, y |-> edges]

BoundingBox(n, at) == IF Large(n) THEN FromScratch(n, at) ELSE KeepEdges(FromScratch(n, at), NoBox)

GetNetCost(b) == (b.x.hi - b.x.lo + 1) + (b.y.hi - b.y.lo + 1)

\* A pin that goes from old to new was the last one on the edge it leaves.
LeavesEdgeBare(old, new, a) ==
  \/ new < old /\ old = a.hi /\ a.onHi = 1
  \/ new > old /\ old = a.lo /\ a.onLo = 1

Moved(old, new, a) ==
  CASE new < old -> [ lo   |-> IF new < a.lo THEN new ELSE a.lo,
                      hi   |-> a.hi,
                      onLo |-> CASE new < a.lo -> 1 [] new = a.lo -> a.onLo + 1 [] OTHER -> a.onLo,
                      onHi |-> IF old = a.hi THEN a.onHi - 1 ELSE a.onHi ]
    [] new > old -> [ lo   |-> a.lo,
                      hi   |-> IF new > a.hi THEN new ELSE a.hi,
                      onLo |-> IF old = a.lo THEN a.onLo - 1 ELSE a.onLo,
                      onHi |-> CASE new > a.hi -> 1 [] new = a.hi -> a.onHi + 1 [] OTHER -> a.onHi ]
    [] OTHER -> a

-----------------------------------------------------------------------------
(* initial_placement *)

Init ==
  /\ padFile \in PadFiles
  /\ block = [b \in Block |-> Nowhere] /\ fixed = {}
  /\ grid = [l \in Loc |-> Empty] /\ usage = [t \in Tile |-> 0]
  /\ box = [n \in Net |-> NoBox] /\ netCost = [n \in Net |-> -1] /\ bbCost = 0
  /\ newBox = [n \in Net |-> NoBox] /\ updated = [n \in Net |-> "not_yet"]
  /\ marked = {} /\ affected = << >> /\ pending = {}
  /\ moves = << >> /\ todo = << >> /\ offset = << 0, 0, 0 >>
  /\ frozen = FALSE /\ count = 0 /\ pc = "macros"

\* check_macro_can_be_placed
MacroFits(i, head) ==
  \A k \in DOMAIN Macros[i] :
    LET l == Plus(head, Offset(Macros[i][k]))
    IN  /\ l \in LegalPos(TypeOf[Macros[i][1].block])
        /\ grid[l] = Empty

\* A position is tried at random some times, then all are: try_place_macro.
PlaceMacro ==
  /\ pc = "macros" /\ count < Len(Macros)
  /\ LET i == count + 1
         heads == { l \in Loc : MacroFits(i, l) }
         tooLong == Cardinality(LegalPos(TypeOf[Macros[i][1].block])) < Len(Macros[i])
     IN  IF tooLong \/ heads = {}
         THEN /\ pc' = "thrown"
              /\ UNCHANGED << block, grid, usage, count >>
         ELSE \E head \in heads :
                LET at(k) == Plus(head, Offset(Macros[i][k]))
                    here(l) == { k \in DOMAIN Macros[i] : at(k) = l }
                IN  /\ block' = [b \in Block |->
                         IF \E k \in DOMAIN Macros[i] : Macros[i][k].block = b
                         THEN at(CHOOSE k \in DOMAIN Macros[i] : Macros[i][k].block = b)
                         ELSE block[b]]
                    /\ grid' = [l \in Loc |->
                         IF here(l) = {} THEN grid[l]
                         ELSE Macros[i][CHOOSE k \in here(l) : TRUE].block]
                    /\ usage' = [t \in Tile |-> usage[t]
                         + Cardinality({ k \in DOMAIN Macros[i] : TileOf(at(k)) = t })]
                    /\ count' = i
                    /\ pc' = pc
  /\ UNCHANGED << padFile, fixed, costs, trial, swap, frozen >>

ByUser(b) == b \in Pads /\ padFile # NoFile
Unplaced == { b \in Block : block[b] = Nowhere /\ ~ByUser(b) }

MacrosPlaced ==
  /\ pc = "macros" /\ count = Len(Macros)
  /\ pc' = "blocks" /\ count' = 0
  /\ UNCHANGED << padFile, where, costs, trial, swap, frozen >>

\* initial_placement_blocks: legal_pos holds the positions that are still free.
PlaceBlock ==
  /\ pc = "blocks"
  /\ \E b \in Unplaced :
       /\ \A c \in Unplaced : b <= c
       /\ LET free == { l \in LegalPos(TypeOf[b]) : grid[l] = Empty }
          IN  IF free = {}
              THEN /\ pc' = "thrown"
                   /\ UNCHANGED << block, grid, usage >>
              ELSE \E l \in free :
                     /\ block' = [block EXCEPT ![b] = l]
                     /\ grid' = [grid EXCEPT ![l] = b]
                     /\ usage' = [usage EXCEPT ![TileOf(l)] = @ + 1]
                     /\ pc' = pc
  /\ UNCHANGED << padFile, fixed, costs, trial, swap, frozen, count >>

\* read_user_pad_loc: x and y of a pad are set, z is not.
ReadPads ==
  /\ pc = "blocks" /\ Unplaced = {}
  /\ IF padFile = NoFile THEN UNCHANGED where
     ELSE /\ block' = [b \in Block |-> IF b \in Pads THEN [padFile[b] EXCEPT ![3] = -1] ELSE block[b]]
          /\ fixed' = Pads
          /\ grid' = [l \in Loc |-> IF \E b \in Pads : padFile[b] = l
                                    THEN CHOOSE b \in Pads : padFile[b] = l
                                    ELSE IF l \in LegalPos(IOType) THEN Empty ELSE grid[l]]
          /\ usage' = [t \in Tile |-> usage[t] + Cardinality({ b \in Pads : TileOf(padFile[b]) = t })]
  /\ pc' = "cost"
  /\ UNCHANGED << padFile, costs, trial, swap, frozen, count >>

\* comp_bb_cost(NORMAL)
CompBBCost ==
  /\ pc = "cost"
  /\ box' = [n \in Net |-> BoundingBox(n, block)]
  /\ netCost' = [n \in Net |-> GetNetCost(box'[n])]
  /\ bbCost' = SumFunction(netCost')
  /\ pc' = "idle"
  /\ UNCHANGED << padFile, where, trial, swap, frozen, count >>

-----------------------------------------------------------------------------
(* try_swap *)

\* (mutant) any block may be picked
AnyBlock == Block

\* "If the pins are fixed we never move them."
MayPick == Block \ fixed

\* find_to: the range limit only narrows the choice.
MayGo(b, l) ==
  /\ TileOf(l) # TileOf(block[b])
  /\ TypeAt[TileOf(l)] = TypeOf[b]
  /\ grid[l] \notin fixed

\* A block is picked that is not fixed, and a place for it; when find_to gives
\* up, nothing changes.  All members of a macro go the same way.
PickSwap ==
  /\ pc = "idle"
  /\ \E b \in MayPick : \E l \in Loc :
       /\ MayGo(b, l)
       /\ offset' = Minus(l, block[b])
       /\ todo' = IF InMacro(b) THEN Members(CHOOSE i \in MacroOf(b) : TRUE) ELSE << b >>
  /\ pc' = "affect"
  /\ UNCHANGED << padFile, where, costs, trial, moves, frozen, count >>

Move(b, from, to, alone) == [block |-> b, from |-> from, to |-> to, alone |-> alone]

Target == Plus(block[Head(todo)], offset)
OffChip == TileOf(Target) \notin Core \/ Target[3] < 0

\* (mutant) only the members of other macros stand in the way
InOtherMacro(b) == InMacro(b) /\ b \notin Range(todo) \cup { moves[i].block : i \in DOMAIN moves }

InTheWay(b) == InMacro(b)

\* "Does not allow a swap with a macro yet"; a macro has to stay on the chip.
Hopeless ==
  IF InMacro(Head(todo)) /\ OffChip THEN TRUE
  ELSE grid[Target] # Empty /\ InTheWay(grid[Target])

\* setup_blocks_affected: blocks move at once, the grid stays as it is.
SetupBlocksAffected ==
  /\ pc = "affect" /\ todo # << >> /\ ~Hopeless
  /\ LET b == Head(todo)
         partner == grid[Target]
     IN  IF partner = Empty
         THEN /\ block' = [block EXCEPT ![b] = Target]
              /\ moves' = Append(moves, Move(b, block[b], Target, TRUE))
         ELSE /\ block' = [block EXCEPT ![partner] = block[b], ![b] = Target]
              /\ moves' = moves \o << Move(b, block[b], Target, FALSE),
                                    Move(partner, Target, block[b], FALSE) >>
  /\ todo' = Tail(todo)
  /\ UNCHANGED << padFile, fixed, grid, usage, costs, trial, offset, frozen, count, pc >>

\* (mutant) nothing is taken back
NotRestored == block

\* Blocks that moved go back where they came from.
Restored ==
  [b \in Block |->
     IF \E i \in DOMAIN moves : moves[i].block = b
     THEN moves[CHOOSE i \in DOMAIN moves :
                  moves[i].block = b /\ \A j \in DOMAIN moves : moves[j].block = b => j <= i].from
     ELSE block[b]]

EndSwap ==
  /\ moves' = << >> /\ todo' = << >> /\ offset' = << 0, 0, 0 >>
  /\ count' = 0 /\ pc' = "idle"

Abort ==
  /\ pc = "affect" /\ todo # << >> /\ Hopeless
  /\ block' = Restored
  /\ EndSwap
  /\ UNCHANGED << padFile, fixed, grid, usage, costs, trial, frozen >>

\* Pins of the blocks that moved, gone through in the order of the moves:
\* << i, k >> is pin k of the block of move i.
MovedPins    == UNION { {i} \X DOMAIN NetsOf[moves[i].block] : i \in DOMAIN moves }
NetOf(p)     == NetsOf[moves[p[1]].block][p[2]]
Before(p, q) == p[1] < q[1] \/ (p[1] = q[1] /\ p[2] < q[2])

\* (mutant) nets are not marked
NetsOfPins(ps) == [p \in ps |-> NetOf(p)]

\* The nets of the pins, each where it first comes up unmarked.
UnmarkedNets(ps) ==
  LET new(p) == NetOf(p) \notin marked /\ \A q \in ps : Before(q, p) => NetOf(q) # NetOf(p)
  IN  [p \in { p \in ps : new(p) } |-> NetOf(p)]

FindAffectedNets ==
  /\ pc = "affect" /\ todo = << >>
  /\ pending' = MovedPins
  /\ affected' = UnmarkedNets(MovedPins)
  /\ marked' = marked \cup Range(affected')
  /\ pc' = "bound"
  /\ UNCHANGED << padFile, where, costs, newBox, updated, swap, frozen, count >>

\* (mutant) each pin is applied to the box the net had before the swap
BoxBefore(n) == box[n]

\* The box a pin is applied to.
CurrentBox(n) == IF updated[n] = "not_yet" THEN box[n] ELSE newBox[n]

\* One pin: get_non_updateable_bb for small nets, update_bb for large ones.
UpdateBB ==
  /\ pc = "bound"
  /\ \E p \in pending :
       /\ \A q \in pending : ~Before(q, p)
       /\ LET n == NetOf(p)
              from == moves[p[1]].from
              to == moves[p[1]].to
              cur == CurrentBox(n)
              bare == \/ LeavesEdgeBare(ClipX(from), ClipX(to), cur.x)
                      \/ LeavesEdgeBare(ClipY(from), ClipY(to), cur.y)
          IN  CASE ~Large(n) -> /\ newBox' = [newBox EXCEPT ![n] = BoundingBox(n, block)]
                                /\ UNCHANGED updated
                [] Large(n) /\ updated[n] = "scratch" -> UNCHANGED << newBox, updated >>
                [] Large(n) /\ updated[n] # "scratch" /\ bare ->
                     /\ newBox' = [newBox EXCEPT ![n] = FromScratch(n, block)]
                     /\ updated' = [updated EXCEPT ![n] = "scratch"]
                [] OTHER ->
                     /\ newBox' = [newBox EXCEPT ![n] = [x |-> Moved(ClipX(from), ClipX(to), cur.x),
                                                         y |-> Moved(ClipY(from), ClipY(to), cur.y)]]
                     /\ updated' = [updated EXCEPT ![n] = "once"]
       /\ pending' = pending \ {p}
  /\ UNCHANGED << padFile, where, costs, marked, affected, swap, frozen, count, pc >>

Delta == SumFunction(
  [p \in DOMAIN affected |-> GetNetCost(newBox[affected[p]]) - netCost[affected[p]]])

\* assess_swap; above the freezing point chance decides on a rise.
MayAccept(d) == d <= 0 \/ ~frozen
MayReject(d) == d > 0

\* The flags of the affected nets are reset; the boxes tried are not read again.
ResetFlags ==
  /\ marked' = marked \ Range(affected)
  /\ updated' = [n \in Net |-> IF n \in Range(affected) THEN "not_yet" ELSE updated[n]]
  /\ newBox' = [n \in Net |-> NoBox]
  /\ affected' = << >>
  /\ UNCHANGED pending

Assessing == pc = "bound" /\ pending = {}

Accept ==
  /\ Assessing /\ MayAccept(Delta)
  /\ bbCost' = bbCost + Delta
  /\ box' = [n \in Net |->
       CASE n \notin Range(affected) -> box[n]
         [] n \in Range(affected) /\ Large(n) -> newBox[n]
         [] OTHER -> KeepEdges(newBox[n], box[n])]
  /\ netCost' = [n \in Net |-> IF n \in Range(affected) THEN GetNetCost(newBox[n]) ELSE netCost[n]]
  /\ ResetFlags
  /\ count' = 0 /\ pc' = "commit"
  /\ UNCHANGED << padFile, where, swap, frozen >>

\* (mutant) the place a block leaves is emptied, swapped or not
CommitEmptying ==
  /\ pc = "commit" /\ count < Len(moves)
  /\ LET m == moves[count + 1]
     IN  grid' = [grid EXCEPT ![m.to] = m.block, ![m.from] = Empty]
  /\ count' = count + 1
  /\ UNCHANGED << padFile, block, fixed, usage, costs, trial, swap, frozen, pc >>

\* The moves are taken over into the grid, one after the other.
Commit ==
  /\ pc = "commit" /\ count < Len(moves)
  /\ LET m == moves[count + 1]
         arrived == [grid EXCEPT ![m.to] = m.block]
     IN  IF m.alone
         THEN /\ grid' = [arrived EXCEPT ![m.from] = Empty]
              /\ usage' = [usage EXCEPT ![TileOf(m.to)] = @ + 1, ![TileOf(m.from)] = @ - 1]
         ELSE /\ grid' = arrived
              /\ UNCHANGED usage
  /\ count' = count + 1
  /\ UNCHANGED << padFile, block, fixed, costs, trial, swap, frozen, pc >>

Accepted ==
  /\ pc = "commit" /\ count = Len(moves)
  /\ EndSwap
  /\ UNCHANGED << padFile, where, costs, trial, frozen >>

\* (mutant) the flags are left as they are
RejectKeepingFlags ==
  /\ Assessing /\ MayReject(Delta)
  /\ block' = Restored
  /\ affected' = << >> /\ marked' = marked \ Range(affected)
  /\ UNCHANGED << newBox, updated, pending >>
  /\ EndSwap
  /\ UNCHANGED << padFile, fixed, grid, usage, costs, frozen >>

Reject ==
  /\ Assessing /\ MayReject(Delta)
  /\ ResetFlags
  /\ block' = Restored
  /\ EndSwap
  /\ UNCHANGED << padFile, fixed, grid, usage, costs, frozen >>

\* "freeze out": the last placement_inner_loop of try_place
Freeze ==
  /\ pc = "idle" /\ ~frozen
  /\ frozen' = TRUE
  /\ UNCHANGED << padFile, where, costs, trial, swap, count, pc >>

-----------------------------------------------------------------------------
(* check_place *)

NewBoxCost == SumFunction(
  [n \in Net |-> GetNetCost(KeepEdges(FromScratch(n, block), box[n]))])

\* The grid against the blocks (x and y only), every block once, the macros.
PlaceErrors ==
  \/ bbCost # NewBoxCost
  \/ \E t \in Tile :
       \/ usage[t] > Capacity[TypeAt[t]]
       \/ usage[t] # Cardinality({ l \in Slots(t) : grid[l] # Empty })
       \/ \E l \in Slots(t) : grid[l] # Empty /\
            (TypeOf[grid[l]] # TypeAt[t] \/ TileOf(block[grid[l]]) # t)
  \/ \E b \in Block : Cardinality({ l \in Loc : grid[l] = b }) # 1
  \/ \E i \in DOMAIN Macros : \E k \in DOMAIN Macros[i] :
       LET l == Plus(block[Macros[i][1].block], Offset(Macros[i][k]))
       IN  block[Macros[i][k].block] # l \/ l \notin Loc \/ grid[l] # Macros[i][k].block

CheckPlace ==
  /\ pc = "idle" /\ frozen
  /\ box' = [n \in Net |-> KeepEdges(FromScratch(n, block), box[n])]
  /\ netCost' = [n \in Net |-> GetNetCost(box'[n])]
  /\ pc' = IF PlaceErrors THEN "inconsistent" ELSE "placed"
  /\ UNCHANGED << padFile, where, bbCost, trial, swap, frozen, count >>

Next ==
  \/ PlaceMacro \/ MacrosPlaced \/ PlaceBlock \/ ReadPads \/ CompBBCost
  \/ PickSwap \/ SetupBlocksAffected \/ Abort \/ FindAffectedNets \/ UpdateBB
  \/ Accept \/ Commit \/ Accepted \/ Reject \/ Freeze \/ CheckPlace

Spec == Init /\ [][Next]_vars

-----------------------------------------------------------------------------
AtRest == pc \in {"cost", "idle", "placed"}

\* Between swaps a block is where the grid has it, and the grid has it nowhere
\* else; of a pad the user placed, x and y are.  try_swap moves blocks, then the
\* grid, and takes back what it does not keep (place.c:1377-1443).
GridAgrees ==
  AtRest => \A b \in Block :
    /\ \E l \in Loc : grid[l] = b
    /\ \A l \in Loc : grid[l] = b =>
         IF b \in fixed THEN TileOf(block[b]) = TileOf(l) ELSE block[b] = l

\* Between swaps the members of a macro keep their distances: a swap moves all
\* of them or none (place.c:1158-1211).
MacrosHold ==
  AtRest => \A i \in DOMAIN Macros : \A k \in DOMAIN Macros[i] :
    block[Macros[i][k].block] = Plus(block[Macros[i][1].block], Offset(Macros[i][k]))

\* However it was obtained, the box of a net, and for a large net the number of
\* pins on each of its edges, are those of the blocks where they are now
\* (place.c:2380-2593: pin by pin, unless an edge is left bare).
BoxesAreRight ==
  pc \in {"idle", "placed"} => \A n \in Net : box[n] = BoundingBox(n, block)

\* No block is in the list of moved blocks twice, and no two blocks are ever in
\* one place, swap under way or not (place.c:1113: a macro that met itself would
\* swap its own members, and the list has room for each block once).
MovedOnce ==
  pc \in {"affect", "bound", "commit", "idle"} =>
    /\ \A i, j \in DOMAIN moves : moves[i].block = moves[j].block => i = j
    /\ \A b, c \in Block \ fixed : block[b] = block[c] => b = c

\* check_place never finds a placement it does not agree with, nor a cost that
\* is not the cost of the boxes (place.c:3057-3204 stops the program otherwise).
CheckPasses == pc # "inconsistent"

\* Once frozen, no swap is kept that raises the cost of the placement, worked out
\* from where the blocks are: "accept only swaps which reduce the cost of the
\* placement" (place.c:647), though cost, boxes and edges are kept up pin by pin.
QuenchNeverRises ==
  [][frozen /\ pc = "bound" /\ pc' = "commit" => NewBoxCost <= bbCost]_vars

\* A pad that the user placed never moves, whatever swaps and macros do.
PadsStay == [][\A b \in fixed : block'[b] = block[b]]_vars

\* "Will be reloaded by initial_placement anyway" (base/read_place.c:228): the
\* place of a pad that the user gave is known after initial_placement.
PadsReloaded ==
  AtRest => \A b \in fixed : block[b] \in Loc /\ grid[block[b]] = b
=============================================================================
