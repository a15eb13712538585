-------------------------- MODULE PlacementProofs ---------------------------
(***************************************************************************)
(* Whatever the grid, the netlist, the macros and the pad file are, swaps  *)
(* keep the grid and the blocks in agreement, the macros whole and the     *)
(* pads of the user in place; the bounding boxes and the cost kept up pin  *)
(* by pin are the ones worked out anew; and check_place has nothing to     *)
(* complain of.                                                            *)
(*                                                                         *)
(* The argument for the grid: until a swap is accepted the grid does not   *)
(* change, so it still agrees with the blocks as they would be after       *)
(* Restored; the list of moves is a permutation of places (each target is  *)
(* free, or the place of another move that comes here in exchange); taken  *)
(* over one by one into the grid, such moves end in agreement again.       *)
(*                                                                         *)
(* For the boxes: while pins are applied, the box tried for a net is that  *)
(* of its pins as far as it knows, those still to be applied being where   *)
(* they were.  One pin changes one end of each axis, and the number of     *)
(* pins on it, as update_bb says, unless it leaves the end bare.  For the  *)
(* cost: each net whose box changes is listed once, so the changes add up. *)
(***************************************************************************)
EXTENDS Placement, DataInduction

Coord == Int \X Int \X Int
MoveRec == [block : Block, from : Loc, to : Loc, alone : BOOLEAN]

\* Where the grid should have a block, the blocks being at blk.
Seat(blk, b) == IF b \in fixed THEN padFile[b] ELSE blk[b]

Seated(blk) ==
  \A b \in Block : /\ Seat(blk, b) \in LegalPos(TypeOf[b])
                   /\ \A l \in Loc : grid[l] = b <=> Seat(blk, b) = l

Whole(blk, i) ==
  \A k \in DOMAIN Macros[i] :
    blk[Macros[i][k].block] = Plus(blk[Macros[i][1].block], Offset(Macros[i][k]))

Shape(blk) == \A i \in DOMAIN Macros : Whole(blk, i)

IsMoved(b)  == \E i \in DOMAIN moves : moves[i].block = b
IsTodo(b)   == \E k \in DOMAIN todo : todo[k] = b

TInv ==
  /\ padFile \in PadFiles
  /\ block \in [Block -> Coord]
  /\ grid \in [Loc -> Block \cup {Empty}]
  /\ moves \in Seq(MoveRec) /\ todo \in Seq(Block)
  /\ offset \in Coord /\ count \in Nat

PadsInv ==
  fixed # {} => /\ fixed = Pads /\ padFile # NoFile
                /\ \A b \in fixed : block[b] = [padFile[b] EXCEPT ![3] = -1]

\* While blocks are placed, a block is nowhere or where the grid has it.
PlacingInv ==
  pc \in {"macros", "blocks"} =>
    /\ fixed = {} /\ moves = << >>
    /\ \A b \in Block : /\ block[b] = Nowhere \/ block[b] \in LegalPos(TypeOf[b])
                        /\ \A l \in Loc : grid[l] = b <=> block[b] = l
    /\ \A b \in Block : ByUser(b) => block[b] = Nowhere

MacrosInv ==
  pc = "macros" =>
    /\ count <= Len(Macros)
    /\ \A i \in 1 .. count :
         Whole(block, i) /\ \A k \in DOMAIN Macros[i] : block[Macros[i][k].block] # Nowhere
    /\ \A b \in Block : (\A i \in MacroOf(b) : i > count) => block[b] = Nowhere

BlocksInv ==
  pc = "blocks" => Shape(block) /\ \A b \in Block : InMacro(b) => block[b] # Nowhere

Resting == pc \in {"cost", "idle", "placed", "inconsistent"}

RestInv == Resting => moves = << >> /\ Seated(block) /\ Shape(block)

Swapping == pc \in {"affect", "bound"}

\* The list of moves.
MovesInv ==
  Swapping \/ pc = "commit" =>
    /\ \A i, j \in DOMAIN moves : moves[i].block = moves[j].block => i = j
    /\ \A i, j \in DOMAIN moves : moves[i].to = moves[j].to => i = j
    /\ \A i \in DOMAIN moves :
         /\ moves[i].block \notin fixed
         /\ block[moves[i].block] = moves[i].to
         /\ moves[i].to \in LegalPos(TypeOf[moves[i].block])
         /\ ~moves[i].alone =>
              \E j \in DOMAIN moves : moves[j].from = moves[i].to /\ moves[j].to = moves[i].from

\* Up to the decision.
SwapInv ==
  Swapping =>
    /\ Seated(Restored) /\ Shape(Restored)
    /\ \A i \in DOMAIN moves :
         /\ moves[i].alone => grid[moves[i].to] = Empty
         /\ ~moves[i].alone => grid[moves[i].to] # Empty
         /\ InMacro(moves[i].block) => moves[i].to = Plus(moves[i].from, offset)
    /\ \A i \in DOMAIN Macros : \A j, k \in DOMAIN Macros[i] :
         IsMoved(Macros[i][j].block) \/ IsTodo(Macros[i][j].block)
           => IsMoved(Macros[i][k].block) \/ IsTodo(Macros[i][k].block)
    /\ pc = "bound" => todo = << >>

\* What is still to be moved.
TodoInv ==
  pc = "affect" /\ todo # << >> =>
    /\ \A j, k \in DOMAIN todo : todo[j] = todo[k] => j = k
    /\ \A k \in DOMAIN todo :
         LET b == todo[k]
             l == Plus(block[b], offset)
         IN  /\ b \notin fixed /\ ~IsMoved(b)
             /\ InMacro(b) => (TileOf(l) \in Core => l \in LegalPos(TypeOf[b]))
             /\ ~InMacro(b) => /\ l \in LegalPos(TypeOf[b]) /\ grid[l] \notin fixed
                               /\ grid[l] # b
                               /\ moves = << >> /\ Len(todo) = 1
    /\ \A i \in DOMAIN moves :
         \/ InMacro(moves[i].block)
         \/ \E j \in DOMAIN moves : InMacro(moves[j].block) /\ moves[i].to = moves[j].from

\* While the moves are taken over.
CommitInv ==
  pc = "commit" =>
    /\ count <= Len(moves)
    /\ Shape(block)
    /\ \A b \in Block : Seat(block, b) \in LegalPos(TypeOf[b])
    /\ \A b, c \in Block : Seat(block, b) = Seat(block, c) => b = c
    /\ \A b \in Block : ~IsMoved(b) =>
         \A i \in DOMAIN moves : Seat(block, b) # moves[i].from
    /\ \A i, j \in DOMAIN moves : moves[i].alone => moves[i].from # moves[j].to
    /\ \A i \in 1 .. count : /\ grid[moves[i].to] = moves[i].block
                             /\ moves[i].alone => grid[moves[i].from] = Empty
    /\ \A l \in Loc :
         (\A i \in DOMAIN moves : l # moves[i].from /\ l # moves[i].to)
           => \A b \in Block : grid[l] = b <=> Seat(block, b) = l

IInv == /\ TInv /\ PadsInv /\ PlacingInv /\ MacrosInv /\ BlocksInv /\ RestInv
        /\ MovesInv /\ SwapInv /\ TodoInv /\ CommitInv

-----------------------------------------------------------------------------
(* Facts about places and macros *)

\* A place is a slot of a tile of the grid.
LEMMA PlaceFacts ==
  \A l \in Loc : /\ l \in Coord /\ TileOf(l) \in Tile /\ l # Nowhere
                 /\ l[3] \in 0 .. Capacity[TypeAt[TileOf(l)]] - 1
<1> TAKE l \in Loc
<1>1. PICK t \in Tile : l \in Slots(t)
  BY DEF Loc
<1>2. PICK z \in 0 .. Capacity[TypeAt[t]] - 1 : l = << t[1], t[2], z >>
  BY <1>1 DEF Slots
<1>3. t = << t[1], t[2] >> /\ t[1] \in Int /\ t[2] \in Int
  BY GridAssumption DEF Tile
<1>4. TypeAt[t] \in Type /\ Capacity[TypeAt[t]] \in Nat
  BY GridAssumption
<1>5. TileOf(l) = t
  BY <1>2, <1>3 DEF TileOf
<1>6. l[3] = z /\ z \in Int /\ z >= 0
  BY <1>2, <1>4
<1>7. l \in Coord
  BY <1>2, <1>3, <1>6 DEF Coord
<1>8. l # Nowhere
  BY <1>6, <1>2 DEF Nowhere
<1> QED BY <1>2, <1>5, <1>6, <1>7, <1>8

\* A slot that the tile has is a place.
LEMMA IsPlace ==
  ASSUME NEW l \in Coord, TileOf(l) \in Tile, l[3] \in 0 .. Capacity[TypeAt[TileOf(l)]] - 1
  PROVE  l \in Loc
<1>1. l = << TileOf(l)[1], TileOf(l)[2], l[3] >>
  BY DEF Coord, TileOf
<1>2. l \in Slots(TileOf(l))
  BY <1>1 DEF Slots
<1> QED BY <1>2 DEF Loc

\* Legal positions of a type are places of that type.
LEMMA LegalFacts ==
  \A type : \A l \in LegalPos(type) : l \in Loc /\ l \in Coord /\ TypeAt[TileOf(l)] = type
BY PlaceFacts DEF LegalPos

\* Offsets of places add up and cancel out.
LEMMA PlusFacts ==
  ASSUME NEW l \in Coord, NEW m \in Coord
  PROVE  /\ Plus(l, m) \in Coord /\ Minus(l, m) \in Coord
         /\ Plus(m, Minus(l, m)) = l
         /\ \A n \in Coord : Plus(n, m) = Plus(l, m) => n = l
         /\ Plus(l, m) = l => m = << 0, 0, 0 >>
BY DEF Coord, Plus, Minus

\* The order in which two offsets are added does not matter.
LEMMA PlusTwice ==
  ASSUME NEW l \in Coord, NEW m \in Coord, NEW n \in Coord
  PROVE  Plus(Plus(l, m), n) = Plus(Plus(l, n), m)
<1>1. /\ l[1] \in Int /\ l[2] \in Int /\ l[3] \in Int
      /\ m[1] \in Int /\ m[2] \in Int /\ m[3] \in Int
      /\ n[1] \in Int /\ n[2] \in Int /\ n[3] \in Int
  BY DEF Coord
<1>2. Plus(Plus(l, m), n) = << (l[1] + m[1]) + n[1], (l[2] + m[2]) + n[2], (l[3] + m[3]) + n[3] >>
  BY DEF Plus
<1>3. Plus(Plus(l, n), m) = << (l[1] + n[1]) + m[1], (l[2] + n[2]) + m[2], (l[3] + n[3]) + m[3] >>
  BY DEF Plus
<1>4. /\ (l[1] + m[1]) + n[1] = (l[1] + n[1]) + m[1] /\ (l[2] + m[2]) + n[2] = (l[2] + n[2]) + m[2]
      /\ (l[3] + m[3]) + n[3] = (l[3] + n[3]) + m[3]
  BY <1>1
<1> QED BY <1>2, <1>3, <1>4

\* What is assumed of macros, member by member.
LEMMA MacroFacts ==
  ASSUME NEW i \in DOMAIN Macros, NEW k \in DOMAIN Macros[i]
  PROVE  /\ Macros[i][k].block \in Block /\ Macros[i][1].block \in Block
         /\ 1 \in DOMAIN Macros[i]
         /\ Macros[i][k].dy \in Int
         /\ Offset(Macros[i][k]) = << 0, Macros[i][k].dy, 0 >>
         /\ Offset(Macros[i][1]) = << 0, 0, 0 >>
         /\ TypeOf[Macros[i][k].block] = TypeOf[Macros[i][1].block]
         /\ TypeOf[Macros[i][k].block] # IOType
         /\ TypeOf[Macros[i][k].block] # EmptyType
         /\ i \in MacroOf(Macros[i][k].block) /\ InMacro(Macros[i][k].block)
         /\ i \in Nat /\ i \in 1 .. Len(Macros)
         /\ Macros[i][k].block \notin Pads
<1> DEFINE R == [block : Block, dx : {0}, dy : Int, dz : {0}]
<1>1. Macros[i] \in Seq(R) /\ i \in 1 .. Len(Macros)
  BY MacroAssumption
<1>2. 1 \in DOMAIN Macros[i]
  BY <1>1, MacroAssumption
<1>3. Macros[i][k] \in R /\ Macros[i][1] \in R
  <2> HIDE DEF R
  <2> QED BY <1>1, <1>2
<1>4. Macros[i][k].block \in Block /\ Macros[i][1].block \in Block
  BY <1>3
<1>5. TypeOf[Macros[i][k].block] = TypeOf[Macros[i][1].block] /\ TypeOf[Macros[i][1].block] # IOType
  BY <1>2, MacroAssumption
<1>6. TypeOf[Macros[i][k].block] # EmptyType
  BY <1>4, NetlistAssumption
<1>7. i \in MacroOf(Macros[i][k].block)
  BY DEF MacroOf
<1>8. Macros[i][1].dy = 0
  BY MacroAssumption
<1> QED BY <1>1, <1>2, <1>3, <1>4, <1>5, <1>6, <1>7, <1>8 DEF InMacro, Offset, Pads

\* No block is in two macros, nor twice in one.
LEMMA MacroUnique ==
  ASSUME NEW i \in DOMAIN Macros, NEW k \in DOMAIN Macros[i],
         NEW m \in DOMAIN Macros, NEW j \in DOMAIN Macros[m],
         Macros[i][k].block = Macros[m][j].block
  PROVE  i = m /\ k = j
<1>1. i \in MacroOf(Macros[i][k].block) /\ m \in MacroOf(Macros[i][k].block) /\ Macros[i][k].block \in Block
  BY MacroFacts
<1>2. i = m
  BY <1>1, MacroAssumption
<1> QED BY <1>2, MacroAssumption

\* Restored, for any list of moves mv and any blocks blk.
Undone(mv, blk) ==
  [b \in Block |->
     IF \E i \in DOMAIN mv : mv[i].block = b
     THEN mv[CHOOSE i \in DOMAIN mv :
               mv[i].block = b /\ \A j \in DOMAIN mv : mv[j].block = b => j <= i].from
     ELSE blk[b]]

\* Undoing the moves of a swap puts every block that moved back where it came from, and
\* leaves the others.
LEMMA UndoneFacts ==
  ASSUME NEW mv \in Seq(MoveRec), NEW blk \in [Block -> Coord],
         \A i, j \in DOMAIN mv : mv[i].block = mv[j].block => i = j
  PROVE  /\ Undone(mv, blk) \in [Block -> Coord]
         /\ \A i \in DOMAIN mv : /\ mv[i].block \in Block /\ mv[i].from \in Loc /\ mv[i].to \in Loc
                                 /\ Undone(mv, blk)[mv[i].block] = mv[i].from
         /\ \A b \in Block : (\A i \in DOMAIN mv : mv[i].block # b) => Undone(mv, blk)[b] = blk[b]
<1>1. \A i \in DOMAIN mv : mv[i] \in MoveRec
  OBVIOUS
<1>2. \A i \in DOMAIN mv : mv[i].block \in Block /\ mv[i].from \in Coord /\ mv[i].from \in Loc /\ mv[i].to \in Loc
  BY <1>1, PlaceFacts DEF MoveRec
<1>3. DOMAIN mv \subseteq Int
  OBVIOUS
<1>4. ASSUME NEW i \in DOMAIN mv
      PROVE  Undone(mv, blk)[mv[i].block] = mv[i].from
  <2> DEFINE b == mv[i].block
             P(n) == n \in DOMAIN mv /\ mv[n].block = b /\ \A j \in DOMAIN mv : mv[j].block = b => j <= n
  <2>1. \A n \in DOMAIN mv : mv[n].block = b => n = i
    OBVIOUS
  <2>2. P(i)
    BY <2>1, <1>3
  <2>3. (CHOOSE n \in DOMAIN mv :
            mv[n].block = b /\ \A j \in DOMAIN mv : mv[j].block = b => j <= n) = i
    BY <2>1, <2>2
  <2> QED BY <2>3, <1>2 DEF Undone
<1>5. ASSUME NEW b \in Block, \A i \in DOMAIN mv : mv[i].block # b
      PROVE  Undone(mv, blk)[b] = blk[b]
  BY <1>5 DEF Undone
<1>6. Undone(mv, blk) = [b \in Block |-> Undone(mv, blk)[b]]
  BY DEF Undone
<1>7. \A b \in Block : Undone(mv, blk)[b] \in Coord
  <2> TAKE b \in Block
  <2>1. CASE \E i \in DOMAIN mv : mv[i].block = b
    BY <2>1, <1>2, <1>4
  <2>2. CASE \A i \in DOMAIN mv : mv[i].block # b
    BY <2>2, <1>5
  <2> QED BY <2>1, <2>2
<1> QED BY <1>2, <1>4, <1>5, <1>6, <1>7

\* Blocks that moved are where the list of moves says, the others where they were, and the
\* grid still has them all where they came from.
LEMMA MovedFacts ==
  ASSUME IInv, Swapping
  PROVE  /\ block \in [Block -> Coord] /\ Restored \in [Block -> Coord]
         /\ moves \in Seq(MoveRec) /\ DOMAIN moves \subseteq Nat
         /\ \A i, j \in DOMAIN moves : moves[i].block = moves[j].block => i = j
         /\ \A i \in DOMAIN moves : /\ moves[i].block \in Block /\ moves[i].block \notin fixed
                                    /\ moves[i].from \in Loc /\ moves[i].to \in Loc
                                    /\ block[moves[i].block] = moves[i].to
                                    /\ Restored[moves[i].block] = moves[i].from
                                    /\ grid[moves[i].from] = moves[i].block
         /\ \A b \in Block : ~IsMoved(b) => Restored[b] = block[b]
<1>1. /\ moves \in Seq(MoveRec) /\ block \in [Block -> Coord]
      /\ \A i, j \in DOMAIN moves : moves[i].block = moves[j].block => i = j
      /\ \A i \in DOMAIN moves : moves[i].block \notin fixed /\ block[moves[i].block] = moves[i].to
      /\ Seated(Restored)
  BY DEF IInv, TInv, MovesInv, SwapInv
<1>2. Restored = Undone(moves, block)
  BY DEF Restored, Undone
<1>3. /\ Undone(moves, block) \in [Block -> Coord]
      /\ \A i \in DOMAIN moves : /\ moves[i].block \in Block /\ moves[i].from \in Loc /\ moves[i].to \in Loc
                                 /\ Undone(moves, block)[moves[i].block] = moves[i].from
      /\ \A b \in Block : (\A i \in DOMAIN moves : moves[i].block # b) => Undone(moves, block)[b] = block[b]
  BY <1>1, UndoneFacts
<1>4. DOMAIN moves \subseteq Nat
  BY <1>1
<1>5. \A i \in DOMAIN moves : grid[moves[i].from] = moves[i].block
  BY <1>1, <1>2, <1>3 DEF Seated, Seat
<1> QED BY <1>1, <1>2, <1>3, <1>4, <1>5 DEF IsMoved

\* A place in the same column of the core has the same type.
LEMMA SameColumn ==
  ASSUME NEW l \in Loc, NEW n \in Coord, n[1] = l[1], n[3] = l[3], TileOf(n) \in Core,
         NEW type, TypeAt[TileOf(l)] = type, type \notin {IOType, EmptyType}
  PROVE  n \in LegalPos(type)
<1>1. TileOf(l) \in Tile /\ l[3] \in 0 .. Capacity[TypeAt[TileOf(l)]] - 1
  BY PlaceFacts
<1>2. TileOf(l) \in Core
  BY <1>1, GridAssumption
<1>3. TypeAt[TileOf(l)] = TypeAt[<< l[1], 1 >>] /\ TypeAt[TileOf(n)] = TypeAt[<< n[1], 1 >>]
  BY <1>2, GridAssumption DEF TileOf
<1>4. TileOf(n) \in Tile
  BY GridAssumption DEF Core, Tile
<1>5. n \in Loc
  BY <1>1, <1>3, <1>4, IsPlace
<1> QED BY <1>3, <1>5 DEF LegalPos

-----------------------------------------------------------------------------
(* The initial placement *)

\* The invariant holds at the start, and every step of the placer keeps it.
LEMMA InitInv == ASSUME Init PROVE IInv
<1> USE DEF Init
<1>1. TInv
  BY DEF TInv, Coord, Nowhere, Empty
<1>2. PlacingInv
  <2>1. \A b \in Block : b # Empty
    BY NetlistAssumption DEF Block, Empty
  <2> QED BY <2>1, PlaceFacts DEF PlacingInv
<1>3. MacrosInv
  BY MacroAssumption DEF MacrosInv
<1> QED BY <1>1, <1>2, <1>3
     DEF IInv, PadsInv, BlocksInv, RestInv, Resting, MovesInv, Swapping, SwapInv, TodoInv, CommitInv

\* A macro put on the grid.
LEMMA PlaceMacroStep == ASSUME IInv, PlaceMacro PROVE IInv'
<1> DEFINE i == count + 1
           M == DOMAIN Macros[i]
           blk(k) == Macros[i][k].block
<1>1. pc = "macros" /\ count < Len(Macros) /\ count \in Nat /\ i \in DOMAIN Macros /\ i > count
  BY MacroAssumption DEF IInv, TInv, PlaceMacro
<1>2. UNCHANGED << padFile, fixed, moves, todo, offset >>
  BY DEF PlaceMacro, swap
<1>3. /\ block \in [Block -> Coord] /\ grid \in [Loc -> Block \cup {Empty}]
      /\ fixed = {} /\ moves = << >> /\ pc' \in {"macros", "thrown"}
  BY <1>1 DEF IInv, TInv, PlacingInv, PlaceMacro
<1>4. CASE pc' = "thrown"
  <2>1. UNCHANGED << block, grid, count >>
    BY <1>4, <1>1 DEF PlaceMacro
  <2> QED BY <1>2, <1>3, <1>4, <2>1
       DEF IInv, TInv, PadsInv, PlacingInv, MacrosInv, BlocksInv, RestInv, Resting, MovesInv,
           Swapping, SwapInv, TodoInv, CommitInv
<1>5. CASE pc' # "thrown"
  <2> DEFINE heads == { l \in Loc : MacroFits(i, l) }
  <2>1. PICK head \in heads :
          LET at(k) == Plus(head, Offset(Macros[i][k]))
              here(l) == { k \in DOMAIN Macros[i] : at(k) = l }
          IN  /\ block' = [b \in Block |->
                   IF \E k \in DOMAIN Macros[i] : Macros[i][k].block = b
                   THEN at(CHOOSE k \in DOMAIN Macros[i] : Macros[i][k].block = b)
                   ELSE block[b]]
              /\ grid' = [l \in Loc |->
                   IF here(l) = {} THEN grid[l]
                   ELSE Macros[i][CHOOSE k \in here(l) : TRUE].block]
              /\ count' = i /\ pc' = pc
    BY <1>5 DEF PlaceMacro
  <2> DEFINE at(k) == Plus(head, Offset(Macros[i][k]))
             here(l) == { k \in DOMAIN Macros[i] : at(k) = l }
  <2>2. head \in Loc /\ head \in Coord /\ MacroFits(i, head)
    BY PlaceFacts
  <2>3. ASSUME NEW k \in M
        PROVE  /\ blk(k) \in Block /\ at(k) \in LegalPos(TypeOf[blk(k)]) /\ grid[at(k)] = Empty
               /\ at(k) \in Loc /\ at(k) \in Coord /\ at(k) # Nowhere
    <3>1. at(k) \in LegalPos(TypeOf[blk(k)]) /\ grid[at(k)] = Empty
      BY <2>2, <1>1, MacroFacts DEF MacroFits
    <3> QED BY <3>1, LegalFacts, PlaceFacts, MacroFacts, <1>1
  <2>4. ASSUME NEW j \in M, NEW k \in M, at(j) = at(k)
        PROVE  j = k
    <3>1. Offset(Macros[i][j]) = << 0, Macros[i][j].dy, 0 >> /\ Offset(Macros[i][k]) = << 0, Macros[i][k].dy, 0 >>
          /\ Macros[i][j].dy \in Int /\ Macros[i][k].dy \in Int
      BY <1>1, MacroFacts
    <3>2. Macros[i][j].dy = Macros[i][k].dy
      BY <3>1, <2>2, <2>4 DEF Plus, Coord
    <3> QED BY <3>2, <1>1, MacroAssumption
  <2>5. ASSUME NEW k \in M
        PROVE  block'[blk(k)] = at(k)
    <3>1. \A j \in M : blk(j) = blk(k) => j = k
      BY <1>1, MacroUnique
    <3>2. (CHOOSE j \in DOMAIN Macros[i] : Macros[i][j].block = blk(k)) = k
      BY <3>1
    <3> QED BY <3>2, <2>1, <2>3
  <2>6. ASSUME NEW b \in Block, \A k \in M : blk(k) # b
        PROVE  block'[b] = block[b]
    BY <2>1, <2>6
  <2>7. ASSUME NEW k \in M
        PROVE  grid'[at(k)] = blk(k)
    <3>1. here(at(k)) = {k}
      BY <2>4
    <3>2. (CHOOSE j \in here(at(k)) : TRUE) = k
      BY <3>1
    <3> QED BY <3>1, <3>2, <2>1, <2>3
  <2>8. ASSUME NEW l \in Loc, \A k \in M : at(k) # l
        PROVE  grid'[l] = grid[l]
    <3>1. here(l) = {}
      BY <2>8
    <3> QED BY <3>1, <2>1
  <2>9. \A k \in M : block[blk(k)] = Nowhere
    <3> TAKE k \in M
    <3>1. \A m \in MacroOf(blk(k)) : m > count
      BY <1>1, <2>3, MacroFacts, MacroAssumption
    <3> QED BY <3>1, <2>3, <1>1 DEF IInv, MacrosInv
  <2>10. DOMAIN block' = Block /\ DOMAIN grid' = Loc /\ count' = i /\ pc' = "macros"
    BY <2>1, <1>1
  <2> HIDE DEF at, here, heads, M, blk, i
  <2>11. TInv'
    <3>1. \A b \in Block : block'[b] \in Coord
      <4> TAKE b \in Block
      <4>1. CASE \E k \in M : blk(k) = b
        BY <4>1, <2>5, <2>3
      <4>2. CASE \A k \in M : blk(k) # b
        BY <4>2, <2>6, <1>3
      <4> QED BY <4>1, <4>2
    <3>2. \A l \in Loc : grid'[l] \in Block \cup {Empty}
      <4> TAKE l \in Loc
      <4>1. CASE \E k \in M : at(k) = l
        BY <4>1, <2>7, <2>3
      <4>2. CASE \A k \in M : at(k) # l
        BY <4>2, <2>8, <1>3
      <4> QED BY <4>1, <4>2
    <3>3. block' = [b \in Block |-> block'[b]] /\ grid' = [l \in Loc |-> grid'[l]]
      BY <2>1, <2>10
    <3>4. count' \in Nat
      BY <2>10, <1>1 DEF i
    <3>5. block' \in [Block -> Coord] /\ grid' \in [Loc -> Block \cup {Empty}]
      BY <3>1, <3>2, <3>3
    <3> QED BY <3>4, <3>5, <1>2 DEF IInv, TInv
  <2>12. PlacingInv'
    <3>1. ASSUME NEW b \in Block
          PROVE  /\ block'[b] = Nowhere \/ block'[b] \in LegalPos(TypeOf[b])
                 /\ \A l \in Loc : grid'[l] = b <=> block'[b] = l
      <4>0. /\ block[b] = Nowhere \/ block[b] \in LegalPos(TypeOf[b])
            /\ \A l \in Loc : grid[l] = b <=> block[b] = l
            /\ b # Empty
        BY <1>1, NetlistAssumption DEF IInv, PlacingInv, Block, Empty
      <4>1. CASE \E k \in M : blk(k) = b
        <5>1. PICK k \in M : blk(k) = b
          BY <4>1
        <5>2. block'[b] = at(k) /\ at(k) \in LegalPos(TypeOf[b])
          BY <5>1, <2>5, <2>3
        <5>3. ASSUME NEW l \in Loc
              PROVE  grid'[l] = b <=> at(k) = l
          <6>1. CASE \E j \in M : at(j) = l
            <7>1. PICK j \in M : at(j) = l
              BY <6>1
            <7>2. grid'[l] = blk(j)
              BY <7>1, <2>7
            <7>3. blk(j) = b <=> j = k
              BY <5>1, <1>1, MacroUnique DEF M, blk
            <7> QED BY <7>1, <7>2, <7>3, <2>4
          <6>2. CASE \A j \in M : at(j) # l
            <7>1. grid'[l] = grid[l] /\ block[b] = Nowhere
              BY <6>2, <2>8, <2>9, <5>1
            <7> QED BY <7>1, <4>0, <6>2, PlaceFacts
          <6> QED BY <6>1, <6>2
        <5> QED BY <5>2, <5>3
      <4>2. CASE \A k \in M : blk(k) # b
        <5>1. block'[b] = block[b]
          BY <4>2, <2>6
        <5>2. ASSUME NEW l \in Loc
              PROVE  grid'[l] = b <=> block[b] = l
          <6>1. CASE \E j \in M : at(j) = l
            BY <6>1, <2>7, <2>3, <4>2, <4>0
          <6>2. CASE \A j \in M : at(j) # l
            BY <6>2, <2>8, <4>0
          <6> QED BY <6>1, <6>2
        <5> QED BY <5>1, <5>2, <4>0
      <4> QED BY <4>1, <4>2
    <3>2. ASSUME NEW b \in Block, ByUser(b)
          PROVE  block'[b] = Nowhere
      <4>1. \A k \in M : blk(k) # b
        BY <3>2, <1>1, MacroFacts DEF ByUser, M, blk
      <4> QED BY <4>1, <2>6, <1>1, <3>2 DEF IInv, PlacingInv
    <3> QED BY <3>1, <3>2, <1>2, <1>3 DEF PlacingInv, ByUser
  <2>13. MacrosInv'
    <3>1. i <= Len(Macros)
      BY <1>1, MacroAssumption DEF i
    <3>2. ASSUME NEW m \in 1 .. i
          PROVE  /\ Whole(block, m)'
                 /\ \A k \in DOMAIN Macros[m] : block'[Macros[m][k].block] # Nowhere
      <4>0. m \in DOMAIN Macros
        BY <3>1, <1>1, MacroAssumption DEF i
      <4>1. CASE m = i
        <5>1. \A k \in DOMAIN Macros[i] : block'[Macros[i][k].block] = Plus(head, Offset(Macros[i][k]))
                                         /\ block'[Macros[i][k].block] # Nowhere
          BY <2>5, <2>3 DEF M, at, blk
        <5>2. ASSUME NEW k \in DOMAIN Macros[i]
              PROVE  block'[Macros[i][1].block] = head
          <6>1. 1 \in DOMAIN Macros[i] /\ Offset(Macros[i][1]) = << 0, 0, 0 >>
            BY <4>0, <4>1, MacroFacts
          <6>2. Plus(head, << 0, 0, 0 >>) = head
            BY <2>2 DEF Plus, Coord
          <6> QED BY <6>1, <6>2, <5>1
        <5> QED BY <5>1, <5>2, <4>1 DEF Whole
      <4>2. CASE m # i
        <5>1. m \in 1 .. count
          BY <4>2, <1>1 DEF i
        <5>2. ASSUME NEW k \in DOMAIN Macros[m]
              PROVE  block'[Macros[m][k].block] = block[Macros[m][k].block]
          <6>1. Macros[m][k].block \in Block
            BY <4>0, MacroFacts
          <6>2. \A j \in M : blk(j) # Macros[m][k].block
            BY <4>2, <4>0, <1>1, MacroUnique DEF M, blk
          <6> QED BY <6>1, <6>2, <2>6
        <5>3. \A k \in DOMAIN Macros[m] : 1 \in DOMAIN Macros[m]
          BY <4>0, MacroFacts
        <5> QED BY <5>1, <5>2, <5>3, <1>1 DEF IInv, MacrosInv, Whole
      <4> QED BY <4>1, <4>2
    <3>3. ASSUME NEW b \in Block, \A m \in MacroOf(b) : m > i
          PROVE  block'[b] = Nowhere
      <4>1. \A k \in M : blk(k) # b
        <5> SUFFICES ASSUME NEW k \in M, blk(k) = b PROVE FALSE
          OBVIOUS
        <5>1. i \in MacroOf(b)
          BY <1>1, MacroFacts DEF M, blk
        <5> QED BY <5>1, <3>3, <1>1 DEF i
      <4>2. \A m \in MacroOf(b) : m > count
        <5> TAKE m \in MacroOf(b)
        <5>1. m \in Int
          BY MacroAssumption DEF MacroOf
        <5> QED BY <5>1, <3>3, <1>1 DEF i
      <4> QED BY <4>1, <4>2, <2>6, <1>1 DEF IInv, MacrosInv
    <3> QED BY <3>1, <3>2, <3>3, <2>10 DEF MacrosInv
  <2>14. PadsInv' /\ BlocksInv' /\ RestInv' /\ MovesInv' /\ SwapInv' /\ TodoInv' /\ CommitInv'
    BY <1>2, <1>3, <2>10
       DEF PadsInv, BlocksInv, RestInv, Resting, MovesInv, Swapping, SwapInv, TodoInv, CommitInv
  <2> QED BY <2>11, <2>12, <2>13, <2>14 DEF IInv
<1> QED BY <1>4, <1>5

\* The end of the macros.
LEMMA MacrosPlacedStep == ASSUME IInv, MacrosPlaced PROVE IInv'
<1>1. /\ pc = "macros" /\ count = Len(Macros) /\ pc' = "blocks" /\ count' = 0
      /\ UNCHANGED << padFile, where, costs, trial, swap, frozen >>
  BY DEF MacrosPlaced
<1>2. \A i \in DOMAIN Macros : i \in 1 .. count
  BY <1>1, MacroAssumption
<1>3. Shape(block) /\ \A i \in DOMAIN Macros : \A k \in DOMAIN Macros[i] : block[Macros[i][k].block] # Nowhere
  BY <1>1, <1>2 DEF IInv, MacrosInv, Shape
<1>4. \A b \in Block : InMacro(b) => block[b] # Nowhere
  BY <1>3 DEF InMacro, MacroOf
<1>5. TInv' /\ PadsInv' /\ PlacingInv'
  BY <1>1 DEF IInv, TInv, PadsInv, PlacingInv, where, swap, ByUser
<1>6. BlocksInv'
  BY <1>1, <1>3, <1>4 DEF BlocksInv, Shape, Whole, where
<1> QED BY <1>1, <1>5, <1>6
     DEF IInv, MacrosInv, RestInv, Resting, MovesInv, Swapping, SwapInv, TodoInv, CommitInv

\* A block put on the grid.
LEMMA PlaceBlockStep == ASSUME IInv, PlaceBlock PROVE IInv'
<1>1. /\ pc = "blocks" /\ pc' \in {"blocks", "thrown"}
      /\ UNCHANGED << padFile, fixed, costs, trial, swap, frozen, count >>
  BY DEF PlaceBlock
<1>2. CASE pc' = "thrown"
  <2>1. UNCHANGED << block, grid >>
    BY <1>1, <1>2 DEF PlaceBlock
  <2> QED BY <1>1, <1>2, <2>1
       DEF IInv, TInv, PadsInv, PlacingInv, MacrosInv, BlocksInv, RestInv, Resting, MovesInv,
           Swapping, SwapInv, TodoInv, CommitInv, swap
<1>3. CASE pc' # "thrown"
  <2>1. PICK b \in Unplaced : \E l \in { m \in LegalPos(TypeOf[b]) : grid[m] = Empty } :
          block' = [block EXCEPT ![b] = l] /\ grid' = [grid EXCEPT ![l] = b] /\ pc' = pc
    BY <1>3 DEF PlaceBlock
  <2>2. b \in Block /\ block[b] = Nowhere /\ ~ByUser(b)
    BY <2>1 DEF Unplaced
  <2>3. PICK l \in { m \in LegalPos(TypeOf[b]) : grid[m] = Empty } :
          block' = [block EXCEPT ![b] = l] /\ grid' = [grid EXCEPT ![l] = b] /\ pc' = pc
    BY <2>1
  <2>4. l \in LegalPos(TypeOf[b]) /\ l \in Loc /\ l \in Coord /\ grid[l] = Empty
    BY LegalFacts
  <2>5. /\ block \in [Block -> Coord] /\ grid \in [Loc -> Block \cup {Empty}]
        /\ fixed = {} /\ moves = << >>
    BY <1>1 DEF IInv, TInv, PlacingInv
  <2>6. TInv'
    BY <1>1, <2>2, <2>3, <2>4, <2>5 DEF IInv, TInv, swap
  <2>7. PlacingInv'
    <3>1. ASSUME NEW c \in Block
          PROVE  /\ block'[c] = Nowhere \/ block'[c] \in LegalPos(TypeOf[c])
                 /\ \A m \in Loc : grid'[m] = c <=> block'[c] = m
      <4>1. /\ block[c] = Nowhere \/ block[c] \in LegalPos(TypeOf[c])
            /\ \A m \in Loc : grid[m] = c <=> block[c] = m
            /\ c # Empty /\ \A m \in Loc : m # Nowhere
        BY <1>1, NetlistAssumption, PlaceFacts DEF IInv, PlacingInv, Block, Empty
      <4> QED BY <4>1, <2>2, <2>3, <2>4, <2>5
    <3>2. \A c \in Block : ByUser(c) => block'[c] = Nowhere
      BY <1>1, <2>2, <2>3, <2>5 DEF IInv, PlacingInv
    <3> QED BY <3>1, <3>2, <1>1, <2>5 DEF PlacingInv, ByUser, swap
  <2>8. BlocksInv'
    <3>1. ~InMacro(b)
      BY <1>1, <2>2 DEF IInv, BlocksInv
    <3>2. \A i \in DOMAIN Macros : \A k \in DOMAIN Macros[i] :
            /\ 1 \in DOMAIN Macros[i]
            /\ block'[Macros[i][k].block] = block[Macros[i][k].block]
      BY <3>1, <2>3, <2>5, MacroFacts
    <3>3. Shape(block)'
      BY <3>2, <1>1 DEF IInv, BlocksInv, Shape, Whole
    <3>4. \A c \in Block : InMacro(c) => block'[c] # Nowhere
      BY <3>1, <2>3, <2>5, <1>1 DEF IInv, BlocksInv
    <3> QED BY <3>3, <3>4 DEF BlocksInv
  <2> QED BY <1>1, <2>3, <2>5, <2>6, <2>7, <2>8
       DEF IInv, PadsInv, MacrosInv, RestInv, Resting, MovesInv, Swapping, SwapInv, TodoInv, CommitInv, swap
<1> QED BY <1>2, <1>3

\* The pads of the user's file.
LEMMA ReadPadsStep == ASSUME IInv, ReadPads PROVE IInv'
<1>1. /\ pc = "blocks" /\ Unplaced = {} /\ pc' = "cost"
      /\ UNCHANGED << padFile, costs, trial, swap, frozen, count >>
  BY DEF ReadPads
<1>2. /\ block \in [Block -> Coord] /\ grid \in [Loc -> Block \cup {Empty}] /\ padFile \in PadFiles
      /\ fixed = {} /\ moves = << >> /\ Shape(block)
  BY <1>1 DEF IInv, TInv, PlacingInv, BlocksInv
<1>3. ASSUME NEW b \in Block
      PROVE  /\ \A l \in Loc : grid[l] = b <=> block[b] = l
             /\ ByUser(b) => block[b] = Nowhere
             /\ ~ByUser(b) => block[b] \in LegalPos(TypeOf[b])
             /\ b # Empty /\ \A m \in Loc : m # Nowhere
  BY <1>1, NetlistAssumption, PlaceFacts DEF IInv, PlacingInv, Unplaced, Block, Empty
<1>4. /\ TInv' /\ PadsInv' /\ RestInv'
  <2>1. CASE padFile = NoFile
    <3>1. UNCHANGED where
      BY <2>1 DEF ReadPads
    <3>2. Seated(block)'
      BY <1>1, <1>2, <1>3, <2>1, <3>1 DEF Seated, Seat, where, ByUser
    <3>3. Shape(block)'
      BY <1>2, <3>1 DEF Shape, Whole, where
    <3> QED BY <1>1, <1>2, <3>1, <3>2, <3>3 DEF IInv, TInv, PadsInv, RestInv, where, swap
  <2>2. CASE padFile # NoFile
    <3>1. /\ block' = [b \in Block |-> IF b \in Pads THEN [padFile[b] EXCEPT ![3] = -1] ELSE block[b]]
          /\ fixed' = Pads
          /\ grid' = [l \in Loc |-> IF \E b \in Pads : padFile[b] = l
                                    THEN CHOOSE b \in Pads : padFile[b] = l
                                    ELSE IF l \in LegalPos(IOType) THEN Empty ELSE grid[l]]
      BY <2>2 DEF ReadPads
    <3>2. /\ \A b \in Pads : padFile[b] \in LegalPos(IOType)
          /\ \A b, c \in Pads : padFile[b] = padFile[c] => b = c
      BY <2>2, <1>2, PadFileAssumption
    <3>3. \A b \in Pads : b \in Block /\ TypeOf[b] = IOType /\ padFile[b] \in Loc /\ padFile[b] \in Coord
      BY <3>2, LegalFacts DEF Pads
    <3>4. \A b \in Pads : [padFile[b] EXCEPT ![3] = -1] \in Coord
      BY <3>3 DEF Coord
    <3>5. \A b \in Pads : grid'[padFile[b]] = b
      BY <3>1, <3>2, <3>3
    <3>6. \A l \in Loc : (\A b \in Pads : padFile[b] # l) =>
            grid'[l] = IF l \in LegalPos(IOType) THEN Empty ELSE grid[l]
      BY <3>1
    <3>7. TInv'
      <4>1. block' \in [Block -> Coord]
        BY <3>1, <3>4, <1>2
      <4>2. \A l \in Loc : grid'[l] \in Block \cup {Empty}
        BY <3>3, <3>5, <3>6, <1>2
      <4>3. grid' \in [Loc -> Block \cup {Empty}]
        BY <4>2, <3>1
      <4> QED BY <4>1, <4>3, <1>1 DEF IInv, TInv, swap
    <3>8. PadsInv'
      BY <3>1, <3>3, <2>2, <1>1 DEF PadsInv
    <3>9. Seated(block)'
      <4>1. ASSUME NEW b \in Block
            PROVE  /\ Seat(block, b)' \in LegalPos(TypeOf[b])
                   /\ \A l \in Loc : grid'[l] = b <=> Seat(block, b)' = l
        <5>1. CASE b \in Pads
          <6>1. Seat(block, b)' = padFile[b] /\ block[b] = Nowhere
            BY <5>1, <3>1, <1>1, <1>3, <2>2 DEF Seat, ByUser
          <6>2. ASSUME NEW l \in Loc
                PROVE  grid'[l] = b <=> padFile[b] = l
            <7>1. CASE \E c \in Pads : padFile[c] = l
              BY <7>1, <5>1, <3>5, <3>2
            <7>2. CASE \A c \in Pads : padFile[c] # l
              BY <7>2, <5>1, <3>6, <6>1, <1>3
            <7> QED BY <7>1, <7>2
          <6> QED BY <6>1, <6>2, <5>1, <3>2, <3>3
        <5>2. CASE b \notin Pads
          <6>1. Seat(block, b)' = block[b] /\ block[b] \in LegalPos(TypeOf[b]) /\ TypeOf[b] # IOType
            BY <5>2, <3>1, <1>3 DEF Seat, ByUser, Pads
          <6>2. ASSUME NEW l \in Loc
                PROVE  grid'[l] = b <=> block[b] = l
            <7>1. l \in LegalPos(IOType) => block[b] # l
              BY <6>1 DEF LegalPos
            <7>2. CASE \E c \in Pads : padFile[c] = l
              BY <7>1, <7>2, <5>2, <3>5, <3>2
            <7>3. CASE \A c \in Pads : padFile[c] # l
              BY <7>1, <7>3, <3>6, <1>3
            <7> QED BY <7>2, <7>3
          <6> QED BY <6>1, <6>2
        <5> QED BY <5>1, <5>2
      <4> QED BY <4>1, <1>1 DEF Seated
    <3>10. Shape(block)'
      <4>1. \A i \in DOMAIN Macros : \A k \in DOMAIN Macros[i] :
              /\ 1 \in DOMAIN Macros[i]
              /\ block'[Macros[i][k].block] = block[Macros[i][k].block]
        BY <3>1, MacroFacts
      <4> QED BY <4>1, <1>2 DEF Shape, Whole
    <3> QED BY <3>7, <3>8, <3>9, <3>10, <1>1, <1>2 DEF RestInv, swap
  <2> QED BY <2>1, <2>2
<1> QED BY <1>1, <1>4
     DEF IInv, PlacingInv, MacrosInv, BlocksInv, MovesInv, Swapping, SwapInv, TodoInv, CommitInv

-----------------------------------------------------------------------------
(* A swap, up to the decision *)

\* A block and the place it is to go to.
LEMMA PickSwapStep == ASSUME IInv, PickSwap PROVE IInv'
<1>1. /\ pc = "idle" /\ pc' = "affect"
      /\ UNCHANGED << padFile, where, costs, trial, moves, frozen, count >>
  BY DEF PickSwap
<1>2. PICK b \in Block \ fixed, l \in Loc :
        /\ MayGo(b, l)
        /\ offset' = Minus(l, block[b])
        /\ todo' = IF InMacro(b) THEN Members(CHOOSE i \in MacroOf(b) : TRUE) ELSE << b >>
  BY DEF PickSwap, MayPick
<1>3. /\ block \in [Block -> Coord] /\ grid \in [Loc -> Block \cup {Empty}] /\ moves = << >>
      /\ Seated(block) /\ Shape(block)
  BY <1>1 DEF IInv, TInv, RestInv, Resting
<1>4. UNCHANGED << block, fixed, grid, moves, padFile, count >>
  BY <1>1 DEF where
<1>5. /\ l \in Coord /\ TypeAt[TileOf(l)] = TypeOf[b] /\ TileOf(l) # TileOf(block[b])
      /\ grid[l] \notin fixed /\ block[b] \in Coord /\ l \in LegalPos(TypeOf[b])
  BY <1>2, <1>3, PlaceFacts DEF MayGo, LegalPos
<1>6. offset' \in Coord /\ Plus(block[b], offset') = l
  BY <1>2, <1>5, PlusFacts
<1>7. Restored' = block
  BY <1>3, <1>4 DEF Restored
<1> DEFINE Todo(c) == \E k \in DOMAIN todo' : todo'[k] = c
<1>8. /\ todo' \in Seq(Block)
      /\ \A j, k \in DOMAIN todo' : todo'[j] = todo'[k] => j = k
      /\ \A i \in DOMAIN Macros : \A j, k \in DOMAIN Macros[i] :
           Todo(Macros[i][j].block) => Todo(Macros[i][k].block)
      /\ \A k \in DOMAIN todo' :
           LET c == todo'[k]
               n == Plus(block[c], offset')
           IN  /\ c \notin fixed
               /\ InMacro(c) => (TileOf(n) \in Core => n \in LegalPos(TypeOf[c]))
               /\ ~InMacro(c) => /\ n \in LegalPos(TypeOf[c]) /\ grid[n] \notin fixed
                                 /\ grid[n] # c /\ Len(todo') = 1
  <2>1. CASE ~InMacro(b)
    <3>1. todo' = << b >>
      BY <1>2, <2>1
    <3>2. \A i \in DOMAIN Macros : \A j \in DOMAIN Macros[i] : Macros[i][j].block # b
      BY <2>1, MacroFacts
    <3>3. grid[l] # b
      BY <1>2, <1>3, <1>5 DEF Seated, Seat
    <3> QED BY <3>1, <3>2, <3>3, <2>1, <1>2, <1>5, <1>6
  <2>2. CASE InMacro(b)
    <3> DEFINE i == CHOOSE i \in MacroOf(b) : TRUE
    <3>1. i \in MacroOf(b) /\ todo' = Members(i)
      BY <1>2, <2>2 DEF InMacro
    <3> HIDE DEF i
    <3>2. PICK kb \in DOMAIN Macros[i] : Macros[i][kb].block = b
      BY <3>1 DEF MacroOf
    <3>3. i \in DOMAIN Macros
      BY <3>1 DEF MacroOf
    <3>4. DOMAIN todo' = DOMAIN Macros[i] /\ \A k \in DOMAIN Macros[i] : todo'[k] = Macros[i][k].block
      BY <3>1 DEF Members
    <3>5. todo' \in Seq(Block)
      <4>1. Macros[i] \in Seq([block : Block, dx : {0}, dy : Int, dz : {0}])
        BY <3>3, MacroAssumption
      <4>2. DOMAIN Macros[i] = 1 .. Len(Macros[i]) /\ Len(Macros[i]) \in Nat
        BY <4>1
      <4>3. \A k \in 1 .. Len(Macros[i]) : Macros[i][k].block \in Block
        BY <4>2, <3>3, MacroFacts
      <4> QED BY <3>1, <4>2, <4>3 DEF Members
    <3>6. \A j, k \in DOMAIN todo' : todo'[j] = todo'[k] => j = k
      BY <3>3, <3>4, MacroUnique
    <3>7. ASSUME NEW m \in DOMAIN Macros, NEW j \in DOMAIN Macros[m], NEW k \in DOMAIN Macros[m],
                 Todo(Macros[m][j].block)
          PROVE  Todo(Macros[m][k].block)
      <4>1. m = i
        BY <3>3, <3>4, <3>7, MacroUnique
      <4> QED BY <4>1, <3>4
    <3>8. ASSUME NEW k \in DOMAIN todo'
          PROVE  /\ todo'[k] \notin fixed /\ InMacro(todo'[k])
                 /\ TileOf(Plus(block[todo'[k]], offset')) \in Core
                      => Plus(block[todo'[k]], offset') \in LegalPos(TypeOf[todo'[k]])
      <4> DEFINE c == todo'[k]
                 n == Plus(block[c], offset')
                 h == block[Macros[i][1].block]
      <4>1. /\ c = Macros[i][k].block /\ c \in Block /\ InMacro(c) /\ c \notin Pads
            /\ TypeOf[c] \notin {IOType, EmptyType} /\ TypeOf[c] = TypeOf[b]
            /\ Offset(Macros[i][k]) = << 0, Macros[i][k].dy, 0 >> /\ Macros[i][k].dy \in Int
            /\ Offset(Macros[i][kb]) = << 0, Macros[i][kb].dy, 0 >> /\ Macros[i][kb].dy \in Int
            /\ Macros[i][1].block \in Block
        BY <3>2, <3>3, <3>4, MacroFacts
      <4>2. c \notin fixed
        BY <4>1 DEF IInv, PadsInv
      <4>3. block[c] = Plus(h, Offset(Macros[i][k])) /\ block[b] = Plus(h, Offset(Macros[i][kb]))
        BY <4>1, <3>2, <3>3, <3>4, <1>3 DEF Shape, Whole
      <4>4. h \in Coord /\ block[c] \in Coord /\ n \in Coord
        BY <4>1, <1>3, <1>6, PlusFacts
      <4>5. n[1] = l[1] /\ n[3] = l[3]
        <5>1. offset' = << l[1] - block[b][1], l[2] - block[b][2], l[3] - block[b][3] >>
          BY <1>2 DEF Minus
        <5>2. block[b][1] = h[1] /\ block[b][3] = h[3] /\ block[c][1] = h[1] /\ block[c][3] = h[3]
          <6>1. PICK d, e : /\ Offset(Macros[i][k]) = << 0, d, 0 >>
                            /\ Offset(Macros[i][kb]) = << 0, e, 0 >>
            BY <4>1
          <6>2. /\ block[c] = << h[1] + 0, h[2] + d, h[3] + 0 >>
                /\ block[b] = << h[1] + 0, h[2] + e, h[3] + 0 >>
            BY <6>1, <4>3 DEF Plus
          <6>3. h[1] \in Int /\ h[3] \in Int
            BY <4>4 DEF Coord
          <6> HIDE DEF h
          <6> QED BY <6>2, <6>3
        <5>3. n[1] = block[c][1] + offset'[1] /\ n[3] = block[c][3] + offset'[3]
          BY DEF Plus
        <5>4. h[1] \in Int /\ h[3] \in Int /\ l[1] \in Int /\ l[3] \in Int
          BY <4>4, <1>5 DEF Coord
        <5> QED BY <5>1, <5>2, <5>3, <5>4
      <4>6. TileOf(n) \in Core => n \in LegalPos(TypeOf[c])
        BY <4>1, <4>4, <4>5, <1>5, SameColumn
      <4> QED BY <4>1, <4>2, <4>6
    <3> QED BY <3>5, <3>6, <3>7, <3>8
  <2> QED BY <2>1, <2>2
<1>9. TInv' /\ PadsInv'
  BY <1>3, <1>4, <1>6, <1>8 DEF IInv, TInv, PadsInv
<1>10. MovesInv'
  BY <1>3, <1>4 DEF MovesInv
<1>11. SwapInv'
  <2>1. Seated(Restored)' /\ Shape(Restored)'
    BY <1>3, <1>4, <1>7 DEF Seated, Seat, Shape, Whole
  <2>2. \A i \in DOMAIN Macros : \A j, k \in DOMAIN Macros[i] :
          IsMoved(Macros[i][j].block)' \/ IsTodo(Macros[i][j].block)'
            => IsMoved(Macros[i][k].block)' \/ IsTodo(Macros[i][k].block)'
    BY <1>3, <1>4, <1>8 DEF IsMoved, IsTodo
  <2> QED BY <2>1, <2>2, <1>1, <1>3, <1>4 DEF SwapInv
<1>12. TodoInv'
  BY <1>3, <1>4, <1>8 DEF TodoInv, IsMoved
<1> QED BY <1>1, <1>9, <1>10, <1>11, <1>12
     DEF IInv, PlacingInv, MacrosInv, BlocksInv, RestInv, Resting, CommitInv

\* The block that has to move, its target and who is there.
LEMMA NextMove ==
  ASSUME IInv, SetupBlocksAffected
  PROVE  LET b == Head(todo)
             P == grid[Target]
         IN  /\ b \in Block /\ b \notin fixed /\ ~IsMoved(b) /\ b = todo[1]
             /\ Target \in LegalPos(TypeOf[b]) /\ Target \in Loc /\ Target = Plus(block[b], offset)
             /\ Restored[b] = block[b] /\ grid[block[b]] = b /\ block[b] \in LegalPos(TypeOf[b])
             /\ P \in Block \cup {Empty}
             /\ P # Empty => /\ ~InMacro(P) /\ P \notin fixed /\ P # b /\ ~IsMoved(P) /\ ~IsTodo(P)
                             /\ Restored[P] = Target /\ block[P] = Target /\ TypeOf[P] = TypeOf[b]
<1> DEFINE b == Head(todo)
           P == grid[Target]
<1>1. /\ pc = "affect" /\ todo # << >> /\ ~Hopeless
  BY DEF SetupBlocksAffected
<1>2. /\ moves \in Seq(MoveRec) /\ block \in [Block -> Coord] /\ todo \in Seq(Block)
      /\ grid \in [Loc -> Block \cup {Empty}] /\ offset \in Coord
      /\ \A i, j \in DOMAIN moves : moves[i].block = moves[j].block => i = j
      /\ Seated(Restored)
  BY <1>1 DEF IInv, TInv, MovesInv, Swapping, SwapInv
<1>3. 1 \in DOMAIN todo /\ b = todo[1] /\ b \in Block
  BY <1>1, <1>2
<1>4. /\ b \notin fixed /\ ~IsMoved(b)
      /\ InMacro(b) => (TileOf(Target) \in Core => Target \in LegalPos(TypeOf[b]))
      /\ ~InMacro(b) => /\ Target \in LegalPos(TypeOf[b]) /\ P \notin fixed
                        /\ P # b /\ moves = << >> /\ Len(todo) = 1
  BY <1>1, <1>3 DEF IInv, TodoInv, Target
<1>5. InMacro(b) => TileOf(Target) \in Core
  BY <1>1 DEF Hopeless, OffChip
<1>6. Target \in LegalPos(TypeOf[b]) /\ Target \in Loc /\ P \in Block \cup {Empty}
      /\ TypeAt[TileOf(Target)] = TypeOf[b]
  BY <1>2, <1>4, <1>5, LegalFacts
<1>7. /\ Restored \in [Block -> Coord]
      /\ \A i \in DOMAIN moves : /\ moves[i].block \in Block /\ moves[i].from \in Loc /\ moves[i].to \in Loc
                                 /\ Restored[moves[i].block] = moves[i].from
      /\ \A c \in Block : ~IsMoved(c) => Restored[c] = block[c]
  BY <1>1, MovedFacts DEF Swapping
<1>8. \A i \in DOMAIN moves : /\ moves[i].block \notin fixed /\ grid[moves[i].from] = moves[i].block
  BY <1>1, MovedFacts DEF Swapping
<1>9. Restored[b] = block[b] /\ grid[block[b]] = b /\ block[b] \in LegalPos(TypeOf[b])
  BY <1>2, <1>3, <1>4, <1>7, LegalFacts DEF Seated, Seat
<1>10. ASSUME P # Empty
       PROVE  /\ ~InMacro(P) /\ P \notin fixed /\ P # b /\ ~IsMoved(P) /\ ~IsTodo(P)
              /\ Restored[P] = Target /\ block[P] = Target /\ TypeOf[P] = TypeOf[b]
  <2>1. P \in Block /\ ~InMacro(P)
    BY <1>1, <1>6, <1>10 DEF Hopeless, InTheWay
  <2>2. P # b
    BY <2>1, <1>4
  <2>3. Seat(Restored, P) = Target /\ TypeOf[P] = TypeOf[b]
    BY <2>1, <1>2, <1>6, LegalFacts DEF Seated
  <2>4. P \notin fixed
    <3>1. CASE ~InMacro(b)
      BY <3>1, <1>4
    <3>2. CASE InMacro(b)
      <4>1. TypeOf[b] # IOType
        BY <3>2, MacroFacts DEF InMacro, MacroOf
      <4> QED BY <4>1, <2>3 DEF IInv, PadsInv, Pads
    <3> QED BY <3>1, <3>2
  <2>5. Restored[P] = Target
    BY <2>3, <2>4 DEF Seat
  <2>6. ~IsMoved(P)
    <3> SUFFICES ASSUME NEW i \in DOMAIN moves, moves[i].block = P PROVE FALSE
      BY DEF IsMoved
    <3>1. InMacro(b)
      BY <1>4
    <3>2. PICK j \in DOMAIN moves : InMacro(moves[j].block) /\ moves[i].to = moves[j].from
      BY <2>1, <1>1 DEF IInv, TodoInv
    <3>3. moves[i].from = Target
      BY <2>5, <1>7
    <3>4. grid[moves[i].to] = moves[j].block /\ moves[j].block # Empty
      BY <3>2, <1>8, <1>7, NetlistAssumption DEF Block, Empty
    <3>5. ~moves[i].alone
      BY <3>4, <1>1 DEF IInv, SwapInv, Swapping
    <3>6. PICK k \in DOMAIN moves : moves[k].from = moves[i].to /\ moves[k].to = moves[i].from
      BY <3>5, <1>1 DEF IInv, MovesInv, Swapping
    <3>7. k = j
      BY <3>2, <3>6, <1>2, <1>8
    <3>8. moves[j].to = Plus(moves[j].from, offset)
      BY <3>2, <1>1 DEF IInv, SwapInv, Swapping
    <3>9. Plus(moves[j].from, offset) = Plus(block[b], offset)
      BY <3>3, <3>6, <3>7, <3>8 DEF Target
    <3>10. moves[j].from \in Coord /\ block[b] \in Coord
      BY <1>2, <1>3, <1>7, PlaceFacts
    <3>11. moves[j].from = block[b]
      BY <3>9, <3>10, <1>2, PlusFacts
    <3>12. moves[j].block = b
      BY <3>11, <1>8, <1>9
    <3> QED BY <3>12, <1>4 DEF IsMoved
  <2>7. ~IsTodo(P)
    <3> SUFFICES ASSUME NEW k \in DOMAIN todo, todo[k] = P PROVE FALSE
      BY DEF IsTodo
    <3>1. Len(todo) = 1
      BY <2>1, <1>1 DEF IInv, TodoInv
    <3>2. k = 1
      BY <3>1, <1>2
    <3> QED BY <3>2, <1>3, <2>2
  <2> QED BY <2>1, <2>2, <2>3, <2>4, <2>5, <2>6, <2>7, <1>7
<1> QED BY <1>3, <1>4, <1>6, <1>9, <1>10 DEF Target

\* Nothing that was moved before goes where this move goes, or where it starts.
LEMMA NewPlaces ==
  ASSUME IInv, SetupBlocksAffected, NEW i \in DOMAIN moves
  PROVE  moves[i].to # Target /\ moves[i].to # block[Head(todo)]
<1> DEFINE b == Head(todo)
<1>1. pc = "affect" /\ todo # << >>
  BY DEF SetupBlocksAffected
<1>2. /\ moves \in Seq(MoveRec) /\ block \in [Block -> Coord] /\ offset \in Coord
      /\ \A m, n \in DOMAIN moves : moves[m].block = moves[n].block => m = n
      /\ Seated(Restored)
  BY <1>1 DEF IInv, TInv, MovesInv, Swapping, SwapInv
<1>3. \A j \in DOMAIN moves : /\ moves[j].block \in Block /\ moves[j].from \in Loc /\ moves[j].from \in Coord
                             /\ Restored[moves[j].block] = moves[j].from
  BY <1>1, MovedFacts, PlaceFacts DEF Swapping
<1>4. \A j \in DOMAIN moves : grid[moves[j].from] = moves[j].block
  BY <1>1, MovedFacts DEF Swapping
<1>5. /\ b \in Block /\ ~IsMoved(b) /\ Target = Plus(block[b], offset) /\ block[b] \in Coord
      /\ grid[block[b]] = b /\ (grid[Target] # Empty => ~InMacro(grid[Target])) /\ b = todo[1] /\ b # Empty
  BY <1>2, NextMove, NetlistAssumption DEF Block, Empty
<1>6. moves[i].to # Target
  <2>1. \/ InMacro(moves[i].block)
        \/ \E j \in DOMAIN moves : InMacro(moves[j].block) /\ moves[i].to = moves[j].from
    BY <1>1 DEF IInv, TodoInv
  <2>2. CASE InMacro(moves[i].block)
    <3>1. moves[i].to = Plus(moves[i].from, offset)
      BY <2>2, <1>1 DEF IInv, SwapInv, Swapping
    <3> SUFFICES ASSUME moves[i].to = Target PROVE FALSE
      OBVIOUS
    <3>2. Plus(moves[i].from, offset) = Plus(block[b], offset)
      BY <3>1, <1>5
    <3>3. moves[i].from \in Coord /\ block[b] \in Coord /\ offset \in Coord
      BY <1>2, <1>3, <1>5
    <3>4. moves[i].from = block[b]
      BY <3>2, <3>3, PlusFacts
    <3> QED BY <3>4, <1>4, <1>5 DEF IsMoved
  <2>3. CASE \E j \in DOMAIN moves : InMacro(moves[j].block) /\ moves[i].to = moves[j].from
    <3>1. PICK j \in DOMAIN moves : InMacro(moves[j].block) /\ moves[i].to = moves[j].from
      BY <2>3
    <3>2. grid[moves[i].to] = moves[j].block /\ moves[j].block # Empty
      BY <3>1, <1>3, <1>4, NetlistAssumption DEF Block, Empty
    <3> QED BY <3>1, <3>2, <1>5
  <2> QED BY <2>1, <2>2, <2>3
<1>7. moves[i].to # block[b]
  <2>1. CASE moves[i].alone
    BY <2>1, <1>1, <1>5 DEF IInv, SwapInv, Swapping
  <2>2. CASE ~moves[i].alone
    <3>1. PICK j \in DOMAIN moves : moves[j].from = moves[i].to
      BY <2>2, <1>1 DEF IInv, MovesInv, Swapping
    <3> QED BY <3>1, <1>4, <1>5 DEF IsMoved
  <2> QED BY <2>1, <2>2
<1> QED BY <1>6, <1>7

\* What setup_blocks_affected does: one more move, or a swap of two blocks.
LEMMA SetupFacts ==
  ASSUME IInv, SetupBlocksAffected
  PROVE  LET b == Head(todo)
             P == grid[Target]
             n == Len(moves)
         IN  /\ n \in Nat /\ DOMAIN moves = 1 .. n /\ DOMAIN moves \subseteq DOMAIN moves'
             /\ moves' \in Seq(MoveRec)
             /\ n + 1 \in DOMAIN moves'
             /\ moves'[n + 1].block = b /\ moves'[n + 1].from = block[b] /\ moves'[n + 1].to = Target
             /\ moves'[n + 1].alone <=> P = Empty
             /\ P # Empty => /\ n + 2 \in DOMAIN moves'
                             /\ moves'[n + 2].block = P /\ moves'[n + 2].from = Target
                             /\ moves'[n + 2].to = block[b] /\ ~moves'[n + 2].alone
             /\ \A i \in DOMAIN moves : moves'[i] = moves[i]
             /\ \A i \in DOMAIN moves' :
                  \/ i \in DOMAIN moves
                  \/ i = n + 1
                  \/ P # Empty /\ i = n + 2
             /\ block' \in [Block -> Coord]
             /\ block'[b] = Target
             /\ P # Empty => block'[P] = block[b]
             /\ \A c \in Block : c # b /\ c # P => block'[c] = block[c]
<1> DEFINE b == Head(todo)
           P == grid[Target]
           n == Len(moves)
           A == [block |-> b, from |-> block[b], to |-> Target, alone |-> P = Empty]
           B == [block |-> P, from |-> Target, to |-> block[b], alone |-> FALSE]
<1>1. moves \in Seq(MoveRec) /\ block \in [Block -> Coord]
  BY DEF IInv, TInv
<1>2. /\ b \in Block /\ Target \in Loc /\ Target \in Coord /\ block[b] \in Loc /\ block[b] \in Coord
      /\ P \in Block \cup {Empty} /\ P # b
  <2>1. b \in Block /\ b # Empty
    BY NextMove, NetlistAssumption DEF Block, Empty
  <2> QED BY <2>1, NextMove, LegalFacts, PlaceFacts
<1>3. A \in MoveRec /\ (P # Empty => B \in MoveRec)
  BY <1>2 DEF MoveRec
<1>4. n \in Nat /\ DOMAIN moves = 1 .. n
  BY <1>1
<1>a. /\ A.block = b /\ A.from = block[b] /\ A.to = Target /\ (A.alone <=> P = Empty)
      /\ B.block = P /\ B.from = Target /\ B.to = block[b] /\ ~B.alone
  OBVIOUS
<1>5. CASE P = Empty
  <2>1. moves' = Append(moves, A) /\ block' = [block EXCEPT ![b] = Target]
    BY <1>5 DEF SetupBlocksAffected, Move
  <2> HIDE DEF A, B, b, P
  <2>2. moves' \in Seq(MoveRec) /\ DOMAIN moves' = 1 .. n + 1 /\ moves'[n + 1] = A
    BY <1>1, <1>3, <2>1
  <2>3. \A i \in DOMAIN moves : moves'[i] = moves[i]
    BY <1>1, <2>1
  <2>4. /\ block' \in [Block -> Coord] /\ block'[b] = Target
        /\ \A c \in Block : c # b /\ c # P => block'[c] = block[c]
    BY <1>1, <1>2, <2>1
  <2>5. /\ DOMAIN moves \subseteq DOMAIN moves' /\ n + 1 \in DOMAIN moves'
        /\ \A i \in DOMAIN moves' : i \in DOMAIN moves \/ i = n + 1
    BY <1>4, <2>2
  <2> QED BY <1>4, <1>5, <1>a, <2>2, <2>3, <2>4, <2>5 DEF b, P
<1>6. CASE P # Empty
  <2>1. /\ moves' = moves \o << A, B >>
        /\ block' = [block EXCEPT ![P] = block[b], ![b] = Target]
    BY <1>6 DEF SetupBlocksAffected, Move
  <2> HIDE DEF A, B, b, P
  <2>2. /\ << A, B >> \in Seq(MoveRec) /\ Len(<< A, B >>) = 2
        /\ << A, B >>[1] = A /\ << A, B >>[2] = B
    BY <1>3, <1>6
  <2>3. moves' \in Seq(MoveRec) /\ DOMAIN moves' = 1 .. n + 2
    BY <1>1, <2>1, <2>2
  <2>4. \A i \in DOMAIN moves : moves'[i] = moves[i]
    BY <1>1, <2>1, <2>2
  <2>5. moves'[n + 1] = A /\ moves'[n + 2] = B
    BY <1>1, <1>4, <2>1, <2>2
  <2>6. /\ block' \in [Block -> Coord] /\ block'[b] = Target /\ block'[P] = block[b]
        /\ \A c \in Block : c # b /\ c # P => block'[c] = block[c]
    BY <1>1, <1>2, <1>6, <2>1
  <2>7. /\ DOMAIN moves \subseteq DOMAIN moves' /\ n + 1 \in DOMAIN moves' /\ n + 2 \in DOMAIN moves'
        /\ \A i \in DOMAIN moves' : i \in DOMAIN moves \/ i = n + 1 \/ i = n + 2
    BY <1>4, <2>3
  <2> QED BY <1>4, <1>6, <1>a, <2>3, <2>4, <2>5, <2>6, <2>7 DEF b, P
<1> QED BY <1>5, <1>6

\* The blocks a swap affects, moved one after the other.
LEMMA SetupStep == ASSUME IInv, SetupBlocksAffected PROVE IInv' /\ Restored' = Restored
<1> DEFINE b == Head(todo)
           P == grid[Target]
           T == Target
           n == Len(moves)
<1>0. \A c \in Block : c # Empty
  BY NetlistAssumption DEF Block, Empty
<1>1. /\ pc = "affect" /\ pc' = "affect" /\ todo # << >> /\ todo' = Tail(todo)
      /\ UNCHANGED << padFile, fixed, grid, offset, count >>
  BY DEF SetupBlocksAffected
<1>2. /\ moves \in Seq(MoveRec) /\ block \in [Block -> Coord] /\ todo \in Seq(Block)
      /\ \A i, j \in DOMAIN moves : moves[i].block = moves[j].block => i = j
      /\ \A i, j \in DOMAIN moves : moves[i].to = moves[j].to => i = j
  BY <1>1 DEF IInv, TInv, MovesInv, Swapping
<1>3. /\ b \in Block /\ b # Empty /\ b \notin fixed /\ ~IsMoved(b) /\ b = todo[1]
      /\ T \in LegalPos(TypeOf[b]) /\ T = Plus(block[b], offset)
      /\ Restored[b] = block[b] /\ grid[block[b]] = b /\ block[b] \in LegalPos(TypeOf[b])
      /\ P \in Block \cup {Empty} /\ P # b /\ P = grid[T] /\ T # block[b]
      /\ P # Empty => /\ P \in Block /\ ~InMacro(P) /\ P \notin fixed /\ ~IsMoved(P) /\ ~IsTodo(P)
                      /\ Restored[P] = T /\ block[P] = T /\ TypeOf[P] = TypeOf[b]
  <2>1. b \in Block /\ b # Empty
    BY NextMove, NetlistAssumption DEF Block, Empty
  <2> QED BY <2>1, NextMove
<1>4. /\ n \in Nat /\ DOMAIN moves = 1 .. n /\ DOMAIN moves \subseteq DOMAIN moves'
      /\ moves' \in Seq(MoveRec) /\ block' \in [Block -> Coord]
      /\ n + 1 \in DOMAIN moves' /\ n + 1 \notin DOMAIN moves /\ n + 2 \notin DOMAIN moves
      /\ moves'[n + 1].block = b /\ moves'[n + 1].from = block[b] /\ moves'[n + 1].to = T
      /\ moves'[n + 1].alone <=> P = Empty
      /\ P # Empty => /\ n + 2 \in DOMAIN moves'
                      /\ moves'[n + 2].block = P /\ moves'[n + 2].from = T /\ moves'[n + 2].to = block[b]
                      /\ ~moves'[n + 2].alone
      /\ \A i \in DOMAIN moves : moves'[i] = moves[i]
      /\ \A i \in DOMAIN moves' : \/ i \in DOMAIN moves
                                  \/ i = n + 1
                                  \/ P # Empty /\ i = n + 2
      /\ block'[b] = T
      /\ P # Empty => block'[P] = block[b]
      /\ \A c \in Block : c # b /\ c # P => block'[c] = block[c]
  <2>1. n \in Nat => n + 1 \notin 1 .. n /\ n + 2 \notin 1 .. n
    <3> HIDE DEF n
    <3> QED OBVIOUS
  <2> QED BY <2>1, SetupFacts
<1> HIDE DEF b, P, T, n
<1>5. \A i \in DOMAIN moves : /\ moves[i].to # T /\ moves[i].to # block[b]
                             /\ moves[i].block # b /\ (P # Empty => moves[i].block # P)
                             /\ moves[i].block \in Block
  <2>1. \A i \in DOMAIN moves : moves[i] \in MoveRec
    BY <1>2
  <2> QED BY <2>1, <1>3, NewPlaces DEF IsMoved, MoveRec, b, T
<1>6. \A c \in Block : IsMoved(c)' <=> IsMoved(c) \/ c = b \/ (P # Empty /\ c = P)
  BY <1>4 DEF IsMoved
<1>7. \A i, j \in DOMAIN moves' : moves'[i].block = moves'[j].block => i = j
  BY <1>2, <1>3, <1>4, <1>5
<1>8. \A i, j \in DOMAIN moves' : moves'[i].to = moves'[j].to => i = j
  BY <1>2, <1>3, <1>4, <1>5
<1>9. Restored' = Restored
  <2>1. Restored = Undone(moves, block) /\ Restored' = Undone(moves', block')
    BY DEF Restored, Undone
  <2> DEFINE R == Undone(moves, block)
             S == Undone(moves', block')
  <2>a. /\ R \in [Block -> Coord]
        /\ \A i \in DOMAIN moves : R[moves[i].block] = moves[i].from
        /\ \A c \in Block : (\A i \in DOMAIN moves : moves[i].block # c) => R[c] = block[c]
    <3>1. moves \in Seq(MoveRec) /\ block \in [Block -> Coord]
      BY <1>2
    <3>2. \A i, j \in DOMAIN moves : moves[i].block = moves[j].block => i = j
      BY <1>2
    <3> QED BY <3>1, <3>2, UndoneFacts
  <2>b. /\ S \in [Block -> Coord]
        /\ \A i \in DOMAIN moves' : S[moves'[i].block] = moves'[i].from
        /\ \A c \in Block : (\A i \in DOMAIN moves' : moves'[i].block # c) => S[c] = block'[c]
    <3>1. moves' \in Seq(MoveRec) /\ block' \in [Block -> Coord]
      BY <1>4
    <3> QED BY <3>1, <1>7, UndoneFacts
  <2> HIDE DEF R, S
  <2>2. /\ Restored \in [Block -> Coord]
        /\ \A i \in DOMAIN moves : Restored[moves[i].block] = moves[i].from
        /\ \A c \in Block : ~IsMoved(c) => Restored[c] = block[c]
    BY <2>1, <2>a DEF IsMoved, R
  <2>3. /\ Restored' \in [Block -> Coord]
        /\ \A i \in DOMAIN moves' : Restored'[moves'[i].block] = moves'[i].from
        /\ \A c \in Block : ~(IsMoved(c)') => Restored'[c] = block'[c]
    BY <2>1, <2>b DEF IsMoved, S
  <2>4. ASSUME NEW c \in Block
        PROVE  Restored'[c] = Restored[c]
    <3>1. CASE IsMoved(c)
      BY <3>1, <2>2, <2>3, <1>4 DEF IsMoved
    <3>2. CASE c = b
      BY <3>2, <2>3, <1>3, <1>4
    <3>3. CASE P # Empty /\ c = P
      BY <3>3, <2>3, <1>3, <1>4
    <3>4. CASE ~IsMoved(c) /\ c # b /\ ~(P # Empty /\ c = P)
      <4>1. c # P
        BY <3>4, <1>0
      <4>2. ~(IsMoved(c)') /\ block'[c] = block[c]
        BY <4>1, <3>4, <1>4, <1>6
      <4> QED BY <4>2, <3>4, <2>2, <2>3
    <3> QED BY <3>1, <3>2, <3>3, <3>4
  <2> QED BY <2>2, <2>3, <2>4
<1>10. TInv'
  <2>1. todo' \in Seq(Block)
    BY <1>1, <1>2
  <2> QED BY <2>1, <1>1, <1>4 DEF IInv, TInv
<1>11. PadsInv'
  <2> SUFFICES ASSUME fixed # {}
               PROVE  /\ fixed = Pads /\ padFile # NoFile
                      /\ \A c \in fixed : block'[c] = [padFile[c] EXCEPT ![3] = -1]
    BY <1>1 DEF PadsInv
  <2>1. /\ fixed = Pads /\ padFile # NoFile
        /\ \A c \in fixed : block[c] = [padFile[c] EXCEPT ![3] = -1]
    BY DEF IInv, PadsInv
  <2>2. \A c \in fixed : c \in Block /\ c # b /\ c # P
    BY <2>1, <1>0, <1>3 DEF Pads
  <2> QED BY <2>1, <2>2, <1>4
<1>12. MovesInv'
  <2>1. ASSUME NEW i \in DOMAIN moves'
        PROVE  /\ moves'[i].block \notin fixed
               /\ block'[moves'[i].block] = moves'[i].to
               /\ moves'[i].to \in LegalPos(TypeOf[moves'[i].block])
               /\ ~moves'[i].alone =>
                    \E j \in DOMAIN moves' : moves'[j].from = moves'[i].to /\ moves'[j].to = moves'[i].from
    <3>1. CASE i \in DOMAIN moves
      <4>1. /\ moves[i].block \notin fixed /\ block[moves[i].block] = moves[i].to
            /\ moves[i].to \in LegalPos(TypeOf[moves[i].block])
            /\ ~moves[i].alone =>
                 \E j \in DOMAIN moves : moves[j].from = moves[i].to /\ moves[j].to = moves[i].from
        BY <3>1, <1>1 DEF IInv, MovesInv, Swapping
      <4>2. block'[moves[i].block] = block[moves[i].block]
        <5>1. moves[i].block \in Block /\ moves[i].block # b /\ moves[i].block # P
          BY <3>1, <1>0, <1>5
        <5> QED BY <5>1, <1>4
      <4>3. moves'[i] = moves[i]
        BY <3>1, <1>4
      <4>4. CASE moves[i].alone
        BY <4>1, <4>2, <4>3, <4>4
      <4>5. CASE ~moves[i].alone
        <5>1. PICK j \in DOMAIN moves : moves[j].from = moves[i].to /\ moves[j].to = moves[i].from
          BY <4>1, <4>5
        <5>2. j \in DOMAIN moves' /\ moves'[j] = moves[j]
          BY <1>4
        <5> QED BY <4>1, <4>2, <4>3, <5>1, <5>2
      <4> QED BY <4>4, <4>5
    <3>2. CASE i = n + 1
      BY <3>2, <1>3, <1>4
    <3>3. CASE P # Empty /\ i = n + 2
      BY <3>3, <1>3, <1>4
    <3> QED BY <3>1, <3>2, <3>3, <1>4
  <2> QED BY <2>1, <1>1, <1>7, <1>8 DEF MovesInv
<1>13. SwapInv'
  <2>1. Seated(Restored)' /\ Shape(Restored)'
    BY <1>1, <1>9 DEF IInv, SwapInv, Swapping, Seated, Seat, Shape, Whole
  <2>2. ASSUME NEW i \in DOMAIN moves'
        PROVE  /\ moves'[i].alone => grid[moves'[i].to] = Empty
               /\ ~moves'[i].alone => grid[moves'[i].to] # Empty
               /\ InMacro(moves'[i].block) => moves'[i].to = Plus(moves'[i].from, offset)
    <3>1. CASE i \in DOMAIN moves
      BY <3>1, <1>1, <1>4 DEF IInv, SwapInv, Swapping
    <3>2. CASE i = n + 1
      BY <3>2, <1>3, <1>4
    <3>3. CASE P # Empty /\ i = n + 2
      BY <3>3, <1>3, <1>4
    <3> QED BY <3>1, <3>2, <3>3, <1>4
  <2>3. ASSUME NEW c \in Block, InMacro(c)
        PROVE  IsMoved(c)' \/ IsTodo(c)' <=> IsMoved(c) \/ IsTodo(c)
    <3>1. IsTodo(c) <=> c = b \/ IsTodo(c)'
      <4>1. /\ Len(todo) \in Nat /\ DOMAIN todo = 1 .. Len(todo) /\ 1 \in DOMAIN todo
            /\ DOMAIN todo' = 1 .. Len(todo) - 1
            /\ \A k \in DOMAIN todo' : todo'[k] = todo[k + 1]
        BY <1>1, <1>2
      <4>2. ASSUME NEW k \in DOMAIN todo, todo[k] = c, c # b
            PROVE  IsTodo(c)'
        <5>1. k - 1 \in DOMAIN todo' /\ todo'[k - 1] = todo[k]
          <6>1. k # 1
            BY <4>2, <1>3
          <6> QED BY <6>1, <4>1
        <5> QED BY <5>1, <4>2 DEF IsTodo
      <4>3. ASSUME NEW k \in DOMAIN todo', todo'[k] = c
            PROVE  IsTodo(c)
        <5>1. k + 1 \in DOMAIN todo
          BY <4>1
        <5> QED BY <5>1, <4>1, <4>3 DEF IsTodo
      <4> QED BY <4>1, <4>2, <4>3, <1>3 DEF IsTodo
    <3> QED BY <3>1, <2>3, <1>3, <1>6
  <2>4. \A i \in DOMAIN Macros : \A j, k \in DOMAIN Macros[i] :
          IsMoved(Macros[i][j].block)' \/ IsTodo(Macros[i][j].block)'
            => IsMoved(Macros[i][k].block)' \/ IsTodo(Macros[i][k].block)'
    <3> TAKE i \in DOMAIN Macros
    <3> TAKE j, k \in DOMAIN Macros[i]
    <3>1. IsMoved(Macros[i][j].block) \/ IsTodo(Macros[i][j].block)
            => IsMoved(Macros[i][k].block) \/ IsTodo(Macros[i][k].block)
      BY <1>1 DEF IInv, SwapInv, Swapping
    <3> QED BY <3>1, <2>3, MacroFacts
  <2> QED BY <2>1, <2>2, <2>4, <1>1 DEF SwapInv
<1>14. TodoInv'
  <2> SUFFICES ASSUME todo' # << >> PROVE TodoInv'
    BY DEF TodoInv
  <2>1. /\ Len(todo) \in Nat /\ DOMAIN todo = 1 .. Len(todo) /\ Len(todo) # 1
        /\ DOMAIN todo' = 1 .. Len(todo) - 1
        /\ \A k \in DOMAIN todo' : todo'[k] = todo[k + 1] /\ k + 1 \in DOMAIN todo /\ k + 1 # 1
    BY <1>1, <1>2
  <2>2. /\ \A j, k \in DOMAIN todo : todo[j] = todo[k] => j = k
        /\ \A k \in DOMAIN todo :
             /\ todo[k] \in Block /\ todo[k] \notin fixed /\ ~IsMoved(todo[k]) /\ InMacro(todo[k])
             /\ TileOf(Plus(block[todo[k]], offset)) \in Core
                  => Plus(block[todo[k]], offset) \in LegalPos(TypeOf[todo[k]])
    BY <2>1, <1>1, <1>2 DEF IInv, TodoInv
  <2>3. \A j, k \in DOMAIN todo' : todo'[j] = todo'[k] => j = k
    BY <2>1, <2>2
  <2>4. ASSUME NEW k \in DOMAIN todo'
        PROVE  /\ todo'[k] \notin fixed /\ InMacro(todo'[k]) /\ block'[todo'[k]] = block[todo'[k]]
               /\ \A i \in DOMAIN moves' : moves'[i].block # todo'[k]
               /\ TileOf(Plus(block[todo'[k]], offset)) \in Core
                    => Plus(block[todo'[k]], offset) \in LegalPos(TypeOf[todo'[k]])
    <3> DEFINE c == todo'[k]
    <3>1. c = todo[k + 1] /\ c \in Block /\ InMacro(c) /\ ~IsMoved(c)
      BY <2>1, <2>2
    <3>2. c # b
      <4>1. 1 \in DOMAIN todo /\ k + 1 \in DOMAIN todo /\ k + 1 # 1
        BY <1>1, <1>2, <2>1
      <4> QED BY <4>1, <3>1, <2>2, <1>3
    <3>3. P # Empty => c # P
      BY <3>1, <1>3
    <3>4. c # P
      BY <3>1, <3>3, NetlistAssumption DEF Block, Empty
    <3>5. block'[c] = block[c]
      BY <3>1, <3>2, <3>4, <1>4
    <3>6. \A i \in DOMAIN moves' : moves'[i].block # c
      BY <3>1, <3>2, <3>4, <1>4 DEF IsMoved
    <3> QED BY <3>1, <3>5, <3>6, <2>1, <2>2
  <2>5. InMacro(b)
    <3>1. 1 \in DOMAIN todo
      BY <1>1, <1>2
    <3> QED BY <3>1, <2>2, <1>3
  <2>6. ASSUME NEW i \in DOMAIN moves'
        PROVE  \/ InMacro(moves'[i].block)
               \/ \E j \in DOMAIN moves' : InMacro(moves'[j].block) /\ moves'[i].to = moves'[j].from
    <3>1. CASE i \in DOMAIN moves
      <4>1. \/ InMacro(moves[i].block)
            \/ \E j \in DOMAIN moves : InMacro(moves[j].block) /\ moves[i].to = moves[j].from
        BY <3>1, <1>1 DEF IInv, TodoInv
      <4> QED BY <4>1, <3>1, <1>4
    <3>2. CASE i = n + 1
      BY <3>2, <2>5, <1>4
    <3>3. CASE P # Empty /\ i = n + 2
      BY <3>3, <2>5, <1>4
    <3> QED BY <3>1, <3>2, <3>3, <1>4
  <2> QED BY <2>3, <2>4, <2>6, <1>1 DEF TodoInv, IsMoved
<1> QED BY <1>1, <1>9, <1>10, <1>11, <1>12, <1>13, <1>14
     DEF IInv, PlacingInv, MacrosInv, BlocksInv, RestInv, Resting, CommitInv

\* A swap that is not kept leaves everything as it was.
LEMMA TakenBack ==
  ASSUME IInv, Swapping, block' = Restored, EndSwap, UNCHANGED << padFile, fixed, grid >>
  PROVE  IInv'
<1>1. /\ moves' = << >> /\ todo' = << >> /\ offset' = << 0, 0, 0 >> /\ count' = 0 /\ pc' = "idle"
  BY DEF EndSwap
<1>2. /\ moves \in Seq(MoveRec) /\ block \in [Block -> Coord]
      /\ \A i, j \in DOMAIN moves : moves[i].block = moves[j].block => i = j
      /\ \A i \in DOMAIN moves : moves[i].block \notin fixed
      /\ Seated(Restored) /\ Shape(Restored)
  BY DEF IInv, TInv, MovesInv, SwapInv
<1>4. Restored \in [Block -> Coord] /\ \A c \in Block : ~IsMoved(c) => Restored[c] = block[c]
  BY MovedFacts
<1>5. TInv'
  <2>1. block' \in [Block -> Coord]
    BY <1>4
  <2>2. moves' \in Seq(MoveRec) /\ todo' \in Seq(Block) /\ offset' \in Coord /\ count' \in Nat
    BY <1>1 DEF Coord
  <2> QED BY <2>1, <2>2 DEF IInv, TInv
<1>6. PadsInv'
  <2>1. \A c \in fixed : fixed = Pads => block'[c] = block[c]
    BY <1>2, <1>4 DEF Pads, IsMoved
  <2> QED BY <2>1 DEF IInv, PadsInv
<1>7. RestInv'
  BY <1>1, <1>2 DEF RestInv, Seated, Seat, Shape, Whole
<1> QED BY <1>1, <1>5, <1>6, <1>7
     DEF IInv, PlacingInv, MacrosInv, BlocksInv, MovesInv, Swapping, SwapInv, TodoInv, CommitInv

\* A swap that turns out to be impossible half-way.
LEMMA AbortStep == ASSUME IInv, Abort PROVE IInv'
BY TakenBack DEF Abort, Swapping

\* A swap that is turned down, and undone.
LEMMA RejectStep == ASSUME IInv, Reject PROVE IInv'
BY TakenBack DEF Reject, Assessing, Swapping

\* Steps that only work on nets and costs.
LEMMA QuietStep ==
  ASSUME IInv,
         UNCHANGED << padFile, block, fixed, grid, moves, todo, offset, count >>,
         \/ pc' = pc
         \/ pc = "cost" /\ pc' = "idle"
         \/ pc = "idle" /\ pc' \in {"placed", "inconsistent"}
         \/ pc = "affect" /\ todo = << >> /\ pc' = "bound"
  PROVE  IInv'
<1>1. TInv' /\ PadsInv' /\ PlacingInv' /\ MacrosInv' /\ BlocksInv'
  BY DEF IInv, TInv, PadsInv, PlacingInv, MacrosInv, BlocksInv, Shape, Whole, ByUser
<1>2. Restored' = Restored /\ (Seated(Restored)' <=> Seated(Restored)) /\ (Shape(Restored)' <=> Shape(Restored))
      /\ (Seated(block)' <=> Seated(block)) /\ (Shape(block)' <=> Shape(block))
  BY DEF Restored, Seated, Seat, Shape, Whole
<1>3. RestInv'
  BY <1>2 DEF IInv, RestInv, Resting
<1>4. MovesInv'
  BY DEF IInv, MovesInv, Swapping
<1>5. SwapInv'
  BY <1>2 DEF IInv, SwapInv, Swapping, IsMoved, IsTodo
<1>6. TodoInv'
  BY DEF IInv, TodoInv, IsMoved
<1>7. CommitInv'
  <2>1. \A b \in Block : Seat(block, b)' = Seat(block, b) /\ (IsMoved(b)' <=> IsMoved(b))
    BY DEF Seat, IsMoved
  <2> QED BY <1>2, <2>1 DEF IInv, CommitInv
<1> QED BY <1>1, <1>3, <1>4, <1>5, <1>6, <1>7 DEF IInv

-----------------------------------------------------------------------------
(* The decision, and taking the moves over *)

\* A swap that is taken.
LEMMA AcceptStep == ASSUME IInv, Accept PROVE IInv'
<1>1. /\ pc = "bound" /\ pc' = "commit" /\ count' = 0
      /\ UNCHANGED << padFile, block, fixed, grid, moves, todo, offset >>
  BY DEF Accept, Assessing, where, swap
<1>0. \A b \in Block : b # Empty
  BY NetlistAssumption DEF Block, Empty
<1>2. /\ moves \in Seq(MoveRec) /\ block \in [Block -> Coord] /\ offset \in Coord
      /\ \A i, j \in DOMAIN moves : moves[i].block = moves[j].block => i = j
      /\ \A i, j \in DOMAIN moves : moves[i].to = moves[j].to => i = j
      /\ Seated(Restored) /\ Shape(Restored) /\ todo = << >>
  BY <1>1 DEF IInv, TInv, MovesInv, Swapping, SwapInv
<1>4. /\ Restored \in [Block -> Coord]
      /\ \A i \in DOMAIN moves : /\ moves[i].block \in Block /\ moves[i].from \in Loc /\ moves[i].to \in Loc
                                 /\ Restored[moves[i].block] = moves[i].from
      /\ \A c \in Block : ~IsMoved(c) => Restored[c] = block[c]
  BY <1>1, MovedFacts DEF Swapping
<1>5. \A i \in DOMAIN moves :
        /\ moves[i].block \notin fixed /\ block[moves[i].block] = moves[i].to
        /\ moves[i].to \in LegalPos(TypeOf[moves[i].block])
        /\ moves[i].alone <=> grid[moves[i].to] = Empty
        /\ ~moves[i].alone =>
             \E j \in DOMAIN moves : moves[j].from = moves[i].to /\ moves[j].to = moves[i].from
        /\ InMacro(moves[i].block) => moves[i].to = Plus(moves[i].from, offset)
  BY <1>1 DEF IInv, MovesInv, SwapInv, Swapping
<1>6. \A i \in DOMAIN moves : grid[moves[i].from] = moves[i].block
  BY <1>1, MovedFacts DEF Swapping
<1>7. \A b \in Block : ~IsMoved(b) => Seat(block, b) = Seat(Restored, b)
  BY <1>4 DEF Seat
<1>8. \A b \in Block : Seat(block, b) \in LegalPos(TypeOf[b])
  <2> TAKE b \in Block
  <2>1. CASE IsMoved(b)
    BY <2>1, <1>5 DEF IsMoved, Seat
  <2>2. CASE ~IsMoved(b)
    BY <2>2, <1>2, <1>7 DEF Seated
  <2> QED BY <2>1, <2>2
<1>9. ASSUME NEW i \in DOMAIN moves, NEW c \in Block, ~IsMoved(c)
      PROVE  Seat(block, c) # moves[i].to /\ Seat(block, c) # moves[i].from
  <2>1. \A l \in Loc : Seat(block, c) = l => grid[l] = c
    BY <1>2, <1>7, <1>9 DEF Seated
  <2>2. Seat(block, c) # moves[i].from
    BY <2>1, <1>4, <1>6, <1>9 DEF IsMoved
  <2>3. ASSUME Seat(block, c) = moves[i].to
        PROVE  FALSE
    <3>1. grid[moves[i].to] = c
      BY <2>1, <2>3, <1>4
    <3>2. PICK j \in DOMAIN moves : moves[j].from = moves[i].to
      BY <3>1, <1>0, <1>5
    <3> QED BY <3>1, <3>2, <1>6, <1>9 DEF IsMoved
  <2> QED BY <2>2, <2>3
<1>10. \A b, c \in Block : Seat(block, b) = Seat(block, c) => b = c
  <2> TAKE b, c \in Block
  <2> HAVE Seat(block, b) = Seat(block, c)
  <2>1. \A x \in Block : IsMoved(x) =>
          \E i \in DOMAIN moves : moves[i].block = x /\ Seat(block, x) = moves[i].to
    BY <1>5 DEF IsMoved, Seat
  <2>2. CASE IsMoved(b) /\ IsMoved(c)
    BY <2>1, <2>2, <1>2
  <2>3. CASE IsMoved(b) /\ ~IsMoved(c)
    BY <2>1, <2>3, <1>9
  <2>4. CASE ~IsMoved(b) /\ IsMoved(c)
    BY <2>1, <2>4, <1>9
  <2>5. CASE ~IsMoved(b) /\ ~IsMoved(c)
    <3>1. Seat(Restored, b) = Seat(Restored, c)
      BY <2>5, <1>7
    <3>2. Seat(Restored, b) \in Loc
      BY <1>2, LegalFacts DEF Seated
    <3> QED BY <3>1, <3>2, <1>2 DEF Seated
  <2> QED BY <2>2, <2>3, <2>4, <2>5
<1>11. \A i, j \in DOMAIN moves : moves[i].alone => moves[i].from # moves[j].to
  <2> SUFFICES ASSUME NEW i \in DOMAIN moves, NEW j \in DOMAIN moves,
                      moves[i].alone, moves[i].from = moves[j].to
               PROVE  FALSE
    OBVIOUS
  <2>1. grid[moves[j].to] # Empty
    BY <1>0, <1>4, <1>6
  <2>2. PICK k \in DOMAIN moves : moves[k].from = moves[j].to /\ moves[k].to = moves[j].from
    BY <2>1, <1>5
  <2>3. k = i
    BY <2>2, <1>2, <1>6
  <2>4. grid[moves[i].to] # Empty
    BY <2>2, <2>3, <1>0, <1>4, <1>6
  <2> QED BY <2>4, <1>5
<1>12. ASSUME NEW l \in Loc, \A i \in DOMAIN moves : l # moves[i].from /\ l # moves[i].to, NEW b \in Block
       PROVE  grid[l] = b <=> Seat(block, b) = l
  <2>1. grid[l] = b <=> Seat(Restored, b) = l
    BY <1>2 DEF Seated
  <2>2. CASE ~IsMoved(b)
    BY <2>1, <2>2, <1>7
  <2>3. CASE IsMoved(b)
    <3>1. PICK i \in DOMAIN moves : moves[i].block = b
      BY <2>3 DEF IsMoved
    <3>2. Seat(block, b) = moves[i].to /\ Seat(Restored, b) = moves[i].from
      BY <3>1, <1>4, <1>5 DEF Seat
    <3> QED BY <3>2, <2>1, <1>12
  <2> QED BY <2>2, <2>3
<1>13. Shape(block)
  <2> SUFFICES ASSUME NEW i \in DOMAIN Macros, NEW k \in DOMAIN Macros[i]
               PROVE  block[Macros[i][k].block] = Plus(block[Macros[i][1].block], Offset(Macros[i][k]))
    BY DEF Shape, Whole
  <2> DEFINE h == Macros[i][1].block
             c == Macros[i][k].block
             o == Offset(Macros[i][k])
  <2>1. /\ h \in Block /\ c \in Block /\ InMacro(c) /\ 1 \in DOMAIN Macros[i] /\ o = << 0, Macros[i][k].dy, 0 >>
        /\ Macros[i][k].dy \in Int
    BY MacroFacts
  <2>2. InMacro(h)
    BY <2>1, MacroFacts
  <2>3. Restored[c] = Plus(Restored[h], o)
    BY <1>2 DEF Shape, Whole
  <2>4. IsMoved(h) <=> IsMoved(c)
    <3>1. ~IsTodo(h) /\ ~IsTodo(c)
      BY <1>2 DEF IsTodo
    <3> QED BY <3>1, <2>1, <1>1 DEF IInv, SwapInv, Swapping
  <2> HIDE DEF h, c, o
  <2>5. CASE ~IsMoved(h)
    BY <2>1, <2>3, <2>4, <2>5, <1>4 DEF h, c, o
  <2>6. CASE IsMoved(h)
    <3>1. block[h] = Plus(Restored[h], offset) /\ block[c] = Plus(Restored[c], offset)
      BY <2>1, <2>2, <2>4, <2>6, <1>4, <1>5 DEF IsMoved
    <3>2. Restored[h] \in Coord /\ o \in Coord
      BY <2>1, <1>4 DEF Coord
    <3>3. Plus(Plus(Restored[h], o), offset) = Plus(Plus(Restored[h], offset), o)
      BY <3>2, <1>2, PlusTwice
    <3> QED BY <3>1, <3>3, <2>3 DEF h, c, o
  <2> QED BY <2>5, <2>6
<1>14. CommitInv'
  <2>1. 0 <= Len(moves)
    BY <1>2
  <2>2. \A b \in Block : Seat(block, b)' = Seat(block, b) /\ (IsMoved(b)' <=> IsMoved(b))
    BY <1>1 DEF Seat, IsMoved
  <2>3. Shape(block)'
    BY <1>1, <1>13 DEF Shape, Whole
  <2> QED BY <2>1, <2>2, <2>3, <1>1, <1>8, <1>9, <1>10, <1>11, <1>12 DEF CommitInv
<1>15. TInv' /\ PadsInv'
  BY <1>1 DEF IInv, TInv, PadsInv
<1>16. MovesInv'
  BY <1>1 DEF IInv, MovesInv, Swapping
<1> QED BY <1>1, <1>14, <1>15, <1>16
     DEF IInv, PlacingInv, MacrosInv, BlocksInv, RestInv, Resting, Swapping, SwapInv, TodoInv

\* One move taken over into the grid.
LEMMA CommitStep == ASSUME IInv, Commit PROVE IInv'
<1> DEFINE m == moves[count + 1]
<1>1. /\ pc = "commit" /\ pc' = "commit" /\ count < Len(moves) /\ count' = count + 1
      /\ UNCHANGED << padFile, block, fixed, moves, todo, offset >>
  BY DEF Commit, swap
<1>2. /\ moves \in Seq(MoveRec) /\ grid \in [Loc -> Block \cup {Empty}] /\ count \in Nat
      /\ \A i, j \in DOMAIN moves : moves[i].to = moves[j].to => i = j
  BY <1>1 DEF IInv, TInv, MovesInv
<1>3. count + 1 \in DOMAIN moves /\ 1 .. count \subseteq DOMAIN moves
      /\ \A i \in 1 .. count : i # count + 1
  BY <1>1, <1>2
<1>4. \A i \in DOMAIN moves : moves[i].block \in Block /\ moves[i].from \in Loc /\ moves[i].to \in Loc
  <2>1. \A i \in DOMAIN moves : moves[i] \in MoveRec
    BY <1>2
  <2> QED BY <2>1 DEF MoveRec
<1>5. \A i, j \in DOMAIN moves : moves[i].alone => moves[i].from # moves[j].to
  BY <1>1 DEF IInv, CommitInv
<1>6. grid' = IF m.alone THEN [[grid EXCEPT ![m.to] = m.block] EXCEPT ![m.from] = Empty]
                         ELSE [grid EXCEPT ![m.to] = m.block]
  BY DEF Commit
<1> HIDE DEF m
<1>7. /\ grid' \in [Loc -> Block \cup {Empty}]
      /\ m.alone => grid'[m.from] = Empty
      /\ grid'[m.to] = m.block
      /\ \A l \in Loc : l # m.to /\ l # m.from => grid'[l] = grid[l]
      /\ ~m.alone => \A l \in Loc : l # m.to => grid'[l] = grid[l]
  <2>1. /\ m.block \in Block /\ m.from \in Loc /\ m.to \in Loc /\ (m.alone => m.from # m.to)
    BY <1>3, <1>4, <1>5 DEF m
  <2>2. CASE m.alone
    BY <2>1, <2>2, <1>2, <1>6
  <2>3. CASE ~m.alone
    BY <2>1, <2>3, <1>2, <1>6
  <2> QED BY <2>2, <2>3
<1>8. ASSUME NEW i \in 1 .. count'
      PROVE  /\ grid'[moves[i].to] = moves[i].block
             /\ moves[i].alone => grid'[moves[i].from] = Empty
  <2>1. CASE i = count + 1
    BY <2>1, <1>7 DEF m
  <2>2. CASE i \in 1 .. count
    <3>1. /\ i \in DOMAIN moves /\ grid[moves[i].to] = moves[i].block
          /\ moves[i].alone => grid[moves[i].from] = Empty
      BY <2>2, <1>1, <1>3 DEF IInv, CommitInv
    <3>2. /\ moves[i].to # m.to /\ (m.alone => moves[i].to # m.from)
          /\ (moves[i].alone => moves[i].from # m.to)
      BY <2>2, <3>1, <1>2, <1>3, <1>5 DEF m
    <3>3. grid'[moves[i].to] = grid[moves[i].to]
      BY <3>1, <3>2, <1>4, <1>7
    <3>4. ASSUME moves[i].alone
          PROVE  grid'[moves[i].from] = Empty
      <4>1. CASE m.alone /\ moves[i].from = m.from
        BY <4>1, <1>7
      <4>2. CASE ~(m.alone /\ moves[i].from = m.from)
        BY <4>2, <3>1, <3>2, <3>4, <1>4, <1>7
      <4> QED BY <4>1, <4>2
    <3> QED BY <3>1, <3>3, <3>4
  <2> QED BY <2>1, <2>2, <1>1, <1>2
<1>9. CommitInv'
  <2>1. \A b \in Block : Seat(block, b)' = Seat(block, b) /\ (IsMoved(b)' <=> IsMoved(b))
    BY <1>1 DEF Seat, IsMoved
  <2>2. Shape(block)'
    BY <1>1 DEF IInv, CommitInv, Shape, Whole
  <2>3. /\ \A b \in Block : Seat(block, b) \in LegalPos(TypeOf[b])
        /\ \A b, c \in Block : Seat(block, b) = Seat(block, c) => b = c
        /\ \A b \in Block : ~IsMoved(b) => \A i \in DOMAIN moves : Seat(block, b) # moves[i].from
    BY <1>1 DEF IInv, CommitInv
  <2>4. ASSUME NEW l \in Loc, \A i \in DOMAIN moves : l # moves[i].from /\ l # moves[i].to, NEW b \in Block
        PROVE  grid'[l] = b <=> Seat(block, b) = l
    <3>1. grid'[l] = grid[l]
      BY <2>4, <1>3, <1>7 DEF m
    <3>2. grid[l] = b <=> Seat(block, b) = l
      BY <2>4, <1>1 DEF IInv, CommitInv
    <3> QED BY <3>1, <3>2
  <2>5. count' <= Len(moves)
    BY <1>1, <1>2
  <2> QED BY <2>1, <2>2, <2>3, <2>4, <2>5, <1>1, <1>5, <1>8 DEF CommitInv
<1>10. TInv' /\ PadsInv'
  BY <1>1, <1>2, <1>7 DEF IInv, TInv, PadsInv
<1>11. MovesInv'
  BY <1>1 DEF IInv, MovesInv, Swapping
<1> QED BY <1>1, <1>9, <1>10, <1>11
     DEF IInv, PlacingInv, MacrosInv, BlocksInv, RestInv, Resting, Swapping, SwapInv, TodoInv

\* The end of it.
LEMMA AcceptedStep == ASSUME IInv, Accepted PROVE IInv'
<1>1. /\ pc = "commit" /\ pc' = "idle" /\ count = Len(moves)
      /\ moves' = << >> /\ todo' = << >> /\ offset' = << 0, 0, 0 >> /\ count' = 0
      /\ UNCHANGED << padFile, block, fixed, grid >>
  BY DEF Accepted, EndSwap, where
<1>0. \A b \in Block : b # Empty
  BY NetlistAssumption DEF Block, Empty
<1>2. moves \in Seq(MoveRec) /\ 1 .. count = DOMAIN moves
  BY <1>1 DEF IInv, TInv
<1>3. \A i \in DOMAIN moves : /\ moves[i].block \in Block
                             /\ moves[i].to = Seat(block, moves[i].block)
  <2>1. \A i \in DOMAIN moves : moves[i] \in MoveRec
    BY <1>2
  <2> QED BY <2>1, <1>1 DEF MoveRec, IInv, MovesInv, Seat
<1>4. /\ \A i \in DOMAIN moves : /\ grid[moves[i].to] = moves[i].block
                                 /\ moves[i].alone => grid[moves[i].from] = Empty
      /\ \A b \in Block : Seat(block, b) \in LegalPos(TypeOf[b])
      /\ \A b, c \in Block : Seat(block, b) = Seat(block, c) => b = c
      /\ \A b \in Block : ~IsMoved(b) => \A i \in DOMAIN moves : Seat(block, b) # moves[i].from
      /\ Shape(block)
  BY <1>1, <1>2 DEF IInv, CommitInv
<1>5. ASSUME NEW b \in Block, NEW l \in Loc
      PROVE  grid[l] = b <=> Seat(block, b) = l
  <2>1. CASE \E i \in DOMAIN moves : l = moves[i].to
    BY <2>1, <1>3, <1>4
  <2>2. CASE (\E i \in DOMAIN moves : l = moves[i].from) /\ \A i \in DOMAIN moves : l # moves[i].to
    <3>1. PICK i \in DOMAIN moves : l = moves[i].from
      BY <2>2
    <3>2. moves[i].alone
      BY <3>1, <2>2, <1>1 DEF IInv, MovesInv
    <3>3. grid[l] # b
      BY <3>1, <3>2, <1>0, <1>4
    <3>4. Seat(block, b) # l
      <4>1. CASE IsMoved(b)
        BY <4>1, <2>2, <1>3 DEF IsMoved
      <4>2. CASE ~IsMoved(b)
        BY <4>2, <3>1, <1>4
      <4> QED BY <4>1, <4>2
    <3> QED BY <3>3, <3>4
  <2>3. CASE \A i \in DOMAIN moves : l # moves[i].from /\ l # moves[i].to
    BY <2>3, <1>1 DEF IInv, CommitInv
  <2> QED BY <2>1, <2>2, <2>3
<1>6. RestInv'
  BY <1>1, <1>4, <1>5 DEF RestInv, Seated, Seat, Shape, Whole
<1>7. TInv' /\ PadsInv'
  <2>1. moves' \in Seq(MoveRec) /\ todo' \in Seq(Block) /\ offset' \in Coord /\ count' \in Nat
    BY <1>1 DEF Coord
  <2> QED BY <2>1, <1>1 DEF IInv, TInv, PadsInv
<1> QED BY <1>1, <1>6, <1>7
     DEF IInv, PlacingInv, MacrosInv, BlocksInv, MovesInv, Swapping, SwapInv, TodoInv, CommitInv

\* Halfway through a swap too, no two blocks are in one place.
LEMMA Apart ==
  ASSUME IInv, Swapping, NEW b \in Block \ fixed, NEW c \in Block \ fixed, block[b] = block[c]
  PROVE  b = c
<1>0. \A x \in Block : x # Empty
  BY NetlistAssumption DEF Block, Empty
<1>1. /\ moves \in Seq(MoveRec) /\ block \in [Block -> Coord]
      /\ \A i, j \in DOMAIN moves : moves[i].block = moves[j].block => i = j
      /\ \A i, j \in DOMAIN moves : moves[i].to = moves[j].to => i = j
      /\ Seated(Restored)
  BY DEF IInv, TInv, MovesInv, SwapInv
<1>2. /\ \A i \in DOMAIN moves : /\ moves[i].block \in Block /\ moves[i].from \in Loc /\ moves[i].to \in Loc
                                 /\ Restored[moves[i].block] = moves[i].from
      /\ \A x \in Block : ~IsMoved(x) => Restored[x] = block[x]
  BY MovedFacts
<1>3. \A i \in DOMAIN moves :
        /\ moves[i].block \notin fixed /\ block[moves[i].block] = moves[i].to
        /\ moves[i].alone => grid[moves[i].to] = Empty
        /\ ~moves[i].alone =>
             \E j \in DOMAIN moves : moves[j].from = moves[i].to /\ moves[j].to = moves[i].from
  BY DEF IInv, MovesInv, SwapInv
<1>4. \A i \in DOMAIN moves : grid[moves[i].from] = moves[i].block
  BY MovedFacts
<1>5. \A x \in Block \ fixed : ~IsMoved(x) => block[x] \in Loc /\ grid[block[x]] = x
  BY <1>1, <1>2, LegalFacts DEF Seated, Seat
<1>6. ASSUME NEW x \in Block \ fixed, NEW y \in Block \ fixed, IsMoved(x), ~IsMoved(y), block[x] = block[y]
      PROVE  FALSE
  <2>1. PICK i \in DOMAIN moves : moves[i].block = x
    BY <1>6 DEF IsMoved
  <2>2. grid[moves[i].to] = y
    BY <2>1, <1>3, <1>5, <1>6
  <2>3. PICK j \in DOMAIN moves : moves[j].from = moves[i].to
    BY <2>2, <1>0, <1>3
  <2> QED BY <2>2, <2>3, <1>4, <1>6 DEF IsMoved
<1>7. CASE IsMoved(b) /\ IsMoved(c)
  BY <1>7, <1>1, <1>3 DEF IsMoved
<1>8. CASE ~IsMoved(b) /\ ~IsMoved(c)
  BY <1>8, <1>5
<1> QED BY <1>6, <1>7, <1>8

-----------------------------------------------------------------------------
(* The grid, the macros and the pads *)

\* Every step keeps the invariant.
LEMMA StepInv == ASSUME IInv, [Next]_vars PROVE IInv'
<1>1. CASE PlaceMacro
  BY <1>1, PlaceMacroStep
<1>2. CASE MacrosPlaced
  BY <1>2, MacrosPlacedStep
<1>3. CASE PlaceBlock
  BY <1>3, PlaceBlockStep
<1>4. CASE ReadPads
  BY <1>4, ReadPadsStep
<1>5. CASE CompBBCost
  BY <1>5, QuietStep DEF CompBBCost, where, swap
<1>6. CASE PickSwap
  BY <1>6, PickSwapStep
<1>7. CASE SetupBlocksAffected
  BY <1>7, SetupStep
<1>8. CASE Abort
  BY <1>8, AbortStep
<1>9. CASE FindAffectedNets
  BY <1>9, QuietStep DEF FindAffectedNets, where, swap
<1>10. CASE UpdateBB
  <2>1. UNCHANGED << padFile, block, fixed, grid, moves, todo, offset, count, pc >>
    BY <1>10 DEF UpdateBB, where, swap
  <2> QED BY <2>1, QuietStep
<1>11. CASE Accept
  BY <1>11, AcceptStep
<1>12. CASE Commit
  BY <1>12, CommitStep
<1>13. CASE Accepted
  BY <1>13, AcceptedStep
<1>14. CASE Reject
  BY <1>14, RejectStep
<1>15. CASE Freeze
  BY <1>15, QuietStep DEF Freeze, where, swap
<1>16. CASE CheckPlace
  BY <1>16, QuietStep DEF CheckPlace, where, swap
<1>17. CASE UNCHANGED vars
  BY <1>17, QuietStep DEF vars, where, swap
<1> QED BY <1>1, <1>2, <1>3, <1>4, <1>5, <1>6, <1>7, <1>8, <1>9, <1>10, <1>11, <1>12, <1>13,
           <1>14, <1>15, <1>16, <1>17 DEF Next

\* The strengthened invariant, of which the promises below are consequences.
THEOREM Invariance == Spec => []IInv
<1>1. Init => IInv
  BY InitInv
<1>2. IInv /\ [Next]_vars => IInv'
  BY StepInv
<1> QED BY <1>1, <1>2, PTL DEF Spec

\* Between swaps the grid has every block in one place, the one where the block
\* says it is; of a pad of the user, x and y (place.c:1377-1443).
THEOREM GridKept == Spec => []GridAgrees
<1>1. IInv => GridAgrees
  <2> SUFFICES ASSUME IInv, AtRest, NEW b \in Block
               PROVE  /\ \E l \in Loc : grid[l] = b
                      /\ \A l \in Loc : grid[l] = b =>
                           IF b \in fixed THEN TileOf(block[b]) = TileOf(l) ELSE block[b] = l
    BY DEF GridAgrees
  <2>1. /\ Seat(block, b) \in Loc
        /\ \A l \in Loc : grid[l] = b <=> Seat(block, b) = l
    BY LegalFacts DEF AtRest, IInv, RestInv, Resting, Seated
  <2>2. CASE b \notin fixed
    BY <2>1, <2>2 DEF Seat
  <2>3. CASE b \in fixed
    <3>1. block[b] = [padFile[b] EXCEPT ![3] = -1] /\ Seat(block, b) = padFile[b]
      BY <2>3 DEF IInv, PadsInv, Seat
    <3>2. padFile[b] \in Int \X Int \X Int
      BY <2>1, <3>1, PlaceFacts DEF Coord
    <3>3. \A c \in Int \X Int \X Int :
            [c EXCEPT ![3] = -1][1] = c[1] /\ [c EXCEPT ![3] = -1][2] = c[2]
      OBVIOUS
    <3>4. TileOf(block[b]) = TileOf(padFile[b])
      BY <3>1, <3>2, <3>3 DEF TileOf
    <3> QED BY <2>1, <2>3, <3>1, <3>4
  <2> QED BY <2>2, <2>3
<1> QED BY <1>1, Invariance, PTL

\* A swap takes all the members of a macro along, or none (place.c:1158-1211).
THEOREM MacrosKept == Spec => []MacrosHold
<1>1. IInv => MacrosHold
  BY DEF IInv, RestInv, Resting, AtRest, MacrosHold, Shape, Whole
<1> QED BY <1>1, Invariance, PTL

\* However many blocks a swap displaces, each moves once, and no two are ever in
\* one place (place.c:1113).
THEOREM EachOnce == Spec => []MovedOnce
<1>1. IInv => MovedOnce
  <2> SUFFICES ASSUME IInv, pc \in {"affect", "bound", "commit", "idle"}
               PROVE  /\ \A i, j \in DOMAIN moves : moves[i].block = moves[j].block => i = j
                      /\ \A b, c \in Block \ fixed : block[b] = block[c] => b = c
    BY DEF MovedOnce
  <2>1. \A i, j \in DOMAIN moves : moves[i].block = moves[j].block => i = j
    BY DEF IInv, RestInv, Resting, MovesInv, Swapping
  <2>2. ASSUME NEW b \in Block \ fixed, NEW c \in Block \ fixed, block[b] = block[c]
        PROVE  b = c
    <3>1. CASE pc = "idle"
      <4>1. block[b] \in Loc /\ grid[block[b]] = b /\ grid[block[c]] = c
        BY <3>1, LegalFacts DEF IInv, RestInv, Resting, Seated, Seat
      <4> QED BY <4>1, <2>2
    <3>2. CASE pc = "commit"
      BY <3>2, <2>2 DEF IInv, CommitInv, Seat
    <3>3. CASE Swapping
      BY <3>3, <2>2, Apart
    <3> QED BY <3>1, <3>2, <3>3 DEF Swapping
  <2> QED BY <2>1, <2>2
<1> QED BY <1>1, Invariance, PTL

\* A pad that the user placed stays where it is (place.c:1236, 1545).
THEOREM PadsUntouched == Spec => PadsStay
<1>1. IInv /\ IInv' /\ [Next]_vars => [\A b \in fixed : block'[b] = block[b]]_vars
  <2> SUFFICES ASSUME IInv, IInv', Next, NEW b \in fixed PROVE block'[b] = block[b]
    OBVIOUS
  <2>1. fixed = Pads /\ padFile' = padFile /\ fixed' = fixed
    BY DEF IInv, PadsInv, PlacingInv, Next, PlaceMacro, MacrosPlaced, PlaceBlock, ReadPads, CompBBCost,
           PickSwap, SetupBlocksAffected, Abort, FindAffectedNets, UpdateBB, Accept, Commit, Accepted,
           Reject, Freeze, CheckPlace, where
  <2> QED BY <2>1 DEF IInv, PadsInv
<1> QED BY <1>1, Invariance, PTL DEF Spec, PadsStay

-----------------------------------------------------------------------------
(* Bounding boxes: what is known of them *)

\* Where the pins of a net are as far as its box knows: the pins of moved blocks
\* that are still to be applied are where they were.
IsPending(q) == \E p \in pending : moves[p[1]].block = q[1] /\ p[2] = q[2]
Known(n) == [q \in Pins(n) |-> IF IsPending(q) THEN Restored[q[1]] ELSE block[q[1]]]

AxisX(n, at) == Axis([q \in Pins(n) |-> ClipX(at[q])])
AxisY(n, at) == Axis([q \in Pins(n) |-> ClipY(at[q])])
ScratchAt(n, at) == [x |-> AxisX(n, at), y |-> AxisY(n, at)]

Applied(n) == \E p \in MovedPins \ pending : NetOf(p) = n

FlagsInv ==
  /\ updated \in [Net -> {"not_yet", "once", "scratch"}]
  /\ newBox = [n \in Net |-> newBox[n]]
  /\ IF pc = "bound"
     THEN /\ pending \subseteq MovedPins
          /\ DOMAIN affected \subseteq MovedPins
          /\ \A p \in DOMAIN affected : affected[p] = NetOf(p)
          /\ \A p, q \in DOMAIN affected : affected[p] = affected[q] => p = q
          /\ \A p \in MovedPins : NetOf(p) \in Range(affected)
          /\ marked = Range(affected)
          /\ \A n \in Net : updated[n] # "not_yet" => Applied(n)
     ELSE /\ marked = {} /\ affected = << >> /\ pending = {}
          /\ \A n \in Net : updated[n] = "not_yet"

BoxInv ==
  /\ pc \in {"idle", "placed", "inconsistent", "commit"} =>
       \A n \in Net : box[n] = BoundingBox(n, block)
  /\ Swapping => \A n \in Net : box[n] = BoundingBox(n, Restored)

TrialInv ==
  pc = "bound" => \A n \in Net :
    /\ ~Large(n) /\ Applied(n) => newBox[n] = BoundingBox(n, block)
    /\ Large(n) =>
         /\ updated[n] = "not_yet" => ~Applied(n)
         /\ updated[n] = "once"    => newBox[n] = ScratchAt(n, Known(n))
         /\ updated[n] = "scratch" => newBox[n] = FromScratch(n, block)

BInv == FlagsInv /\ BoxInv /\ TrialInv

-----------------------------------------------------------------------------
(* One axis of a bounding box *)

\* A set of numbers from 1 to N has a least and a greatest element, and no other number
\* is either.
LEMMA MinMax ==
  ASSUME NEW N \in Nat, NEW S \in SUBSET (1 .. N)
  PROVE  /\ S # {} => /\ Min(S) \in S /\ Max(S) \in S
                      /\ \A y \in S : Min(S) <= y /\ y <= Max(S)
         /\ \A v \in S : (\A y \in S : v <= y) => Min(S) = v
         /\ \A v \in S : (\A y \in S : y <= v) => Max(S) = v
<1>1. \A v \in S : (\A y \in S : v <= y) => Min(S) = v
  <2> SUFFICES ASSUME NEW v \in S, \A y \in S : v <= y  PROVE Min(S) = v
    OBVIOUS
  <2>1. \A x \in S : (\A y \in S : x =< y) => x = v
    OBVIOUS
  <2> QED BY <2>1 DEF Min
<1>2. \A v \in S : (\A y \in S : y <= v) => Max(S) = v
  <2> SUFFICES ASSUME NEW v \in S, \A y \in S : y <= v  PROVE Max(S) = v
    OBVIOUS
  <2>1. \A x \in S : (\A y \in S : x >= y) => x = v
    OBVIOUS
  <2> QED BY <2>1 DEF Max
<1>3. ASSUME S # {}
      PROVE  \E v \in S : \A y \in S : v <= y
  <2>1. S \in SUBSET Nat
    OBVIOUS
  <2> QED BY <2>1, <1>3, Least
<1>4. ASSUME S # {}
      PROVE  \E v \in S : \A y \in S : y <= v
  <2> DEFINE T == { N - y : y \in S }
  <2>0. \A y \in S : N - y \in Nat
    OBVIOUS
  <2>1. T \in SUBSET Nat /\ T # {}
    BY <2>0, <1>4
  <2>2. PICK m \in T : \A z \in T : m <= z
    <3> HIDE DEF T
    <3> QED BY <2>1, Least
  <2>3. PICK v \in S : m = N - v
    BY <2>2
  <2>4. \A y \in S : N - v <= N - y
    BY <2>2, <2>3
  <2> QED BY <2>3, <2>4
<1> QED BY <1>1, <1>2, <1>3, <1>4

\* The pins of at that are at v.
On(at, v) == { p \in DOMAIN at : at[p] = v }

\* An axis is given by two values that are taken and enclose the others, and the pins at them.
Ends(at, p, q) == \A r \in DOMAIN at : at[p] <= at[r] /\ at[r] <= at[q]
Between(at, p, q) == [lo |-> at[p], hi |-> at[q],
                      onLo |-> Cardinality(On(at, at[p])), onHi |-> Cardinality(On(at, at[q]))]

\* Any two pins that enclose the others give the axis, and some two do.
LEMMA AxisIs ==
  ASSUME NEW N \in Nat, NEW D, NEW at \in [D -> 1 .. N]
  PROVE  /\ \A p, q \in D : Ends(at, p, q) => Axis(at) = Between(at, p, q)
         /\ D # {} => \E p, q \in D : Ends(at, p, q)
<1> DEFINE vals == { at[r] : r \in DOMAIN at }
           on(v) == Cardinality({ r \in DOMAIN at : at[r] = v })
<1>1. vals \in SUBSET (1 .. N) /\ \A r \in D : at[r] \in vals
  OBVIOUS
<1>2. Axis(at) = [lo |-> Min(vals), hi |-> Max(vals), onLo |-> on(Min(vals)), onHi |-> on(Max(vals))]
  BY DEF Axis
<1>3. ASSUME NEW p \in D, NEW q \in D, Ends(at, p, q)
      PROVE  Axis(at) = Between(at, p, q)
  <2>1. \A y \in vals : at[p] <= y /\ y <= at[q]
    BY <1>3 DEF Ends
  <2>2. Min(vals) = at[p] /\ Max(vals) = at[q]
    <3> HIDE DEF vals
    <3> QED BY <1>1, <2>1, MinMax
  <2> QED BY <1>2, <2>2 DEF On, Between
<1>4. ASSUME D # {}
      PROVE  \E p, q \in D : Ends(at, p, q)
  <2>1. vals # {}
    BY <1>4
  <2>2. Min(vals) \in vals /\ Max(vals) \in vals /\ \A y \in vals : Min(vals) <= y /\ y <= Max(vals)
    <3> HIDE DEF vals
    <3> QED BY <1>1, <2>1, MinMax
  <2>3. PICK p \in D, q \in D : at[p] = Min(vals) /\ at[q] = Max(vals)
    BY <2>2
  <2>4. \A r \in D : at[p] <= at[r] /\ at[r] <= at[q]
    <3> HIDE DEF vals
    <3> QED BY <1>1, <2>2, <2>3
  <2>5. DOMAIN at = D
    OBVIOUS
  <2> QED BY <2>4, <2>5 DEF Ends
<1> QED BY <1>3, <1>4

\* A pin that moves leaves one value and is added to another.
LEMMA OnMoved ==
  ASSUME NEW D, IsFiniteSet(D), NEW at, NEW then, DOMAIN at = D, DOMAIN then = D,
         NEW p \in D, then[p] # at[p], \A r \in D \ {p} : then[r] = at[r], NEW v
  PROVE  /\ Cardinality(On(at, v)) \in Nat
         /\ Cardinality(On(then, v)) =
              IF v = then[p] THEN Cardinality(On(at, v)) + 1
              ELSE IF v = at[p] THEN Cardinality(On(at, v)) - 1 ELSE Cardinality(On(at, v))
         /\ Cardinality(On(at, v)) = 0 <=> \A r \in D : at[r] # v
         /\ v = at[p] /\ Cardinality(On(at, v)) # 1 => \E r \in D \ {p} : at[r] = v
<1>1. IsFiniteSet(On(at, v)) /\ Cardinality(On(at, v)) \in Nat
  <2>1. On(at, v) \in SUBSET D
    BY DEF On
  <2> QED BY <2>1, FS_Subset, FS_CardinalityType
<1>2. ASSUME v = then[p]
      PROVE  Cardinality(On(then, v)) = Cardinality(On(at, v)) + 1
  <2>1. On(then, v) = On(at, v) \cup {p} /\ p \notin On(at, v)
    BY <1>2 DEF On
  <2> QED BY <2>1, <1>1, FS_AddElement
<1>3. ASSUME v = at[p]
      PROVE  Cardinality(On(then, v)) = Cardinality(On(at, v)) - 1
  <2>1. On(then, v) = On(at, v) \ {p} /\ p \in On(at, v)
    BY <1>3 DEF On
  <2> QED BY <2>1, <1>1, FS_RemoveElement
<1>4. ASSUME v # then[p], v # at[p]
      PROVE  Cardinality(On(then, v)) = Cardinality(On(at, v))
  <2>1. On(then, v) = On(at, v)
    BY <1>4 DEF On
  <2> QED BY <2>1
<1>5. Cardinality(On(at, v)) = 0 <=> \A r \in D : at[r] # v
  <2>1. Cardinality(On(at, v)) = 0 <=> On(at, v) = {}
    BY <1>1, FS_EmptySet
  <2> QED BY <2>1 DEF On
<1>6. ASSUME v = at[p], Cardinality(On(at, v)) # 1
      PROVE  \E r \in D \ {p} : at[r] = v
  <2>1. p \in On(at, v) /\ Cardinality(On(at, v) \ {p}) = Cardinality(On(at, v)) - 1
    BY <1>1, <1>6, FS_RemoveElement DEF On
  <2>2. On(at, v) \ {p} # {}
    BY <2>1, <1>1, <1>6, FS_EmptySet
  <2> QED BY <2>2 DEF On
<1> QED BY <1>1, <1>2, <1>3, <1>4, <1>5, <1>6

\* What Moved makes of an axis when a pin goes from one value to another is the axis of
\* the values then, unless the pin was the last one on the edge it leaves.
LEMMA AxisMoved ==
  ASSUME NEW N \in Nat, NEW D, IsFiniteSet(D), NEW at \in [D -> 1 .. N],
         NEW then \in [D -> 1 .. N], NEW p \in D, \A r \in D \ {p} : then[r] = at[r],
         ~LeavesEdgeBare(at[p], then[p], Axis(at))
  PROVE  Axis(then) = Moved(at[p], then[p], Axis(at))
<1> DEFINE old == at[p]
           new == then[p]
           a == Axis(at)
           n(v) == Cardinality(On(at, v))
           m(v) == Cardinality(On(then, v))
<1>1. DOMAIN then = D /\ \A r \in D \ {p} : then[r] = at[r]
  OBVIOUS
<1>2. new \in 1 .. N /\ \A r \in D : at[r] \in 1 .. N
  OBVIOUS
<1>3. PICK l \in D, h \in D : Ends(at, l, h)
  BY AxisIs
<1>4. \A r \in D : at[l] <= at[r] /\ at[r] <= at[h]
  BY <1>3 DEF Ends
<1>5. a = Between(at, l, h)
  BY <1>3, AxisIs
<1>6. a.lo = at[l] /\ a.hi = at[h] /\ a.onLo = n(at[l]) /\ a.onHi = n(at[h])
  BY <1>5 DEF Between
<1>7. \A x, y \in D : Ends(then, x, y) => Axis(then) = Between(then, x, y)
  BY <1>1, AxisIs
<1>8. ASSUME new # old, NEW v
      PROVE  /\ n(v) \in Nat
             /\ m(v) = IF v = new THEN n(v) + 1 ELSE IF v = old THEN n(v) - 1 ELSE n(v)
             /\ n(v) = 0 <=> \A r \in D : at[r] # v
             /\ v = old /\ n(v) # 1 => \E r \in D \ {p} : at[r] = v
  <2>1. DOMAIN at = D
    OBVIOUS
  <2> QED BY <1>1, <1>8, <2>1, OnMoved
<1> HIDE DEF n, m
<1>9. CASE new = old
  <2>1. then = at
    BY <1>1, <1>9
  <2>2. Moved(old, new, a) = a
    BY <1>9, <1>2 DEF Moved
  <2> QED BY <2>1, <2>2
<1>10. CASE new < old
  <2>0. new # old /\ old \in 1 .. N
    BY <1>10, <1>2
  <2>1. PICK x \in D : /\ \A r \in D : then[x] <= then[r]
                       /\ then[x] = IF new < at[l] THEN new ELSE at[l]
    <3>1. CASE new < at[l]
      BY <3>1, <1>1, <1>2, <1>4
    <3>2. CASE at[l] <= new
      <4>1. l # p
        BY <3>2, <1>2, <1>10
      <4> QED BY <4>1, <3>2, <1>1, <1>2, <1>4
    <3> QED BY <3>1, <3>2, <1>2
  <2>2. PICK y \in D : /\ \A r \in D : then[r] <= then[y]
                       /\ then[y] = at[h]
    <3>1. PICK y \in D \ {p} : at[y] = at[h]
      <4>1. CASE old # at[h]
        BY <4>1
      <4>2. CASE old = at[h]
        <5>1. n(at[h]) # 1
          BY <4>2, <1>6, <1>10 DEF LeavesEdgeBare
        <5> QED BY <4>2, <5>1, <2>0, <1>8
      <4> QED BY <4>1, <4>2
    <3>2. new <= at[h]
      BY <1>2, <1>4, <1>10
    <3> QED BY <3>1, <3>2, <1>1, <1>4
  <2>3. Axis(then) = Between(then, x, y)
    <3>1. Ends(then, x, y)
      BY <2>1, <2>2, <1>1 DEF Ends
    <3> QED BY <3>1, <1>7
  <2>4. m(then[x]) = CASE new < at[l] -> 1 [] new = at[l] -> n(at[l]) + 1 [] OTHER -> n(at[l])
    <3>1. CASE new < at[l]
      <4>1. \A r \in D : at[r] # new
        BY <3>1, <1>2, <1>4
      <4>2. n(new) = 0 /\ m(new) = n(new) + 1
        BY <4>1, <2>0, <1>8
      <4> QED BY <3>1, <4>2, <2>1, <1>2
    <3>2. CASE new = at[l]
      <4>1. m(new) = n(new) + 1
        BY <2>0, <1>8
      <4> QED BY <3>2, <4>1, <2>1, <1>2
    <3>3. CASE new > at[l]
      <4>1. at[l] # new /\ at[l] # old /\ ~(new < at[l])
        BY <3>3, <1>2, <1>10
      <4> QED BY <4>1, <2>0, <2>1, <1>8
    <3> QED BY <3>1, <3>2, <3>3, <1>2
  <2>5. m(then[y]) = IF old = at[h] THEN n(at[h]) - 1 ELSE n(at[h])
    <3>1. at[h] # new
      BY <1>2, <1>4, <1>10
    <3> QED BY <3>1, <2>0, <2>2, <1>8
  <2>6. Moved(old, new, a) = [lo |-> IF new < at[l] THEN new ELSE at[l], hi |-> at[h],
           onLo |-> CASE new < at[l] -> 1 [] new = at[l] -> n(at[l]) + 1 [] OTHER -> n(at[l]),
           onHi |-> IF old = at[h] THEN n(at[h]) - 1 ELSE n(at[h])]
    <3> HIDE DEF a
    <3> QED BY <1>6, <1>10 DEF Moved
  <2>7. Axis(then) = [lo |-> then[x], hi |-> then[y], onLo |-> m(then[x]), onHi |-> m(then[y])]
    BY <2>3 DEF Between, m
  <2>8. Axis(then) = Moved(old, new, a)
    <3> HIDE DEF a, old, new
    <3> QED BY <2>1, <2>2, <2>4, <2>5, <2>6, <2>7
  <2> QED BY <2>8
<1>11. CASE new > old
  <2>0. new # old /\ old \in 1 .. N /\ ~(new < old)
    BY <1>11, <1>2
  <2>1. PICK y \in D : /\ \A r \in D : then[r] <= then[y]
                       /\ then[y] = IF new > at[h] THEN new ELSE at[h]
    <3>1. CASE new > at[h]
      BY <3>1, <1>1, <1>2, <1>4
    <3>2. CASE new <= at[h]
      <4>1. h # p
        BY <3>2, <1>2, <1>11
      <4> QED BY <4>1, <3>2, <1>1, <1>2, <1>4
    <3> QED BY <3>1, <3>2, <1>2
  <2>2. PICK x \in D : /\ \A r \in D : then[x] <= then[r]
                       /\ then[x] = at[l]
    <3>1. PICK x \in D \ {p} : at[x] = at[l]
      <4>1. CASE old # at[l]
        BY <4>1
      <4>2. CASE old = at[l]
        <5>1. n(at[l]) # 1
          BY <4>2, <1>6, <1>11 DEF LeavesEdgeBare
        <5> QED BY <4>2, <5>1, <2>0, <1>8
      <4> QED BY <4>1, <4>2
    <3>2. at[l] <= new
      BY <1>2, <1>4, <1>11
    <3> QED BY <3>1, <3>2, <1>1, <1>4
  <2>3. Axis(then) = Between(then, x, y)
    <3>1. Ends(then, x, y)
      BY <2>1, <2>2, <1>1 DEF Ends
    <3> QED BY <3>1, <1>7
  <2>4. m(then[y]) = CASE new > at[h] -> 1 [] new = at[h] -> n(at[h]) + 1 [] OTHER -> n(at[h])
    <3>1. CASE new > at[h]
      <4>1. \A r \in D : at[r] # new
        BY <3>1, <1>2, <1>4
      <4>2. n(new) = 0 /\ m(new) = n(new) + 1
        BY <4>1, <2>0, <1>8
      <4> QED BY <3>1, <4>2, <2>1, <1>2
    <3>2. CASE new = at[h]
      <4>1. m(new) = n(new) + 1
        BY <2>0, <1>8
      <4> QED BY <3>2, <4>1, <2>1, <1>2
    <3>3. CASE new < at[h]
      <4>1. at[h] # new /\ at[h] # old /\ ~(new > at[h])
        BY <3>3, <1>2, <1>11
      <4> QED BY <4>1, <2>0, <2>1, <1>8
    <3> QED BY <3>1, <3>2, <3>3, <1>2
  <2>5. m(then[x]) = IF old = at[l] THEN n(at[l]) - 1 ELSE n(at[l])
    <3>1. at[l] # new
      BY <1>2, <1>4, <1>11
    <3> QED BY <3>1, <2>0, <2>2, <1>8
  <2>6. Moved(old, new, a) = [lo |-> at[l], hi |-> IF new > at[h] THEN new ELSE at[h],
           onLo |-> IF old = at[l] THEN n(at[l]) - 1 ELSE n(at[l]),
           onHi |-> CASE new > at[h] -> 1 [] new = at[h] -> n(at[h]) + 1 [] OTHER -> n(at[h])]
    <3> HIDE DEF a
    <3> QED BY <1>6, <1>11, <2>0 DEF Moved
  <2>7. Axis(then) = [lo |-> then[x], hi |-> then[y], onLo |-> m(then[x]), onHi |-> m(then[y])]
    BY <2>3 DEF Between, m
  <2>8. Axis(then) = Moved(old, new, a)
    <3> HIDE DEF a, old, new
    <3> QED BY <2>1, <2>2, <2>4, <2>5, <2>6, <2>7
  <2> QED BY <2>8
<1>12. new \in Int /\ old \in Int
  BY <1>2
<1> QED BY <1>9, <1>10, <1>11, <1>12

-----------------------------------------------------------------------------
(* Boxes of nets *)

\* A net has finitely many pins, and each is a pin of a block.
LEMMA PinFacts ==
  ASSUME NEW n
  PROVE  /\ IsFiniteSet(Pins(n))
         /\ \A q \in Pins(n) : q[1] \in Block /\ q[2] \in DOMAIN NetsOf[q[1]] /\ NetsOf[q[1]][q[2]] = n
                               /\ q = << q[1], q[2] >>
         /\ \A b \in Block : \A k \in DOMAIN NetsOf[b] : NetsOf[b][k] = n => << b, k >> \in Pins(n)
<1> DEFINE all == UNION { {b} \X DOMAIN NetsOf[b] : b \in Block }
           of == [b \in Block |-> {b} \X DOMAIN NetsOf[b]]
           S == { {b} \X DOMAIN NetsOf[b] : b \in Block }
<1>1. Pins(n) = { p \in all : NetsOf[p[1]][p[2]] = n }
  BY DEF Pins
<1>2. IsFiniteSet(Block)
  BY NetlistAssumption, FS_Interval DEF Block
<1>3. \A b \in Block : IsFiniteSet({b} \X DOMAIN NetsOf[b])
  <2> TAKE b \in Block
  <2>1. NetsOf[b] \in Seq(Net)
    BY NetlistAssumption
  <2>2. DOMAIN NetsOf[b] = 1 .. Len(NetsOf[b]) /\ Len(NetsOf[b]) \in Nat
    BY <2>1
  <2>3. IsFiniteSet(DOMAIN NetsOf[b])
    BY <2>2, FS_Interval
  <2> QED BY <2>3, FS_Singleton, FS_Product
<1>4. IsFiniteSet(S)
  <2>1. of \in Surjection(Block, S)
    BY DEF Surjection
  <2> HIDE DEF S, of
  <2> QED BY <2>1, <1>2, FS_Surjection
<1>5. IsFiniteSet(all)
  <2>1. \A T \in S : IsFiniteSet(T)
    BY <1>3
  <2> QED BY <2>1, <1>4, FS_UNION
<1>6. IsFiniteSet(Pins(n))
  <2> HIDE DEF all
  <2>1. Pins(n) \in SUBSET all
    BY <1>1
  <2> QED BY <2>1, <1>5, FS_Subset
<1>7. \A q \in all : \E b \in Block : \E k \in DOMAIN NetsOf[b] : q = << b, k >>
  OBVIOUS
<1>8. \A b \in Block : \A k \in DOMAIN NetsOf[b] : << b, k >> \in all
  OBVIOUS
<1> HIDE DEF all
<1>9. ASSUME NEW q \in Pins(n)
      PROVE  q[1] \in Block /\ q[2] \in DOMAIN NetsOf[q[1]] /\ NetsOf[q[1]][q[2]] = n /\ q = << q[1], q[2] >>
  BY <1>1, <1>7
<1>10. ASSUME NEW b \in Block, NEW k \in DOMAIN NetsOf[b], NetsOf[b][k] = n
       PROVE  << b, k >> \in Pins(n)
  BY <1>1, <1>8, <1>10
<1> QED BY <1>6, <1>9, <1>10

\* A position is counted within the core.
LEMMA ClipFacts ==
  ASSUME NEW l \in Coord
  PROVE  ClipX(l) \in 1 .. NX /\ ClipY(l) \in 1 .. NY
<1>1. ASSUME NEW v \in Int, NEW n \in Nat \ {0}
      PROVE  Clip(v, n) \in 1 .. n
  <2> DEFINE m == Min({v, n})
  <2>1. m \in {v, n} /\ m <= n
    <3>1. \E x \in {v, n} : \A y \in {v, n} : x =< y
      OBVIOUS
    <3>2. m \in {v, n} /\ \A y \in {v, n} : m =< y
      BY <3>1 DEF Min
    <3> QED BY <3>2
  <2> HIDE DEF m
  <2> DEFINE M == Max({1, m})
  <2>2. M \in {1, m} /\ \A y \in {1, m} : M >= y
    <3>1. \E x \in {1, m} : \A y \in {1, m} : x >= y
      BY <2>1
    <3> QED BY <3>1 DEF Max
  <2>3. Clip(v, n) = M
    BY DEF Clip, m
  <2> HIDE DEF M
  <2> QED BY <2>1, <2>2, <2>3
<1>2. l[1] \in Int /\ l[2] \in Int
  BY DEF Coord
<1>3. NX \in Nat \ {0} /\ NY \in Nat \ {0}
  BY GridAssumption
<1> QED BY <1>1, <1>2, <1>3 DEF ClipX, ClipY

\* The box computed from scratch depends on the positions of the pins of the net only.
LEMMA ScratchSame ==
  ASSUME NEW n, NEW f, NEW g, \A q \in Pins(n) : f[q] = g[q]
  PROVE  ScratchAt(n, f) = ScratchAt(n, g)
<1>1. [q \in Pins(n) |-> ClipX(f[q])] = [q \in Pins(n) |-> ClipX(g[q])]
  OBVIOUS
<1>2. [q \in Pins(n) |-> ClipY(f[q])] = [q \in Pins(n) |-> ClipY(g[q])]
  OBVIOUS
<1> QED BY <1>1, <1>2 DEF ScratchAt, AxisX, AxisY

\* When each pin is where its block is, it is the box of the blocks.
LEMMA ScratchIs ==
  ASSUME NEW n, NEW at, NEW f, \A q \in Pins(n) : f[q] = at[q[1]]
  PROVE  FromScratch(n, at) = ScratchAt(n, f)
<1>1. [q \in Pins(n) |-> ClipX(f[q])] = [q \in Pins(n) |-> ClipX(at[q[1]])]
  OBVIOUS
<1>2. [q \in Pins(n) |-> ClipY(f[q])] = [q \in Pins(n) |-> ClipY(at[q[1]])]
  OBVIOUS
<1> QED BY <1>1, <1>2 DEF ScratchAt, AxisX, AxisY, FromScratch

\* A net none of whose blocks moved has the same box.
LEMMA BoxSame ==
  ASSUME NEW n, NEW at, NEW then, \A q \in Pins(n) : at[q[1]] = then[q[1]]
  PROVE  FromScratch(n, at) = FromScratch(n, then) /\ BoundingBox(n, at) = BoundingBox(n, then)
<1> DEFINE f == [q \in Pins(n) |-> then[q[1]]]
<1>1. FromScratch(n, then) = ScratchAt(n, f)
  BY ScratchIs
<1>2. FromScratch(n, at) = ScratchAt(n, f)
  BY ScratchIs
<1> QED BY <1>1, <1>2 DEF BoundingBox

\* A box that is updated for one pin is the box of the pins then.
LEMMA ScratchMoved ==
  ASSUME NEW n, NEW f \in [Pins(n) -> Coord], NEW g \in [Pins(n) -> Coord], NEW q \in Pins(n),
         \A r \in Pins(n) \ {q} : g[r] = f[r],
         ~LeavesEdgeBare(ClipX(f[q]), ClipX(g[q]), AxisX(n, f)),
         ~LeavesEdgeBare(ClipY(f[q]), ClipY(g[q]), AxisY(n, f))
  PROVE  /\ AxisX(n, g) = Moved(ClipX(f[q]), ClipX(g[q]), AxisX(n, f))
         /\ AxisY(n, g) = Moved(ClipY(f[q]), ClipY(g[q]), AxisY(n, f))
<1> DEFINE D == Pins(n)
           fx == [r \in Pins(n) |-> ClipX(f[r])]
           gx == [r \in Pins(n) |-> ClipX(g[r])]
           fy == [r \in Pins(n) |-> ClipY(f[r])]
           gy == [r \in Pins(n) |-> ClipY(g[r])]
<1>1. IsFiniteSet(D) /\ NX \in Nat /\ NY \in Nat
  BY PinFacts, GridAssumption
<1>2. \A r \in D : ClipX(f[r]) \in 1 .. NX /\ ClipX(g[r]) \in 1 .. NX
                   /\ ClipY(f[r]) \in 1 .. NY /\ ClipY(g[r]) \in 1 .. NY
  BY ClipFacts
<1>3. fx \in [D -> 1 .. NX] /\ gx \in [D -> 1 .. NX] /\ fy \in [D -> 1 .. NY] /\ gy \in [D -> 1 .. NY]
  BY <1>2
<1>4. \A r \in D \ {q} : gx[r] = fx[r] /\ gy[r] = fy[r]
  OBVIOUS
<1>5. fx[q] = ClipX(f[q]) /\ gx[q] = ClipX(g[q]) /\ fy[q] = ClipY(f[q]) /\ gy[q] = ClipY(g[q])
  OBVIOUS
<1>6. AxisX(n, f) = Axis(fx) /\ AxisX(n, g) = Axis(gx) /\ AxisY(n, f) = Axis(fy) /\ AxisY(n, g) = Axis(gy)
  BY DEF AxisX, AxisY
<1>7. q \in D
  OBVIOUS
<1> HIDE DEF D, fx, gx, fy, gy
<1>8. ~LeavesEdgeBare(fx[q], gx[q], Axis(fx)) /\ ~LeavesEdgeBare(fy[q], gy[q], Axis(fy))
  BY <1>5, <1>6
<1>9. Axis(gx) = Moved(fx[q], gx[q], Axis(fx))
  BY <1>1, <1>3, <1>4, <1>7, <1>8, AxisMoved, SMTT(30)
<1>10. Axis(gy) = Moved(fy[q], gy[q], Axis(fy))
  BY <1>1, <1>3, <1>4, <1>7, <1>8, AxisMoved
<1> QED BY <1>5, <1>6, <1>9, <1>10

\* A pin of a moved block is given by the move and the pin of the block.
LEMMA MovedPinFacts ==
  /\ \A p \in MovedPins : /\ p[1] \in DOMAIN moves /\ p[2] \in DOMAIN NetsOf[moves[p[1]].block]
                          /\ p = << p[1], p[2] >>
  /\ \A i \in DOMAIN moves : \A k \in DOMAIN NetsOf[moves[i].block] : << i, k >> \in MovedPins
BY DEF MovedPins

\* Among pins of moved blocks there is one that none comes before.
LEMMA FirstPin ==
  ASSUME IInv, Swapping, NEW T \in SUBSET MovedPins, T # {}
  PROVE  \E p \in T : \A q \in T : ~Before(q, p)
<1>1. \A p \in T : p[1] \in Nat /\ p[2] \in Nat /\ p = << p[1], p[2] >>
  <2> TAKE p \in T
  <2>1. p[1] \in DOMAIN moves /\ p[2] \in DOMAIN NetsOf[moves[p[1]].block] /\ p = << p[1], p[2] >>
    BY MovedPinFacts
  <2>2. p[1] \in Nat /\ moves[p[1]].block \in Block
    BY <2>1, MovedFacts
  <2>3. NetsOf[moves[p[1]].block] \in Seq(Net)
    BY <2>2, NetlistAssumption
  <2> HIDE DEF MovedPins
  <2>4. \A s \in Seq(Net) : DOMAIN s \subseteq Nat
    OBVIOUS
  <2> QED BY <2>1, <2>2, <2>3, <2>4
<1> DEFINE I == { p[1] : p \in T }
<1>2. I \in SUBSET Nat /\ I # {}
  BY <1>1
<1>3. PICK i \in I : \A j \in I : i <= j
  <2> HIDE DEF I
  <2> QED BY <1>2, Least
<1> DEFINE K == { k \in Nat : << i, k >> \in T }
<1>4. K \in SUBSET Nat /\ K # {}
  <2>1. PICK p \in T : p[1] = i
    BY <1>3
  <2>2. p[2] \in K
    BY <2>1, <1>1
  <2> QED BY <2>2
<1>5. PICK k \in K : \A m \in K : k <= m
  <2> HIDE DEF K
  <2> QED BY <1>4, Least
<1>6. << i, k >> \in T /\ i \in Nat /\ k \in Nat
  BY <1>2, <1>3, <1>5
<1>7. ASSUME NEW q \in T
      PROVE  ~Before(q, << i, k >>)
  <2>1. q[1] \in Nat /\ q[2] \in Nat /\ q = << q[1], q[2] >> /\ i <= q[1]
    BY <1>1, <1>3
  <2>2. q[1] = i => k <= q[2]
    BY <2>1, <1>5
  <2> QED BY <2>1, <2>2, <1>6 DEF Before
<1> QED BY <1>6, <1>7

\* The boxes that are tried at the end of the loop over the pins are those of the blocks
\* as they are now, and a net that was not tried has no pin that moved.
LEMMA Settled ==
  ASSUME IInv, BInv, Assessing, NEW n \in Net
  PROVE  IF n \in Range(affected) THEN newBox[n] = BoundingBox(n, block)
                                  ELSE box[n] = BoundingBox(n, block)
<1>1. pc = "bound" /\ pending = {} /\ Swapping
  BY DEF Assessing, Swapping
<1>2. /\ DOMAIN affected \subseteq MovedPins
      /\ \A p \in DOMAIN affected : affected[p] = NetOf(p)
      /\ \A p \in MovedPins : NetOf(p) \in Range(affected)
      /\ updated[n] \in {"not_yet", "once", "scratch"}
  BY <1>1 DEF BInv, FlagsInv
<1>3. CASE n \in Range(affected)
  <2>1. PICK p \in DOMAIN affected : affected[p] = n
    BY <1>3 DEF Range
  <2>2. Applied(n)
    BY <2>1, <1>1, <1>2 DEF Applied
  <2>3. CASE ~Large(n)
    BY <2>2, <2>3, <1>1, <1>3 DEF BInv, TrialInv
  <2>4. CASE Large(n)
    <3>1. updated[n] # "not_yet" /\ BoundingBox(n, block) = FromScratch(n, block)
      BY <2>2, <2>4, <1>1 DEF BInv, TrialInv, BoundingBox
    <3>2. CASE updated[n] = "once"
      <4>1. newBox[n] = ScratchAt(n, Known(n))
        BY <3>2, <2>4, <1>1 DEF BInv, TrialInv
      <4>2. \A q \in Pins(n) : Known(n)[q] = block[q[1]]
        BY <1>1 DEF Known, IsPending
      <4> QED BY <4>1, <4>2, <3>1, <1>3, ScratchIs
    <3>3. CASE updated[n] = "scratch"
      BY <3>1, <3>3, <2>4, <1>1, <1>3 DEF BInv, TrialInv
    <3> QED BY <3>1, <3>2, <3>3, <1>2
  <2> QED BY <2>3, <2>4
<1>4. CASE n \notin Range(affected)
  <2>1. box[n] = BoundingBox(n, Restored)
    BY <1>1 DEF BInv, BoxInv
  <2>2. ASSUME NEW q \in Pins(n)
        PROVE  Restored[q[1]] = block[q[1]]
    <3>1. q[1] \in Block /\ q[2] \in DOMAIN NetsOf[q[1]] /\ NetsOf[q[1]][q[2]] = n
      BY PinFacts
    <3>2. ASSUME NEW i \in DOMAIN moves, moves[i].block = q[1]
          PROVE  FALSE
      <4>1. << i, q[2] >> \in MovedPins /\ NetOf(<< i, q[2] >>) = n
        BY <3>1, <3>2, MovedPinFacts DEF NetOf
      <4> QED BY <4>1, <1>2, <1>4
    <3> QED BY <3>1, <3>2, <1>1, MovedFacts DEF IsMoved
  <2> QED BY <2>1, <2>2, <1>4, BoxSame
<1> QED BY <1>3, <1>4

-----------------------------------------------------------------------------
(* The boxes, step by step *)

\* At the start no box is known and no flag is set.
LEMMA InitBoxes == ASSUME Init PROVE BInv
<1>1. FlagsInv
  BY DEF Init, FlagsInv
<1>2. BoxInv /\ TrialInv
  BY DEF Init, BoxInv, TrialInv, Swapping
<1> QED BY <1>1, <1>2 DEF BInv

\* Outside the loop over the pins no flag is set.
LEMMA FlagsKept ==
  ASSUME BInv, UNCHANGED trial, pc # "bound", pc' # "bound"
  PROVE  FlagsInv' /\ TrialInv'
<1>1. UNCHANGED << newBox, updated, marked, affected, pending >>
  BY DEF trial
<1>2. FlagsInv'
  BY <1>1 DEF BInv, FlagsInv
<1> QED BY <1>2 DEF TrialInv

\* Steps that leave boxes and blocks as they are.
LEMMA SameBoxes ==
  ASSUME BInv, UNCHANGED << block, box, trial >>, pc # "bound", pc' # "bound",
         \/ pc' \in {"macros", "blocks", "cost", "thrown"}
         \/ pc' \in {"idle", "commit"} /\ pc \in {"idle", "commit"}
  PROVE  BInv'
<1>1. FlagsInv' /\ TrialInv'
  BY FlagsKept
<1>2. BoxInv'
  BY DEF BInv, BoxInv, Swapping
<1> QED BY <1>1, <1>2 DEF BInv

\* The initial placement, and the cost computed from it.
LEMMA PlacingBoxes ==
  ASSUME BInv, PlaceMacro \/ MacrosPlaced \/ PlaceBlock \/ ReadPads \/ CompBBCost
  PROVE  BInv'
<1>1. /\ UNCHANGED trial /\ pc \notin {"bound"}
      /\ pc' \in {"macros", "blocks", "cost", "thrown"} \/ CompBBCost
  BY DEF PlaceMacro, MacrosPlaced, PlaceBlock, ReadPads, CompBBCost
<1>2. CASE CompBBCost
  <2>1. /\ pc' = "idle" /\ box' = [n \in Net |-> BoundingBox(n, block)] /\ block' = block
    BY <1>2 DEF CompBBCost, where
  <2>2. BoxInv'
    BY <2>1 DEF BoxInv, Swapping
  <2>3. FlagsInv' /\ TrialInv'
    BY <1>1, <2>1, FlagsKept
  <2> QED BY <2>2, <2>3 DEF BInv
<1>3. CASE ~CompBBCost
  <2>1. pc' \in {"macros", "blocks", "cost", "thrown"}
    BY <1>1, <1>3
  <2>2. FlagsInv' /\ TrialInv'
    BY <1>1, <2>1, FlagsKept
  <2>3. BoxInv'
    BY <2>1 DEF BoxInv, Swapping
  <2> QED BY <2>2, <2>3 DEF BInv
<1> QED BY <1>2, <1>3

\* A swap that starts: nothing has moved yet.
LEMMA PickBoxes == ASSUME IInv, BInv, PickSwap PROVE BInv'
<1>1. /\ pc = "idle" /\ pc' = "affect" /\ UNCHANGED << block, box, moves, trial >>
  BY DEF PickSwap, where, costs
<1>2. moves = << >> /\ block \in [Block -> Coord]
  BY <1>1 DEF IInv, RestInv, Resting, TInv
<1>3. Restored' = block
  BY <1>1, <1>2 DEF Restored
<1>4. BoxInv'
  BY <1>1, <1>3 DEF BInv, BoxInv, Swapping
<1> QED BY <1>1, <1>4, FlagsKept DEF BInv

\* Blocks that move do not change where they came from.
LEMMA SetupBoxes == ASSUME IInv, BInv, SetupBlocksAffected PROVE BInv'
<1>1. /\ pc = "affect" /\ pc' = "affect" /\ UNCHANGED << box, trial >>
  BY DEF SetupBlocksAffected, costs
<1>2. Restored' = Restored
  BY SetupStep
<1>3. BoxInv'
  BY <1>1, <1>2 DEF BInv, BoxInv, Swapping
<1> QED BY <1>1, <1>3, FlagsKept DEF BInv

\* A swap that is given up half-way.
LEMMA AbortBoxes == ASSUME BInv, Abort PROVE BInv'
<1>1. /\ pc = "affect" /\ pc' = "idle" /\ UNCHANGED << box, trial >> /\ block' = Restored
  BY DEF Abort, EndSwap, costs
<1>2. BoxInv'
  BY <1>1 DEF BInv, BoxInv, Swapping
<1> QED BY <1>1, <1>2, FlagsKept DEF BInv

\* Moves taken over into the grid, and the end of the swap.
LEMMA CommitBoxes == ASSUME BInv, Commit \/ Accepted \/ Freeze PROVE BInv'
<1>1. /\ UNCHANGED << block, box, trial >> /\ pc \in {"commit", "idle"} /\ pc' \in {"commit", "idle"}
  BY DEF Commit, Accepted, Freeze, EndSwap, where, costs
<1> QED BY <1>1, SameBoxes

\* check_place computes every box anew, and keeps the pins on the edges.
LEMMA CheckBoxes == ASSUME BInv, CheckPlace PROVE BInv'
<1>1. /\ pc = "idle" /\ pc' \in {"placed", "inconsistent"} /\ UNCHANGED << block, trial >>
      /\ box' = [n \in Net |-> KeepEdges(FromScratch(n, block), box[n])]
  BY DEF CheckPlace, where
<1>2. \A n \in Net : box[n] = BoundingBox(n, block)
  BY <1>1 DEF BInv, BoxInv
<1>3. ASSUME NEW n \in Net  PROVE box'[n] = BoundingBox(n, block)
  <2>1. box'[n] = KeepEdges(FromScratch(n, block), BoundingBox(n, block))
    BY <1>1, <1>2
  <2>2. KeepEdges(FromScratch(n, block), BoundingBox(n, block)) = BoundingBox(n, block)
    <3>1. CASE Large(n)
      <4> DEFINE fx == Axis([p \in Pins(n) |-> ClipX(block[p[1]])])
                 fy == Axis([p \in Pins(n) |-> ClipY(block[p[1]])])
      <4>1. FromScratch(n, block) = [x |-> fx, y |-> fy] /\ BoundingBox(n, block) = FromScratch(n, block)
        BY <3>1 DEF FromScratch, BoundingBox
      <4>2. \A f : Axis(f) = [lo |-> Axis(f).lo, hi |-> Axis(f).hi,
                              onLo |-> Axis(f).onLo, onHi |-> Axis(f).onHi]
        BY DEF Axis
      <4>3. /\ fx = [lo |-> fx.lo, hi |-> fx.hi, onLo |-> fx.onLo, onHi |-> fx.onHi]
            /\ fy = [lo |-> fy.lo, hi |-> fy.hi, onLo |-> fy.onLo, onHi |-> fy.onHi]
        <5>1. \A f : Axis(f) = [lo |-> Axis(f).lo, hi |-> Axis(f).hi,
                                onLo |-> Axis(f).onLo, onHi |-> Axis(f).onHi]
          BY <4>2
        <5> QED BY Zenon, <5>1
      <4> HIDE DEF fx, fy
      <4> QED BY <4>1, <4>3 DEF KeepEdges
    <3>2. CASE ~Large(n)
      BY <3>2 DEF BoundingBox, KeepEdges
    <3> QED BY <3>1, <3>2
  <2> QED BY <2>1, <2>2
<1>4. BoxInv'
  BY <1>1, <1>3 DEF BoxInv, Swapping
<1> QED BY <1>1, <1>4, FlagsKept DEF BInv

\* The nets of the moved pins are collected: each one, and each once.
LEMMA FindBoxes == ASSUME IInv, BInv, FindAffectedNets PROVE BInv'
<1>1. /\ pc = "affect" /\ pc' = "bound" /\ Swapping
      /\ UNCHANGED << block, box, moves, newBox, updated >>
      /\ pending' = MovedPins /\ affected' = UnmarkedNets(MovedPins)
      /\ marked' = marked \cup Range(affected')
  BY DEF FindAffectedNets, where, costs, swap, Swapping
<1>2. marked = {} /\ \A n \in Net : updated[n] = "not_yet"
  BY <1>1 DEF BInv, FlagsInv
<1>3. MovedPins' = MovedPins /\ Restored' = Restored /\ \A p : NetOf(p)' = NetOf(p)
  BY <1>1 DEF MovedPins, Restored, NetOf
<1> DEFINE new(p) == \A q \in MovedPins : Before(q, p) => NetOf(q) # NetOf(p)
<1>4. affected' = [p \in { p \in MovedPins : new(p) } |-> NetOf(p)]
  <2>1. \A p \in MovedPins : new(p) <=>
           NetOf(p) \notin marked /\ \A q \in MovedPins : Before(q, p) => NetOf(q) # NetOf(p)
    BY <1>2
  <2> QED BY <1>1, <1>2, <2>1 DEF UnmarkedNets
<1> HIDE DEF new
<1>5. DOMAIN affected' = { p \in MovedPins : new(p) } /\ \A p \in DOMAIN affected' : affected'[p] = NetOf(p)
  BY <1>4
<1>6. ASSUME NEW p \in DOMAIN affected', NEW q \in DOMAIN affected', NetOf(p) = NetOf(q)
      PROVE  p = q
  <2>1. ~Before(p, q) /\ ~Before(q, p) /\ p \in MovedPins /\ q \in MovedPins
    BY <1>5, <1>6 DEF new
  <2>2. \A r \in MovedPins : r[1] \in Nat /\ r[2] \in Nat /\ r = << r[1], r[2] >>
    <3> TAKE r \in MovedPins
    <3>1. r[1] \in DOMAIN moves /\ r[2] \in DOMAIN NetsOf[moves[r[1]].block] /\ r = << r[1], r[2] >>
      BY MovedPinFacts
    <3>2. r[1] \in Nat /\ NetsOf[moves[r[1]].block] \in Seq(Net)
      BY <3>1, <1>1, MovedFacts, NetlistAssumption
    <3>3. \A s \in Seq(Net) : DOMAIN s \subseteq Nat
      OBVIOUS
    <3> QED BY <3>1, <3>2, <3>3
  <2> QED BY <2>1, <2>2 DEF Before
<1>7. ASSUME NEW p \in MovedPins
      PROVE  NetOf(p) \in Range(affected')
  <2> DEFINE T == { q \in MovedPins : NetOf(q) = NetOf(p) }
  <2>1. PICK q \in T : \A r \in T : ~Before(r, q)
    <3>1. T \in SUBSET MovedPins /\ T # {}
      OBVIOUS
    <3> HIDE DEF T
    <3> QED BY <3>1, <1>1, FirstPin
  <2>2. q \in DOMAIN affected'
    BY <2>1, <1>5 DEF new
  <2> QED BY <2>1, <2>2, <1>5 DEF Range
<1>8. FlagsInv'
  <2>1. pending' \subseteq MovedPins' /\ DOMAIN affected' \subseteq MovedPins'
    BY <1>1, <1>3, <1>5
  <2>2. marked' = Range(affected')
    BY <1>1, <1>2
  <2>3. \A p \in MovedPins' : NetOf(p)' \in Range(affected')
    BY <1>3, <1>7
  <2>4. \A p \in DOMAIN affected' : affected'[p] = NetOf(p)'
    BY <1>3, <1>5
  <2>5. \A p, q \in DOMAIN affected' : affected'[p] = affected'[q] => p = q
    BY <1>5, <1>6
  <2>6. /\ updated' \in [Net -> {"not_yet", "once", "scratch"}] /\ newBox' = [n \in Net |-> newBox'[n]]
        /\ \A n \in Net : updated'[n] = "not_yet"
    BY <1>1, <1>2 DEF BInv, FlagsInv
  <2> QED BY <2>1, <2>2, <2>3, <2>4, <2>5, <2>6, <1>1 DEF FlagsInv, Range
<1>9. BoxInv'
  BY <1>1, <1>3 DEF BInv, BoxInv, Swapping
<1>10. TrialInv'
  <2>1. \A n \in Net : ~(Applied(n)') /\ updated'[n] = "not_yet"
    BY <1>1, <1>2, <1>3 DEF Applied
  <2> QED BY <2>1 DEF TrialInv
<1> QED BY <1>8, <1>9, <1>10 DEF BInv

\* The flags of the nets that were tried are reset, and no others were set.
LEMMA FlagsReset ==
  ASSUME BInv, pc = "bound", pc' # "bound", pending' = {}, affected' = << >>,
         marked' = marked \ Range(affected), newBox' = [n \in Net |-> NoBox],
         updated' = [n \in Net |-> IF n \in Range(affected) THEN "not_yet" ELSE updated[n]]
  PROVE  FlagsInv' /\ TrialInv'
<1>1. /\ marked = Range(affected) /\ updated \in [Net -> {"not_yet", "once", "scratch"}]
      /\ \A p \in MovedPins : NetOf(p) \in Range(affected)
      /\ \A n \in Net : updated[n] # "not_yet" => Applied(n)
  BY DEF BInv, FlagsInv
<1>2. ASSUME NEW n \in Net  PROVE updated'[n] = "not_yet"
  BY <1>1 DEF Applied
<1>3. FlagsInv'
  <2>1. marked' = {}
    BY <1>1
  <2>2. updated' \in [Net -> {"not_yet", "once", "scratch"}] /\ newBox' = [n \in Net |-> newBox'[n]]
    BY <1>1
  <2> QED BY <2>1, <2>2, <1>2 DEF FlagsInv
<1> QED BY <1>3 DEF TrialInv

\* UpdateBB for a pin of net n on the block of move m.
Apply(n, m) ==
  LET cur == CurrentBox(n)
      bare == \/ LeavesEdgeBare(ClipX(m.from), ClipX(m.to), cur.x)
              \/ LeavesEdgeBare(ClipY(m.from), ClipY(m.to), cur.y)
  IN  CASE ~Large(n) -> /\ newBox' = [newBox EXCEPT ![n] = BoundingBox(n, block)]
                        /\ UNCHANGED updated
        [] Large(n) /\ updated[n] = "scratch" -> UNCHANGED << newBox, updated >>
        [] Large(n) /\ updated[n] # "scratch" /\ bare ->
             /\ newBox' = [newBox EXCEPT ![n] = FromScratch(n, block)]
             /\ updated' = [updated EXCEPT ![n] = "scratch"]
        [] OTHER ->
             /\ newBox' = [newBox EXCEPT ![n] = [x |-> Moved(ClipX(m.from), ClipX(m.to), cur.x),
                                                 y |-> Moved(ClipY(m.from), ClipY(m.to), cur.y)]]
             /\ updated' = [updated EXCEPT ![n] = "once"]

\* One pin: the box of its net follows it, the other nets are not concerned.
LEMMA UpdateBoxes == ASSUME IInv, BInv, UpdateBB PROVE BInv'
<1>1. /\ pc = "bound" /\ pc' = "bound" /\ Swapping
      /\ UNCHANGED << block, box, moves, marked, affected >>
  BY DEF UpdateBB, where, costs, swap, Swapping
<1>2. \E p \in pending : Apply(NetOf(p), moves[p[1]]) /\ pending' = pending \ {p}
  BY DEF UpdateBB, Apply
<1>b. PICK p \in pending : Apply(NetOf(p), moves[p[1]]) /\ pending' = pending \ {p}
  BY <1>2
<1>a. PICK n, m, q0 :
        /\ n = NetOf(p) /\ m = moves[p[1]] /\ q0 = << m.block, p[2] >>
        /\ Apply(n, m) /\ pending' = pending \ {p}
  BY <1>b
<1> DEFINE f == Known(n)
           g == Known(n)'
           cur == CurrentBox(n)
           bare == \/ LeavesEdgeBare(ClipX(m.from), ClipX(m.to), cur.x)
                   \/ LeavesEdgeBare(ClipY(m.from), ClipY(m.to), cur.y)
<1>3. MovedPins' = MovedPins /\ Restored' = Restored /\ (\A q : NetOf(q)' = NetOf(q))
  BY <1>1 DEF MovedPins, Restored, NetOf
<1>4. /\ pending \subseteq MovedPins /\ p \in MovedPins
      /\ updated \in [Net -> {"not_yet", "once", "scratch"}] /\ newBox = [x \in Net |-> newBox[x]]
      /\ \A x \in Net : updated[x] # "not_yet" => Applied(x)
  BY <1>1 DEF BInv, FlagsInv
<1>5. /\ p[1] \in DOMAIN moves /\ p[2] \in DOMAIN NetsOf[m.block] /\ m.block \in Block
      /\ block[m.block] = m.to /\ Restored[m.block] = m.from /\ n \in Net /\ q0 \in Pins(n)
      /\ n = NetsOf[m.block][p[2]] /\ p = << p[1], p[2] >>
  <2>1. p[1] \in DOMAIN moves /\ p[2] \in DOMAIN NetsOf[m.block] /\ p = << p[1], p[2] >>
    BY <1>a, <1>4, MovedPinFacts
  <2>2. m.block \in Block /\ block[m.block] = m.to /\ Restored[m.block] = m.from
    BY <2>1, <1>a, <1>1, MovedFacts
  <2>3. NetsOf[m.block] \in Seq(Net) /\ n = NetsOf[m.block][p[2]]
    BY <2>2, <1>a, NetlistAssumption DEF NetOf
  <2>4. n \in Net
    BY <2>1, <2>3
  <2> QED BY <2>1, <2>2, <2>3, <2>4, <1>a, PinFacts
<1>6. ASSUME NEW x, NEW q \in Pins(x), q # q0
      PROVE  IsPending(q)' <=> IsPending(q)
  <2>1. q = << q[1], q[2] >>
    BY PinFacts
  <2>2. \A r \in pending : moves[r[1]].block = q[1] /\ r[2] = q[2] => r # p
    BY <2>1, <1>6, <1>a
  <2> QED BY <2>2, <1>1, <1>a DEF IsPending
<1>7. IsPending(q0) /\ ~(IsPending(q0)')
  <2>1. q0[1] = m.block /\ q0[2] = p[2]
    BY <1>a
  <2>2. IsPending(q0)
    BY <2>1, <1>a DEF IsPending
  <2>3. ASSUME NEW r \in pending \ {p}, moves[r[1]].block = m.block, r[2] = p[2]
        PROVE  FALSE
    <3>1. r[1] \in DOMAIN moves /\ r = << r[1], r[2] >>
      BY <1>4, MovedPinFacts
    <3>2. r[1] = p[1]
      BY <3>1, <2>3, <1>a, <1>1, <1>5, MovedFacts
    <3> QED BY <3>1, <3>2, <2>3, <1>5
  <2>4. ~(IsPending(q0)')
    BY <2>1, <2>3, <1>1, <1>a DEF IsPending
  <2> QED BY <2>2, <2>4
<1>8. /\ Applied(n)'
      /\ \A x : x # n => (Applied(x)' <=> Applied(x))
  BY <1>a, <1>3, <1>4 DEF Applied
<1>9. \A x \in Net : x # n => newBox'[x] = newBox[x] /\ updated'[x] = updated[x]
  BY <1>a, <1>4 DEF Apply
<1>10. /\ updated' \in [Net -> {"not_yet", "once", "scratch"}] /\ newBox' = [x \in Net |-> newBox'[x]]
       /\ updated'[n] = "not_yet" => ~Large(n)
       /\ updated'[n] # "not_yet" => Applied(n)'
  BY <1>a, <1>4, <1>5, <1>8 DEF Apply
<1>11. FlagsInv'
  <2>1. \A x \in Net : updated'[x] # "not_yet" => Applied(x)'
    <3> TAKE x \in Net
    <3>1. CASE x = n
      BY <3>1, <1>10
    <3>2. CASE x # n
      BY <3>2, <1>4, <1>8, <1>9
    <3> QED BY <3>1, <3>2
  <2>2. pending' \subseteq MovedPins'
    BY <1>a, <1>3, <1>4
  <2>3. /\ DOMAIN affected' \subseteq MovedPins'
        /\ \A q \in DOMAIN affected' : affected'[q] = NetOf(q)'
        /\ \A q, r \in DOMAIN affected' : affected'[q] = affected'[r] => q = r
        /\ \A q \in MovedPins' : NetOf(q)' \in Range(affected')
        /\ marked' = Range(affected')
    BY <1>1, <1>3 DEF BInv, FlagsInv, Range
  <2> QED BY <2>1, <2>2, <2>3, <1>1, <1>10 DEF FlagsInv
<1>12. BoxInv'
  BY <1>1, <1>3 DEF BInv, BoxInv, Swapping
\* The nets that the pin is not one of.
<1>13. ASSUME NEW x \in Net, x # n
       PROVE  Known(x)' = Known(x)
  <2>1. q0 \notin Pins(x)
    BY <1>5, <1>13, PinFacts
  <2>2. \A q \in Pins(x) : IsPending(q)' <=> IsPending(q)
    BY <2>1, <1>6
  <2> QED BY <2>2, <1>1, <1>3 DEF Known
\* The net of the pin.
<1>14. /\ f \in [Pins(n) -> Coord] /\ g \in [Pins(n) -> Coord]
       /\ f[q0] = m.from /\ g[q0] = m.to /\ \A q \in Pins(n) \ {q0} : g[q] = f[q]
  <2>1. block \in [Block -> Coord] /\ Restored \in [Block -> Coord]
    BY <1>1, MovedFacts
  <2>2. \A q \in Pins(n) : q[1] \in Block
    BY PinFacts
  <2>3. f = [q \in Pins(n) |-> IF IsPending(q) THEN Restored[q[1]] ELSE block[q[1]]]
    BY DEF Known
  <2>4. g = [q \in Pins(n) |-> IF IsPending(q)' THEN Restored[q[1]] ELSE block[q[1]]]
    BY <1>1, <1>3 DEF Known
  <2>5. \A q \in Pins(n) \ {q0} : IsPending(q)' <=> IsPending(q)
    BY <1>6
  <2>6. q0[1] = m.block
    BY <1>a
  <2>7. q0 \in Pins(n) /\ block[m.block] = m.to /\ Restored[m.block] = m.from
    BY <1>5
  <2> HIDE DEF f, g
  <2>8. f \in [Pins(n) -> Coord] /\ f[q0] = m.from
    BY <2>1, <2>2, <2>3, <2>6, <2>7, <1>7
  <2>9. g \in [Pins(n) -> Coord] /\ g[q0] = m.to
    BY <2>1, <2>2, <2>4, <2>6, <2>7, <1>7
  <2>10. \A q \in Pins(n) \ {q0} : g[q] = f[q]
    BY <2>3, <2>4, <2>5
  <2> QED BY <2>8, <2>9, <2>10
<1>15. ASSUME Large(n), updated[n] # "scratch"
       PROVE  cur = ScratchAt(n, f)
  <2>1. CASE updated[n] = "once"
    BY <2>1, <1>1, <1>5, <1>15 DEF CurrentBox, BInv, TrialInv
  <2>2. CASE updated[n] = "not_yet"
    <3>1. cur = FromScratch(n, Restored)
      BY <2>2, <1>1, <1>5, <1>15 DEF CurrentBox, BInv, BoxInv, BoundingBox
    <3>2. \A r \in MovedPins : NetOf(r) = n => r \in pending
      BY <2>2, <1>1, <1>5, <1>15 DEF BInv, TrialInv, Applied
    <3>3. ASSUME NEW q \in Pins(n)
          PROVE  f[q] = Restored[q[1]]
      <4>1. q[1] \in Block /\ q[2] \in DOMAIN NetsOf[q[1]] /\ NetsOf[q[1]][q[2]] = n
        BY PinFacts
      <4>2. f[q] = IF IsPending(q) THEN Restored[q[1]] ELSE block[q[1]]
        BY DEF Known
      <4>3. CASE IsMoved(q[1])
        <5>1. PICK i \in DOMAIN moves : moves[i].block = q[1]
          BY <4>3 DEF IsMoved
        <5>2. << i, q[2] >> \in MovedPins /\ NetOf(<< i, q[2] >>) = n
          BY <4>1, <5>1, MovedPinFacts DEF NetOf
        <5>3. IsPending(q)
          BY <5>1, <5>2, <3>2 DEF IsPending
        <5> QED BY <4>2, <5>3
      <4>4. CASE ~IsMoved(q[1])
        BY <4>1, <4>2, <4>4, <1>1, MovedFacts
      <4> QED BY <4>3, <4>4
    <3> HIDE DEF f
    <3> QED BY <3>1, <3>3, ScratchIs
  <2> QED BY <2>1, <2>2, <1>4, <1>5, <1>15
<1>16. ASSUME Large(n), updated'[n] = "once"
       PROVE  newBox'[n] = ScratchAt(n, g)
  <2>1. /\ updated[n] # "scratch" /\ ~bare
        /\ newBox'[n] = [x |-> Moved(ClipX(m.from), ClipX(m.to), cur.x),
                         y |-> Moved(ClipY(m.from), ClipY(m.to), cur.y)]
    BY <1>a, <1>4, <1>5, <1>16 DEF Apply
  <2>2. cur.x = AxisX(n, f) /\ cur.y = AxisY(n, f)
    BY <2>1, <1>15, <1>16 DEF ScratchAt
  <2> HIDE DEF f, g, cur
  <2>3. /\ AxisX(n, g) = Moved(ClipX(m.from), ClipX(m.to), AxisX(n, f))
        /\ AxisY(n, g) = Moved(ClipY(m.from), ClipY(m.to), AxisY(n, f))
    BY <2>1, <2>2, <1>5, <1>14, ScratchMoved
  <2> QED BY <2>1, <2>2, <2>3 DEF ScratchAt
<1>17. ASSUME Large(n), updated'[n] = "scratch"
       PROVE  newBox'[n] = FromScratch(n, block)
  <2>1. CASE updated[n] = "scratch"
    BY <2>1, <1>1, <1>a, <1>5, <1>17 DEF BInv, TrialInv, Apply
  <2>2. CASE updated[n] # "scratch"
    BY <2>2, <1>a, <1>4, <1>5, <1>17 DEF Apply
  <2> QED BY <2>1, <2>2
<1>18. ASSUME ~Large(n)
       PROVE  newBox'[n] = BoundingBox(n, block)
  BY <1>a, <1>4, <1>5, <1>18 DEF Apply
<1>19. TrialInv'
  <2> SUFFICES ASSUME NEW x \in Net
               PROVE  /\ ~Large(x) /\ Applied(x)' => newBox'[x] = BoundingBox(x, block)
                      /\ Large(x) =>
                           /\ updated'[x] = "not_yet" => ~(Applied(x)')
                           /\ updated'[x] = "once"    => newBox'[x] = ScratchAt(x, Known(x)')
                           /\ updated'[x] = "scratch" => newBox'[x] = FromScratch(x, block)
    BY <1>1 DEF TrialInv
  <2>1. CASE x # n
    <3>1. newBox'[x] = newBox[x] /\ updated'[x] = updated[x] /\ (Applied(x)' <=> Applied(x)) /\ Known(x)' = Known(x)
      BY <2>1, <1>8, <1>9, <1>13
    <3> QED BY <3>1, <1>1 DEF BInv, TrialInv
  <2>2. CASE x = n
    <3>1. /\ ~Large(n) => newBox'[n] = BoundingBox(n, block)
          /\ Large(n) =>
               /\ updated'[n] # "not_yet"
               /\ updated'[n] = "once"    => newBox'[n] = ScratchAt(n, Known(n)')
               /\ updated'[n] = "scratch" => newBox'[n] = FromScratch(n, block)
      BY <1>10, <1>16, <1>17, <1>18
    <3> QED BY <3>1, <2>2
  <2> QED BY <2>1, <2>2
<1> QED BY <1>11, <1>12, <1>19 DEF BInv

\* A swap that is kept: the boxes tried become the boxes.
LEMMA AcceptBoxes == ASSUME IInv, BInv, Accept PROVE BInv'
<1>1. /\ pc = "bound" /\ pc' = "commit" /\ Assessing /\ UNCHANGED block /\ pending' = {}
      /\ box' = [n \in Net |->
           CASE n \notin Range(affected) -> box[n]
             [] n \in Range(affected) /\ Large(n) -> newBox[n]
             [] OTHER -> KeepEdges(newBox[n], box[n])]
      /\ marked' = marked \ Range(affected) /\ affected' = << >>
      /\ updated' = [n \in Net |-> IF n \in Range(affected) THEN "not_yet" ELSE updated[n]]
      /\ newBox' = [n \in Net |-> NoBox]
  BY DEF Accept, Assessing, ResetFlags, where
<1>2. \A n \in Net : box[n] = BoundingBox(n, Restored)
  BY <1>1 DEF BInv, BoxInv, Swapping
<1>3. ASSUME NEW n \in Net
      PROVE  box'[n] = BoundingBox(n, block)
  <2>1. CASE n \notin Range(affected)
    BY <2>1, <1>1, Settled
  <2>2. CASE n \in Range(affected) /\ Large(n)
    BY <2>2, <1>1, Settled
  <2>3. CASE n \in Range(affected) /\ ~Large(n)
    <3>1. newBox[n] = BoundingBox(n, block) /\ box'[n] = KeepEdges(newBox[n], box[n])
      BY <2>3, <1>1, Settled
    <3>2. /\ BoundingBox(n, block) = KeepEdges(FromScratch(n, block), NoBox)
          /\ box[n] = KeepEdges(FromScratch(n, Restored), NoBox)
      BY <2>3, <1>2 DEF BoundingBox
    <3>3. \A a, b : KeepEdges(KeepEdges(a, NoBox), KeepEdges(b, NoBox)) = KeepEdges(a, NoBox)
      BY DEF KeepEdges
    <3> QED BY <3>1, <3>2, <3>3
  <2> QED BY <2>1, <2>2, <2>3
<1>4. BoxInv'
  BY <1>1, <1>3 DEF BoxInv, Swapping
<1>5. FlagsInv' /\ TrialInv'
  BY <1>1, FlagsReset
<1> QED BY <1>4, <1>5 DEF BInv

\* A swap that is turned down: blocks go back to where the boxes have them.
LEMMA RejectBoxes == ASSUME IInv, BInv, Reject PROVE BInv'
<1>1. /\ pc = "bound" /\ pc' = "idle" /\ Assessing /\ block' = Restored /\ box' = box /\ pending' = {}
      /\ marked' = marked \ Range(affected) /\ affected' = << >>
      /\ updated' = [n \in Net |-> IF n \in Range(affected) THEN "not_yet" ELSE updated[n]]
      /\ newBox' = [n \in Net |-> NoBox]
  BY DEF Reject, Assessing, ResetFlags, EndSwap, costs
<1>2. BoxInv'
  BY <1>1 DEF BInv, BoxInv, Swapping
<1>3. FlagsInv' /\ TrialInv'
  BY <1>1, FlagsReset
<1> QED BY <1>2, <1>3 DEF BInv

\* Every step keeps the boxes.
LEMMA StepBoxes == ASSUME IInv, BInv, [Next]_vars PROVE BInv'
<1>1. CASE PlaceMacro \/ MacrosPlaced \/ PlaceBlock \/ ReadPads \/ CompBBCost
  BY <1>1, PlacingBoxes
<1>2. CASE PickSwap
  BY <1>2, PickBoxes
<1>3. CASE SetupBlocksAffected
  BY <1>3, SetupBoxes
<1>4. CASE Abort
  BY <1>4, AbortBoxes
<1>5. CASE FindAffectedNets
  BY <1>5, FindBoxes
<1>6. CASE UpdateBB
  BY <1>6, UpdateBoxes
<1>7. CASE Accept
  BY <1>7, AcceptBoxes
<1>8. CASE Commit \/ Accepted \/ Freeze
  BY <1>8, CommitBoxes
<1>9. CASE Reject
  BY <1>9, RejectBoxes
<1>10. CASE CheckPlace
  BY <1>10, CheckBoxes
<1>11. CASE UNCHANGED vars
  <2>1. /\ UNCHANGED << block, box, newBox, updated, marked, affected, moves, pending, pc >>
    BY <1>11 DEF vars, where, costs, trial, swap
  <2>2. /\ MovedPins' = MovedPins /\ Restored' = Restored /\ (\A p : NetOf(p)' = NetOf(p))
        /\ \A n : Known(n)' = Known(n)
    BY <2>1 DEF MovedPins, Restored, NetOf, Known, IsPending
  <2>3. \A n : Applied(n)' <=> Applied(n)
    BY <2>1, <2>2 DEF Applied
  <2>4. FlagsInv'
    BY <2>1, <2>2, <2>3 DEF BInv, FlagsInv, Range
  <2>5. BoxInv' /\ TrialInv'
    BY <2>1, <2>2, <2>3 DEF BInv, BoxInv, TrialInv, Swapping
  <2> QED BY <2>4, <2>5 DEF BInv
<1> QED BY <1>1, <1>2, <1>3, <1>4, <1>5, <1>6, <1>7, <1>8, <1>9, <1>10, <1>11 DEF Next

\* The bounding boxes are those of the blocks where they are, however they were
\* obtained: pin by pin, from scratch, or kept by a swap that was not
\* (place.c:2380-2593).
THEOREM BoxesKept == Spec => []BoxesAreRight
<1>1. Init => IInv /\ BInv
  BY InitInv, InitBoxes
<1>2. IInv /\ BInv /\ [Next]_vars => IInv' /\ BInv'
  BY StepInv, StepBoxes
<1>3. BInv => BoxesAreRight
  BY DEF BInv, BoxInv, BoxesAreRight
<1> QED BY <1>1, <1>2, <1>3, PTL DEF Spec

-----------------------------------------------------------------------------
(* The cost of the placement *)

\* The cost of the nets, and their sum.
CostInv ==
  pc \in {"idle", "affect", "bound", "commit"} =>
    /\ \A n \in Net : netCost[n] = GetNetCost(box[n])
    /\ IsTotal(bbCost, Net, [n \in Net |-> netCost[n]])

\* What SumFunction computes is the sum.
LEMMA SumIsTotal ==
  ASSUME NEW N, IsFiniteSet(N), NEW v \in [N -> Int]
  PROVE  IsTotal(SumFunction(v), N, v)
<1> DEFINE one(s) == CHOOSE x \in s : TRUE
           G(it) == [s \in SUBSET N |-> IF s = {} THEN 0 ELSE v[one(s)] + it[s \ {one(s)}]]
           w == CHOOSE it : it = G(it)
<1>1. DOMAIN v = N
  OBVIOUS
<1>2. SumFunction(v) = w[N]
  <2>1. SumFunction(v) = SumFunctionOnSet(v, N)
    BY Zenon, <1>1 DEF SumFunction
  <2>2. SumFunctionOnSet(v, N) = w[N]
    BY Zenon DEF SumFunctionOnSet, FoldFunctionOnSet, MapThenFoldSet
  <2> QED BY Zenon, <2>1, <2>2
<1>3. \A it : IsSum(it, N, v) <=> it = G(it)
  BY DEF IsSum
<1>4. \E it : it = G(it)
  <2>1. \E it : IsSum(it, N, v)
    BY SumExists
  <2> HIDE DEF G
  <2> QED BY <2>1, <1>3
<1>5. w = G(w)
  <2> HIDE DEF G
  <2> QED BY <1>4
<1>6. IsSum(w, N, v)
  <2> HIDE DEF w, G
  <2> QED BY <1>3, <1>5
<1> HIDE DEF w, G
<1> QED BY <1>2, <1>6 DEF IsTotal

\* The cost of a box is a number, and the pins on the edges do not count in it.
LEMMA BoxCost ==
  ASSUME NEW n \in Net, NEW at \in [Block -> Coord]
  PROVE  /\ GetNetCost(BoundingBox(n, at)) \in Int
         /\ \A b : GetNetCost(KeepEdges(FromScratch(n, at), b)) = GetNetCost(BoundingBox(n, at))
<1> DEFINE D == Pins(n)
           fx == [p \in Pins(n) |-> ClipX(at[p[1]])]
           fy == [p \in Pins(n) |-> ClipY(at[p[1]])]
<1>1. D # {}
  BY NetlistAssumption, PinFacts
<1>2. \A p \in D : at[p[1]] \in Coord
  BY PinFacts
<1>3. fx \in [D -> 1 .. NX] /\ fy \in [D -> 1 .. NY] /\ NX \in Nat /\ NY \in Nat
  BY <1>2, ClipFacts, GridAssumption
<1>4. FromScratch(n, at) = [x |-> Axis(fx), y |-> Axis(fy)]
  BY DEF FromScratch
<1> HIDE DEF D, fx, fy
<1>5. ASSUME NEW N \in Nat, NEW f \in [D -> 1 .. N]
      PROVE  Axis(f).lo \in Int /\ Axis(f).hi \in Int
  <2>1. PICK p \in D, q \in D : Ends(f, p, q)
    BY <1>1, AxisIs
  <2>2. Axis(f) = Between(f, p, q)
    BY <2>1, AxisIs
  <2> QED BY <2>2 DEF Between
<1>6. /\ Axis(fx).lo \in Int /\ Axis(fx).hi \in Int
      /\ Axis(fy).lo \in Int /\ Axis(fy).hi \in Int
  BY <1>3, <1>5
<1> DEFINE s == FromScratch(n, at)
           c == (s.x.hi - s.x.lo + 1) + (s.y.hi - s.y.lo + 1)
<1>7. c \in Int
  BY <1>4, <1>6
<1>8. \A b : GetNetCost(KeepEdges(s, b)) = c
  BY DEF GetNetCost, KeepEdges
<1>9. GetNetCost(s) = c
  BY DEF GetNetCost
<1> HIDE DEF s, c
<1>10. BoundingBox(n, at) = s \/ BoundingBox(n, at) = KeepEdges(s, NoBox)
  BY DEF BoundingBox, s
<1> QED BY <1>7, <1>8, <1>9, <1>10 DEF s

\* The costs of the nets as the blocks are now.
CostNow == [n \in Net |-> GetNetCost(BoundingBox(n, block))]

\* It is what check_place adds up.
LEMMA CostNowIs ==
  ASSUME block \in [Block -> Coord]
  PROVE  CostNow \in [Net -> Int] /\ NewBoxCost = SumFunction(CostNow)
<1>1. \A n \in Net : GetNetCost(BoundingBox(n, block)) \in Int
  BY BoxCost
<1>2. \A n \in Net : GetNetCost(KeepEdges(FromScratch(n, block), box[n])) = GetNetCost(BoundingBox(n, block))
  BY BoxCost
<1>3. [n \in Net |-> GetNetCost(KeepEdges(FromScratch(n, block), box[n]))] = CostNow
  BY <1>2 DEF CostNow
<1> QED BY <1>1, <1>3 DEF CostNow, NewBoxCost

\* Only finitely many pins move.
LEMMA MovedPinsFinite == ASSUME IInv, Swapping PROVE IsFiniteSet(MovedPins)
<1>1. DOMAIN moves = 1 .. Len(moves) /\ Len(moves) \in Nat /\ \A i \in DOMAIN moves : moves[i].block \in Block
  BY MovedFacts
<1>2. IsFiniteSet(DOMAIN moves)
  BY <1>1, FS_Interval
<1> DEFINE of == [i \in DOMAIN moves |-> {i} \X DOMAIN NetsOf[moves[i].block]]
           S == { {i} \X DOMAIN NetsOf[moves[i].block] : i \in DOMAIN moves }
<1>3. \A i \in DOMAIN moves : IsFiniteSet({i} \X DOMAIN NetsOf[moves[i].block])
  <2> TAKE i \in DOMAIN moves
  <2>1. NetsOf[moves[i].block] \in Seq(Net)
    BY <1>1, NetlistAssumption
  <2>2. DOMAIN NetsOf[moves[i].block] = 1 .. Len(NetsOf[moves[i].block]) /\ Len(NetsOf[moves[i].block]) \in Nat
    BY <2>1
  <2>3. IsFiniteSet(DOMAIN NetsOf[moves[i].block])
    BY <2>2, FS_Interval
  <2> QED BY <2>3, FS_Singleton, FS_Product
<1>4. IsFiniteSet(S)
  <2>1. of \in Surjection(DOMAIN moves, S)
    BY DEF Surjection
  <2> HIDE DEF S, of
  <2> QED BY <2>1, <1>2, FS_Surjection
<1>5. \A T \in S : IsFiniteSet(T)
  BY <1>3
<1>6. MovedPins = UNION S
  BY DEF MovedPins
<1> HIDE DEF S
<1> QED BY <1>4, <1>5, <1>6, FS_UNION

\* With the change that was worked out net by net, the cost is that of the blocks as
\* they are now.
LEMMA DeltaIsRight ==
  ASSUME IInv, BInv, CostInv, Assessing
  PROVE  /\ bbCost \in Int /\ Delta \in Int
         /\ NewBoxCost = bbCost + Delta
         /\ IsTotal(bbCost + Delta, Net, CostNow)
<1>1. pc = "bound" /\ Swapping /\ block \in [Block -> Coord] /\ Restored \in [Block -> Coord] /\ IsFiniteSet(Net)
  BY MovedFacts, NetlistAssumption DEF Assessing, Swapping
<1> DEFINE J == DOMAIN affected
           f == [n \in Net |-> netCost[n]]
           d == [p \in DOMAIN affected |-> GetNetCost(newBox[affected[p]]) - netCost[affected[p]]]
           aff == [p \in DOMAIN affected |-> affected[p]]
<1>2. /\ J \in SUBSET MovedPins /\ \A i, j \in J : affected[i] = affected[j] => i = j
      /\ \A p \in J : affected[p] = NetOf(p)
  BY <1>1 DEF BInv, FlagsInv
<1>3. IsFiniteSet(J)
  BY <1>1, <1>2, MovedPinsFinite, FS_Subset
<1>4. \A p \in J : affected[p] \in Net
  <2> SUFFICES ASSUME NEW p \in J PROVE affected[p] \in Net
    OBVIOUS
  <2>1. p[1] \in DOMAIN moves /\ p[2] \in DOMAIN NetsOf[moves[p[1]].block] /\ affected[p] = NetsOf[moves[p[1]].block][p[2]]
    BY <1>2, MovedPinFacts DEF NetOf
  <2>2. NetsOf[moves[p[1]].block] \in Seq(Net)
    BY <2>1, <1>1, MovedFacts, NetlistAssumption
  <2> QED BY <2>1, <2>2
<1>5. \A n \in Net : netCost[n] = GetNetCost(BoundingBox(n, Restored))
  BY <1>1 DEF CostInv, BInv, BoxInv
<1>6. f \in [Net -> Int] /\ CostNow \in [Net -> Int] /\ IsTotal(bbCost, Net, f)
  BY <1>1, <1>5, BoxCost, CostNowIs DEF CostInv
<1>7. \A p \in J : d[p] = CostNow[affected[p]] - f[affected[p]]
  <2> TAKE p \in J
  <2>1. affected[p] \in Range(affected) /\ affected[p] \in Net
    BY <1>4 DEF Range
  <2>2. newBox[affected[p]] = BoundingBox(affected[p], block)
    BY <2>1, Settled
  <2> QED BY <2>1, <2>2 DEF CostNow
<1>8. d \in [J -> Int]
  BY <1>4, <1>6, <1>7
<1>9. ASSUME NEW n \in Net, \A j \in J : affected[j] # n
      PROVE  CostNow[n] = f[n]
  <2>1. n \notin Range(affected)
    BY <1>9 DEF Range
  <2>2. box[n] = BoundingBox(n, block) /\ box[n] = BoundingBox(n, Restored)
    BY <2>1, <1>1, Settled DEF BInv, BoxInv
  <2> QED BY <2>2, <1>5 DEF CostNow
<1>10. aff \in [J -> Net] /\ \A p \in J : aff[p] = affected[p]
  BY <1>4
<1>11. Delta = SumFunction(d)
  BY DEF Delta
<1>12. NewBoxCost = SumFunction(CostNow)
  BY <1>1, CostNowIs
<1> HIDE DEF d, f, J, aff
<1>13. IsTotal(Delta, J, d)
  BY <1>3, <1>8, <1>11, SumIsTotal
<1>14. IsTotal(NewBoxCost, Net, CostNow)
  BY <1>1, <1>6, <1>12, SumIsTotal
<1>15. bbCost \in Int /\ Delta \in Int /\ NewBoxCost = bbCost + Delta
  <2>1. \A i, j \in J : aff[i] = aff[j] => i = j
    BY <1>2, <1>10
  <2>2. \A j \in J : d[j] = CostNow[aff[j]] - f[aff[j]]
    BY <1>7, <1>10
  <2>3. \A n \in Net : (\A j \in J : aff[j] # n) => CostNow[n] = f[n]
    BY <1>9, <1>10
  <2> DEFINE N == Net
             g == CostNow
             a == bbCost
             b == NewBoxCost
             c == Delta
  <2>4. Differs(N, f, g, J, aff, d)
    BY <2>1, <2>2, <2>3, <1>6, <1>8, <1>10 DEF Differs
  <2>5. IsTotal(a, N, f) /\ IsTotal(b, N, g) /\ IsTotal(c, J, d) /\ IsFiniteSet(N) /\ IsFiniteSet(J)
    BY <1>1, <1>3, <1>6, <1>13, <1>14
  <2> HIDE DEF N, g, a, b, c
  <2>6. a \in Int /\ c \in Int /\ b = a + c
    BY <2>4, <2>5, SumChange
  <2> QED BY <2>6 DEF a, b, c
<1> QED BY <1>14, <1>15

\* Every step keeps the costs.
LEMMA StepCost == ASSUME IInv, BInv, CostInv, [Next]_vars PROVE CostInv'
<1>1. CASE PlaceMacro \/ MacrosPlaced \/ PlaceBlock \/ ReadPads \/ CheckPlace
  <2>1. pc' \in {"macros", "blocks", "cost", "thrown", "placed", "inconsistent"}
    BY <1>1 DEF PlaceMacro, MacrosPlaced, PlaceBlock, ReadPads, CheckPlace
  <2> QED BY <2>1 DEF CostInv
<1>2. CASE CompBBCost
  <2>1. /\ UNCHANGED block /\ box' = [n \in Net |-> BoundingBox(n, block)]
        /\ netCost' = [n \in Net |-> GetNetCost(box'[n])] /\ bbCost' = SumFunction(netCost')
    BY <1>2 DEF CompBBCost, where
  <2>2. block \in [Block -> Coord] /\ IsFiniteSet(Net)
    BY NetlistAssumption DEF IInv, TInv
  <2>3. \A n \in Net : GetNetCost(box'[n]) \in Int
    BY <2>1, <2>2, BoxCost
  <2>4. netCost' \in [Net -> Int] /\ netCost' = [n \in Net |-> netCost'[n]]
    BY <2>1, <2>3
  <2>5. IsTotal(bbCost', Net, netCost')
    BY <2>1, <2>2, <2>4, SumIsTotal
  <2>6. \A n \in Net : netCost'[n] = GetNetCost(box'[n])
    BY <2>1
  <2>7. IsTotal(bbCost', Net, [n \in Net |-> netCost'[n]])
    BY <2>4, <2>5
  <2> QED BY <2>6, <2>7 DEF CostInv
<1>3. CASE Accept
  <2>1. /\ Assessing /\ UNCHANGED block /\ bbCost' = bbCost + Delta /\ pc' = "commit"
        /\ netCost' = [n \in Net |-> IF n \in Range(affected) THEN GetNetCost(newBox[n]) ELSE netCost[n]]
    BY <1>3 DEF Accept, where
  <2>2. \A n \in Net : box'[n] = BoundingBox(n, block)
    BY <1>3, <2>1, AcceptBoxes DEF BInv, BoxInv
  <2>3. ASSUME NEW n \in Net
        PROVE  netCost'[n] = GetNetCost(BoundingBox(n, block))
    <3>1. CASE n \in Range(affected)
      BY <3>1, <2>1, Settled
    <3>2. CASE n \notin Range(affected)
      <4>1. netCost[n] = GetNetCost(box[n])
        BY <2>1 DEF CostInv, Assessing
      <4> QED BY <3>2, <4>1, <2>1, Settled
    <3> QED BY <3>1, <3>2
  <2>4. [n \in Net |-> netCost'[n]] = CostNow
    BY <2>3 DEF CostNow
  <2>5. IsTotal(bbCost', Net, [n \in Net |-> netCost'[n]])
    BY <2>1, <2>4, DeltaIsRight
  <2> QED BY <2>2, <2>3, <2>5 DEF CostInv
<1>4. CASE \/ PickSwap \/ SetupBlocksAffected \/ Abort \/ FindAffectedNets \/ UpdateBB
           \/ Commit \/ Accepted \/ Reject \/ Freeze \/ UNCHANGED vars
  <2>1. UNCHANGED << box, netCost, bbCost >>
    BY <1>4 DEF PickSwap, SetupBlocksAffected, Abort, FindAffectedNets, UpdateBB, Commit, Accepted,
                Reject, Freeze, vars, costs
  <2>2. pc \in {"idle", "affect", "bound", "commit"} \/ pc' = pc
    BY <1>4 DEF PickSwap, SetupBlocksAffected, Abort, FindAffectedNets, UpdateBB, Commit, Accepted,
                Reject, Freeze, vars, Assessing
  <2> QED BY <2>1, <2>2 DEF CostInv
<1> QED BY <1>1, <1>2, <1>3, <1>4 DEF Next

\* A swap that is kept once frozen does not raise the cost worked out from where the blocks
\* are.
LEMMA Quench == ASSUME IInv, BInv, CostInv, Next, frozen, pc = "bound", pc' = "commit"
                PROVE  NewBoxCost <= bbCost
<1>1. Accept
  BY DEF Next, PlaceMacro, MacrosPlaced, PlaceBlock, ReadPads, CompBBCost, PickSwap, SetupBlocksAffected,
         Abort, FindAffectedNets, UpdateBB, Commit, Accepted, Reject, Freeze, CheckPlace, EndSwap
<1>2. Delta <= 0 /\ Assessing
  BY <1>1 DEF Accept, MayAccept
<1>3. bbCost \in Int /\ Delta \in Int /\ NewBoxCost = bbCost + Delta
  BY <1>2, DeltaIsRight
<1> QED BY <1>2, <1>3

\* After the freezing point no swap is kept that raises the cost (place.c:647), which is not
\* worked out from the blocks but kept up by differences.
THEOREM QuenchKept == Spec => QuenchNeverRises
<1>1. Init => IInv /\ BInv /\ CostInv
  BY InitInv, InitBoxes DEF Init, CostInv
<1>2. IInv /\ BInv /\ CostInv /\ [Next]_vars => IInv' /\ BInv' /\ CostInv'
  BY StepInv, StepBoxes, StepCost
<1>3. IInv /\ BInv /\ CostInv /\ [Next]_vars
        => [frozen /\ pc = "bound" /\ pc' = "commit" => NewBoxCost <= bbCost]_vars
  BY Quench
<1> QED BY <1>1, <1>2, <1>3, PTL DEF Spec, QuenchNeverRises

-----------------------------------------------------------------------------
(* How full the tiles are *)

\* How full the tiles are; a move still to be taken over fills an empty place, or one that
\* another move leaves, and a place is left once.
Occupied(t) == { l \in Slots(t) : grid[l] # Empty }

UsageInv ==
  /\ usage = [t \in Tile |-> Cardinality(Occupied(t))]
  /\ pc = "commit" =>
       /\ \A i, j \in DOMAIN moves : moves[i].from = moves[j].from => i = j
       /\ \A i \in DOMAIN moves : i > count =>
            /\ moves[i].alone <=> grid[moves[i].to] = Empty
            /\ moves[i].alone => grid[moves[i].from] # Empty

\* A tile has as many slots as its type has room for.
LEMMA SlotFacts ==
  ASSUME NEW t \in Tile
  PROVE  /\ IsFiniteSet(Slots(t)) /\ Cardinality(Slots(t)) = Capacity[TypeAt[t]]
         /\ \A l : l \in Slots(t) <=> l \in Loc /\ TileOf(l) = t
         /\ IsFiniteSet(Occupied(t)) /\ Cardinality(Occupied(t)) \in Nat
         /\ Cardinality(Occupied(t)) <= Capacity[TypeAt[t]]
<1> DEFINE c == Capacity[TypeAt[t]]
           f == [z \in 0 .. c - 1 |-> << t[1], t[2], z >>]
           S == { << t[1], t[2], z >> : z \in 0 .. c - 1 }
<1>1. c \in Nat /\ t = << t[1], t[2] >>
  BY GridAssumption DEF Tile
<1>2. IsFiniteSet(0 .. c - 1) /\ Cardinality(0 .. c - 1) = c
  <2> HIDE DEF c
  <2>1. \A m \in Int : IsFiniteSet(0 .. m) /\ Cardinality(0 .. m) = IF 0 > m THEN 0 ELSE m - 0 + 1
    BY FS_Interval
  <2>2. c - 1 \in Int /\ (0 > c - 1 => c = 0)
    BY <1>1
  <2>3. IsFiniteSet(0 .. c - 1) /\ Cardinality(0 .. c - 1) = IF 0 > c - 1 THEN 0 ELSE (c - 1) - 0 + 1
    BY <2>1, <2>2
  <2>4. (IF 0 > c - 1 THEN 0 ELSE (c - 1) - 0 + 1) = c
    BY <1>1, <2>2
  <2> QED BY <2>3, <2>4
<1>3. f \in Surjection(0 .. c - 1, S) /\ f \in Injection(0 .. c - 1, S)
  BY DEF Surjection, Injection, IsInjective
<1>4. IsFiniteSet(S) /\ Cardinality(S) = c
  <2> HIDE DEF f, S, c
  <2> QED BY <1>2, <1>3, FS_Surjection
<1>5. Slots(t) = S
  BY DEF Slots
<1>6. \A l : l \in Slots(t) <=> l \in Loc /\ TileOf(l) = t
  <2>1. ASSUME NEW l, l \in Slots(t)
        PROVE  l \in Loc /\ TileOf(l) = t
    <3>1. l \in Loc
      BY <2>1 DEF Loc
    <3>2. TileOf(l) = << t[1], t[2] >>
      BY <2>1 DEF Slots, TileOf
    <3> QED BY <3>1, <3>2, <1>1
  <2>2. ASSUME NEW l \in Loc, TileOf(l) = t
        PROVE  l \in Slots(t)
    <3>1. l \in Coord /\ l[3] \in 0 .. Capacity[TypeAt[t]] - 1
      BY <2>2, PlaceFacts
    <3>2. l = << t[1], t[2], l[3] >>
      BY <3>1, <2>2 DEF TileOf, Coord
    <3> QED BY <3>1, <3>2 DEF Slots
  <2> QED BY <2>1, <2>2
<1>7. Occupied(t) \in SUBSET Slots(t)
  BY DEF Occupied
<1>8. IsFiniteSet(Slots(t)) /\ Cardinality(Slots(t)) = c
  BY <1>4, <1>5
<1>9. /\ IsFiniteSet(Occupied(t)) /\ Cardinality(Occupied(t)) \in Nat
      /\ Cardinality(Occupied(t)) <= Cardinality(Slots(t))
  BY <1>7, <1>8, FS_Subset, FS_CardinalityType
<1> QED BY <1>6, <1>8, <1>9

\* Steps that leave grid and usage as they are.
LEMMA SameUsage ==
  ASSUME UsageInv, UNCHANGED << grid, usage >>, pc' # "commit" \/ UNCHANGED << moves, count, pc >>
  PROVE  UsageInv'
<1>1. \A t : Occupied(t)' = Occupied(t)
  BY DEF Occupied
<1>2. usage' = [t \in Tile |-> Cardinality(Occupied(t)')]
  BY <1>1 DEF UsageInv
<1> QED BY <1>2 DEF UsageInv

\* One place more is taken.
LEMMA Taken ==
  ASSUME NEW l \in Loc, NEW b \in Block, grid[l] = Empty, grid \in [Loc -> Block \cup {Empty}],
         grid' = [grid EXCEPT ![l] = b], NEW t \in Tile
  PROVE  Cardinality(Occupied(t)') = Cardinality(Occupied(t)) + (IF t = TileOf(l) THEN 1 ELSE 0)
<1>1. b # Empty
  BY NetlistAssumption DEF Block, Empty
<1>2. IsFiniteSet(Occupied(t)) /\ Cardinality(Occupied(t)) \in Nat /\ (l \in Slots(t) <=> TileOf(l) = t)
      /\ \A m \in Slots(t) : m \in Loc
  BY SlotFacts
<1>3. CASE t = TileOf(l)
  <2>1. Occupied(t)' = Occupied(t) \cup {l} /\ l \notin Occupied(t)
    BY <1>1, <1>2, <1>3 DEF Occupied
  <2> QED BY <2>1, <1>2, <1>3, FS_AddElement
<1>4. CASE t # TileOf(l)
  <2>1. Occupied(t)' = Occupied(t)
    BY <1>2, <1>4 DEF Occupied
  <2> QED BY <2>1, <1>2, <1>4
<1> QED BY <1>3, <1>4

\* A block put on a free place.
LEMMA PlaceBlockUsage == ASSUME IInv, UsageInv, PlaceBlock PROVE UsageInv'
<1>1. grid \in [Loc -> Block \cup {Empty}] /\ pc = "blocks" /\ pc' # "commit"
  BY DEF IInv, TInv, PlaceBlock
<1>2. CASE UNCHANGED << grid, usage >>
  BY <1>1, <1>2, SameUsage
<1>3. CASE \E b \in Block, l \in Loc :
             /\ grid[l] = Empty /\ grid' = [grid EXCEPT ![l] = b]
             /\ usage' = [usage EXCEPT ![TileOf(l)] = @ + 1]
  <2>1. PICK b \in Block, l \in Loc :
             /\ grid[l] = Empty /\ grid' = [grid EXCEPT ![l] = b]
             /\ usage' = [usage EXCEPT ![TileOf(l)] = @ + 1]
    BY <1>3
  <2>2. l \in Loc /\ TileOf(l) \in Tile
    BY PlaceFacts
  <2>3. \A t \in Tile : Cardinality(Occupied(t)) \in Nat
    BY SlotFacts
  <2>4. usage = [t \in Tile |-> Cardinality(Occupied(t))]
    BY DEF UsageInv
  <2>5. \A t \in Tile : usage'[t] = Cardinality(Occupied(t)) + (IF t = TileOf(l) THEN 1 ELSE 0)
    BY <2>1, <2>2, <2>3, <2>4
  <2>6. \A t \in Tile : Cardinality(Occupied(t)') = Cardinality(Occupied(t)) + (IF t = TileOf(l) THEN 1 ELSE 0)
    BY <2>1, <2>2, <1>1, Taken
  <2>7. usage' = [t \in Tile |-> usage'[t]]
    BY <2>1, <2>4
  <2>8. usage' = [t \in Tile |-> Cardinality(Occupied(t)')]
    BY <2>5, <2>6, <2>7
  <2> QED BY <2>8, <1>1 DEF UsageInv
<1>4. \E b \in Unplaced :
        LET free == { l \in LegalPos(TypeOf[b]) : grid[l] = Empty }
        IN  \/ UNCHANGED << grid, usage >>
            \/ \E l \in free : /\ grid' = [grid EXCEPT ![l] = b]
                               /\ usage' = [usage EXCEPT ![TileOf(l)] = @ + 1]
  BY DEF PlaceBlock
<1> QED BY <1>2, <1>3, <1>4, LegalFacts DEF Unplaced

\* Things put at free places of their own, in one step.
LEMMA AllTaken ==
  ASSUME UsageInv, NEW K, IsFiniteSet(K), NEW at,
         \A j, k \in K : at[j] = at[k] => j = k,
         \A k \in K : at[k] \in Loc /\ grid[at[k]] = Empty /\ grid'[at[k]] # Empty,
         \A l \in Loc : (\A k \in K : at[k] # l) => (grid'[l] = Empty <=> grid[l] = Empty),
         usage' = [t \in Tile |-> usage[t] + Cardinality({ k \in K : TileOf(at[k]) = t })]
  PROVE  usage' = [t \in Tile |-> Cardinality(Occupied(t)')]
<1>1. ASSUME NEW t \in Tile
      PROVE  usage'[t] = Cardinality(Occupied(t)')
  <2> DEFINE H == { k \in K : TileOf(at[k]) = t }
  <2>1. IsFiniteSet(H)
    <3>1. H \in SUBSET K
      OBVIOUS
    <3> QED BY <3>1, FS_Subset
  <2>2. IsFiniteSet(Occupied(t)) /\ \A l : l \in Slots(t) <=> l \in Loc /\ TileOf(l) = t
    BY SlotFacts
  <2>3. Occupied(t)' = Occupied(t) \cup { at[k] : k \in H }
    <3>1. ASSUME NEW l \in Slots(t)
          PROVE  grid'[l] # Empty <=> grid[l] # Empty \/ \E k \in H : at[k] = l
      <4>1. l \in Loc /\ TileOf(l) = t
        BY <2>2
      <4> QED BY <4>1
    <3>2. \A k \in H : at[k] \in Slots(t)
      BY <2>2
    <3> QED BY <3>1, <3>2 DEF Occupied
  <2>4. \A k \in H : at[k] \notin Occupied(t)
    BY DEF Occupied
  <2>5. \A j, k \in H : at[j] = at[k] => j = k
    OBVIOUS
  <2>6. usage[t] = Cardinality(Occupied(t)) /\ usage'[t] = usage[t] + Cardinality(H)
    BY DEF UsageInv
  <2> HIDE DEF H
  <2>7. Cardinality(Occupied(t) \cup { at[k] : k \in H }) = Cardinality(Occupied(t)) + Cardinality(H)
    BY <2>1, <2>2, <2>4, <2>5, PutIn
  <2> QED BY <2>3, <2>6, <2>7
<1> QED BY <1>1

\* A macro: its members take as many places, all of them free.
LEMMA PlaceMacroUsage == ASSUME IInv, UsageInv, PlaceMacro PROVE UsageInv'
<1> DEFINE i == count + 1
           M == DOMAIN Macros[i]
<1>1. pc = "macros" /\ count < Len(Macros) /\ i \in DOMAIN Macros /\ pc' \in {"macros", "thrown"}
  BY MacroAssumption DEF IInv, TInv, PlaceMacro
<1>2. CASE UNCHANGED << grid, usage >>
  BY <1>1, <1>2, SameUsage
<1>3. CASE \E head \in Loc :
             LET to(k) == Plus(head, Offset(Macros[i][k]))
                 here(l) == { k \in M : to(k) = l }
             IN  /\ MacroFits(i, head)
                 /\ grid' = [l \in Loc |-> IF here(l) = {} THEN grid[l]
                                           ELSE Macros[i][CHOOSE k \in here(l) : TRUE].block]
                 /\ usage' = [t \in Tile |-> usage[t] + Cardinality({ k \in M : TileOf(to(k)) = t })]
  <2>1. PICK head \in Loc :
             LET to(k) == Plus(head, Offset(Macros[i][k]))
                 here(l) == { k \in M : to(k) = l }
             IN  /\ MacroFits(i, head)
                 /\ grid' = [l \in Loc |-> IF here(l) = {} THEN grid[l]
                                           ELSE Macros[i][CHOOSE k \in here(l) : TRUE].block]
                 /\ usage' = [t \in Tile |-> usage[t] + Cardinality({ k \in M : TileOf(to(k)) = t })]
    BY <1>3
  <2> DEFINE to(k) == Plus(head, Offset(Macros[i][k]))
             here(l) == { k \in M : to(k) = l }
             at == [k \in M |-> to(k)]
  <2>2. \A k \in M : at[k] = to(k) /\ at[k] \in Loc /\ grid[at[k]] = Empty
    BY <2>1, LegalFacts DEF MacroFits
  <2>3. ASSUME NEW j \in M, NEW k \in M, at[j] = at[k]
        PROVE  j = k
    <3>1. Offset(Macros[i][j]) = << 0, Macros[i][j].dy, 0 >> /\ Offset(Macros[i][k]) = << 0, Macros[i][k].dy, 0 >>
          /\ Macros[i][j].dy \in Int /\ Macros[i][k].dy \in Int
      BY <1>1, MacroFacts
    <3>2. head \in Coord /\ to(j) = to(k)
      BY <2>2, <2>3, PlaceFacts
    <3>3. Macros[i][j].dy = Macros[i][k].dy
      BY <3>1, <3>2 DEF Plus, Coord
    <3> QED BY <3>3, <1>1, MacroAssumption
  <2>4. \A l \in Loc : IF here(l) = {} THEN grid'[l] = grid[l] ELSE grid'[l] # Empty
    <3> TAKE l \in Loc
    <3>1. CASE here(l) = {}
      BY <3>1, <2>1
    <3>2. CASE here(l) # {}
      <4>1. PICK k \in M : k = CHOOSE j \in here(l) : TRUE
        BY <3>2
      <4>2. grid'[l] = Macros[i][k].block
        BY <3>2, <4>1, <2>1
      <4>3. Macros[i][k].block \in Block
        BY <1>1, MacroFacts
      <4> QED BY <3>2, <4>2, <4>3, NetlistAssumption DEF Block, Empty
    <3> QED BY <3>1, <3>2
  <2>5. \A k \in M : grid'[at[k]] # Empty
    BY <2>2, <2>4
  <2>6. \A l \in Loc : (\A k \in M : at[k] # l) => (grid'[l] = Empty <=> grid[l] = Empty)
    BY <2>4
  <2>7. usage' = [t \in Tile |-> usage[t] + Cardinality({ k \in M : TileOf(at[k]) = t })]
    <3>1. \A t \in Tile : { k \in M : TileOf(to(k)) = t } = { k \in M : TileOf(at[k]) = t }
      BY <2>2
    <3> QED BY <3>1, <2>1
  <2>8. IsFiniteSet(M)
    <3>1. Macros[i] \in Seq([block : Block, dx : {0}, dy : Int, dz : {0}])
      BY <1>1, MacroAssumption
    <3>2. M = 1 .. Len(Macros[i]) /\ Len(Macros[i]) \in Nat
      BY <3>1
    <3> QED BY <3>2, FS_Interval
  <2> HIDE DEF at, M
  <2>9. usage' = [t \in Tile |-> Cardinality(Occupied(t)')]
    BY <2>2, <2>3, <2>5, <2>6, <2>7, <2>8, AllTaken
  <2> QED BY <2>9, <1>1 DEF UsageInv
<1> QED BY <1>2, <1>3 DEF PlaceMacro

\* The pads of the user: no pad was on the grid before.
LEMMA ReadPadsUsage == ASSUME IInv, UsageInv, ReadPads PROVE UsageInv'
<1>1. pc = "blocks" /\ Unplaced = {} /\ pc' = "cost"
  BY DEF ReadPads
<1>2. CASE padFile = NoFile
  BY <1>1, <1>2, SameUsage DEF ReadPads, where
<1>3. CASE padFile # NoFile
  <2>1. /\ grid' = [l \in Loc |-> IF \E b \in Pads : padFile[b] = l
                                  THEN CHOOSE b \in Pads : padFile[b] = l
                                  ELSE IF l \in LegalPos(IOType) THEN Empty ELSE grid[l]]
        /\ usage' = [t \in Tile |-> usage[t] + Cardinality({ b \in Pads : TileOf(padFile[b]) = t })]
    BY <1>3 DEF ReadPads
  <2>2. /\ \A b \in Pads : padFile[b] \in LegalPos(IOType)
        /\ \A b, c \in Pads : padFile[b] = padFile[c] => b = c
    BY <1>3, PadFileAssumption DEF IInv, TInv
  <2>3. ASSUME NEW l \in LegalPos(IOType)
        PROVE  grid[l] = Empty
    <3>1. l \in Loc /\ TypeAt[TileOf(l)] = IOType /\ l # Nowhere
      BY LegalFacts, PlaceFacts
    <3>2. grid[l] \in Block \cup {Empty}
      BY <3>1 DEF IInv, TInv
    <3>3. ASSUME NEW b \in Block, grid[l] = b
          PROVE  FALSE
      <4>1. /\ block[b] = l /\ (block[b] = Nowhere \/ block[b] \in LegalPos(TypeOf[b]))
            /\ (ByUser(b) => block[b] = Nowhere)
        BY <3>1, <3>3, <1>1 DEF IInv, PlacingInv
      <4>2. TypeOf[b] = IOType
        BY <3>1, <4>1, LegalFacts
      <4> QED BY <3>1, <4>1, <4>2, <1>3 DEF ByUser, Pads
    <3> QED BY <3>2, <3>3
  <2>4. \A b \in Pads : /\ padFile[b] \in Loc /\ grid[padFile[b]] = Empty
                        /\ grid'[padFile[b]] # Empty
    <3> TAKE b \in Pads
    <3>1. padFile[b] \in Loc /\ grid[padFile[b]] = Empty
      BY <2>2, <2>3, LegalFacts
    <3>2. grid'[padFile[b]] \in Pads
      BY <3>1, <2>1
    <3> QED BY <3>1, <3>2, NetlistAssumption DEF Pads, Block, Empty
  <2>5. \A l \in Loc : (\A b \in Pads : padFile[b] # l) => (grid'[l] = Empty <=> grid[l] = Empty)
    BY <2>1, <2>3
  <2>6. IsFiniteSet(Pads)
    <3>1. Pads \in SUBSET Block /\ IsFiniteSet(Block)
      BY NetlistAssumption, FS_Interval DEF Pads, Block
    <3> QED BY <3>1, FS_Subset
  <2> DEFINE K == Pads
             at == padFile
  <2>7. /\ \A j, k \in K : at[j] = at[k] => j = k
        /\ \A k \in K : at[k] \in Loc /\ grid[at[k]] = Empty /\ grid'[at[k]] # Empty
        /\ \A l \in Loc : (\A k \in K : at[k] # l) => (grid'[l] = Empty <=> grid[l] = Empty)
        /\ usage' = [t \in Tile |-> usage[t] + Cardinality({ k \in K : TileOf(at[k]) = t })]
        /\ IsFiniteSet(K)
    BY <2>1, <2>2, <2>4, <2>5, <2>6
  <2> HIDE DEF K, at
  <2>8. usage' = [t \in Tile |-> Cardinality(Occupied(t)')]
    BY <2>7, AllTaken
  <2> QED BY <2>8, <1>1 DEF UsageInv
<1> QED BY <1>2, <1>3

\* A swap that is kept: what the moves will fill and leave is known from the grid as it is.
LEMMA AcceptUsage == ASSUME IInv, UsageInv, Accept PROVE UsageInv'
<1>1. /\ pc = "bound" /\ Swapping /\ count' = 0 /\ UNCHANGED << grid, usage, moves >>
  BY DEF Accept, Assessing, Swapping, where, swap
<1>0. \A b \in Block : b # Empty
  BY NetlistAssumption DEF Block, Empty
<1>2. \A i \in DOMAIN moves : /\ moves[i].block \notin fixed /\ moves[i].block \in Block
                              /\ Restored[moves[i].block] = moves[i].from
                              /\ moves[i].alone <=> grid[moves[i].to] = Empty
  BY <1>1, MovedFacts DEF IInv, MovesInv, SwapInv
<1>3. \A i \in DOMAIN moves : grid[moves[i].from] = moves[i].block
  BY <1>1, MovedFacts
<1>4. \A i, j \in DOMAIN moves : moves[i].from = moves[j].from => i = j
  BY <1>1, <1>3, MovedFacts
<1>5. \A t : Occupied(t)' = Occupied(t)
  BY <1>1 DEF Occupied
<1>6. usage' = [t \in Tile |-> Cardinality(Occupied(t)')]
  BY <1>1, <1>5 DEF UsageInv
<1> QED BY <1>0, <1>1, <1>2, <1>3, <1>4, <1>6 DEF UsageInv

\* A move taken over into the grid fills a place and leaves another, on two tiles or one.
LEMMA CommitUsage == ASSUME IInv, UsageInv, Commit PROVE UsageInv'
<1>1. /\ pc = "commit" /\ pc' = "commit" /\ count' = count + 1 /\ count < Len(moves) /\ UNCHANGED moves
      /\ count \in Nat /\ moves \in Seq(MoveRec) /\ grid \in [Loc -> Block \cup {Empty}]
  BY DEF Commit, swap, IInv, TInv
<1>0. \A b \in Block : b # Empty
  BY NetlistAssumption DEF Block, Empty
<1>2. PICK m : m = moves[count + 1]
  OBVIOUS
<1>3. /\ IF m.alone
         THEN /\ grid' = [[grid EXCEPT ![m.to] = m.block] EXCEPT ![m.from] = Empty]
              /\ usage' = [usage EXCEPT ![TileOf(m.to)] = @ + 1, ![TileOf(m.from)] = @ - 1]
         ELSE /\ grid' = [grid EXCEPT ![m.to] = m.block]
              /\ UNCHANGED usage
  BY <1>2 DEF Commit
<1>4. /\ \A i \in DOMAIN moves : moves[i].block \in Block /\ moves[i].from \in Loc /\ moves[i].to \in Loc
      /\ count + 1 \in DOMAIN moves /\ DOMAIN moves \subseteq Nat
  <2>1. \A i \in DOMAIN moves : moves[i] \in MoveRec
    BY <1>1
  <2> QED BY <2>1, <1>1 DEF MoveRec
<1>5. /\ \A i, j \in DOMAIN moves : moves[i].from = moves[j].from => i = j
      /\ \A i, j \in DOMAIN moves : moves[i].to = moves[j].to => i = j
      /\ \A i, j \in DOMAIN moves : moves[i].alone => moves[i].from # moves[j].to
      /\ \A i \in DOMAIN moves : i > count =>
           /\ moves[i].alone <=> grid[moves[i].to] = Empty
           /\ moves[i].alone => grid[moves[i].from] # Empty
      /\ usage = [t \in Tile |-> Cardinality(Occupied(t))]
  BY <1>1 DEF UsageInv, IInv, MovesInv, CommitInv
<1>6. /\ m.block \in Block /\ m.from \in Loc /\ m.to \in Loc /\ (m.alone => m.from # m.to)
      /\ m.alone <=> grid[m.to] = Empty
      /\ m.alone => grid[m.from] # Empty
  BY <1>1, <1>2, <1>4, <1>5
<1>7. /\ \A l \in Loc : l # m.to /\ l # m.from => grid'[l] = grid[l]
      /\ grid'[m.to] = m.block
      /\ IF m.alone THEN grid'[m.from] = Empty
                    ELSE \A l \in Loc : l # m.to => grid'[l] = grid[l]
  <2>1. CASE m.alone
    BY <2>1, <1>1, <1>3, <1>6
  <2>2. CASE ~m.alone
    BY <2>2, <1>1, <1>3, <1>6
  <2> QED BY <2>1, <2>2
<1>8. ASSUME NEW i \in DOMAIN moves, i > count'
      PROVE  /\ moves[i].alone <=> grid'[moves[i].to] = Empty
             /\ moves[i].alone => grid'[moves[i].from] # Empty
  <2>1. i > count /\ i # count + 1
    BY <1>1, <1>4, <1>8
  <2>2. /\ moves[i].to # m.to /\ moves[i].from # m.from
        /\ (m.alone => moves[i].to # m.from)
        /\ moves[i].to \in Loc /\ moves[i].from \in Loc
    BY <2>1, <1>2, <1>4, <1>5
  <2>3. grid'[moves[i].to] = grid[moves[i].to]
    BY <2>2, <1>7
  <2>4. moves[i].from # m.to => grid'[moves[i].from] = grid[moves[i].from]
    BY <2>2, <1>7
  <2> QED BY <2>1, <2>3, <2>4, <1>0, <1>5, <1>6, <1>7
<1>9. ASSUME NEW t \in Tile
      PROVE  usage'[t] = Cardinality(Occupied(t)')
  <2> DEFINE S == Occupied(t)
             T == Occupied(t)'
  <2>1. /\ IsFiniteSet(S) /\ Cardinality(S) \in Nat
        /\ \A l \in Loc : l \in Slots(t) <=> TileOf(l) = t
        /\ \A l \in Slots(t) : l \in Loc
    BY SlotFacts
  <2>2. usage[t] = Cardinality(S) /\ TileOf(m.to) \in Tile /\ TileOf(m.from) \in Tile
    BY <1>5, <1>6, PlaceFacts
  <2>3. CASE ~m.alone
    <3>1. T = S
      BY <2>1, <2>3, <1>0, <1>6, <1>7 DEF Occupied
    <3> QED BY <2>2, <2>3, <3>1, <1>3
  <2>4. CASE m.alone
    <3>1. usage'[t] = usage[t] + (IF t = TileOf(m.to) THEN 1 ELSE 0) - (IF t = TileOf(m.from) THEN 1 ELSE 0)
      BY <2>1, <2>2, <2>4, <1>3, <1>5
    <3> DEFINE A == IF t = TileOf(m.to) THEN S \cup {m.to} ELSE S
    <3>2. IsFiniteSet(A) /\ Cardinality(A) = Cardinality(S) + (IF t = TileOf(m.to) THEN 1 ELSE 0)
      <4>1. m.to \notin S
        BY <2>4, <1>6 DEF Occupied
      <4> HIDE DEF S
      <4>2. /\ IsFiniteSet(S \cup {m.to})
            /\ Cardinality(S \cup {m.to}) = IF m.to \in S THEN Cardinality(S) ELSE Cardinality(S) + 1
        BY <2>1, FS_AddElement
      <4> QED BY <4>1, <4>2, <2>1
    <3>3. T = IF t = TileOf(m.from) THEN A \ {m.from} ELSE A
      BY <2>1, <2>4, <1>0, <1>6, <1>7 DEF Occupied
    <3>4. t = TileOf(m.from) => m.from \in A
      BY <2>1, <2>4, <1>6 DEF Occupied
    <3> HIDE DEF A, S, T
    <3>5. Cardinality(T) = Cardinality(A) - (IF t = TileOf(m.from) THEN 1 ELSE 0)
      <4>1. Cardinality(A \ {m.from}) = IF m.from \in A THEN Cardinality(A) - 1 ELSE Cardinality(A)
        BY <3>2, FS_RemoveElement
      <4>2. Cardinality(A) \in Int
        BY <3>2, FS_CardinalityType
      <4> QED BY <4>1, <4>2, <3>3, <3>4
    <3> QED BY <3>1, <3>2, <3>5, <2>1, <2>2 DEF S, T
  <2> QED BY <2>3, <2>4
<1>10. usage' = [t \in Tile |-> usage'[t]]
  BY <1>3, <1>5
<1>11. usage' = [t \in Tile |-> Cardinality(Occupied(t)')]
  BY <1>9, <1>10
<1> QED BY <1>1, <1>5, <1>8, <1>11 DEF UsageInv

\* At the start every tile is empty.
LEMMA InitUsage == ASSUME Init PROVE UsageInv
<1>1. \A t \in Tile : Occupied(t) = {}
  BY SlotFacts DEF Init, Occupied
<1>2. usage = [t \in Tile |-> 0] /\ pc = "macros"
  BY DEF Init
<1> QED BY <1>1, <1>2, FS_EmptySet DEF UsageInv

\* Every step keeps count.
LEMMA StepUsage == ASSUME IInv, UsageInv, [Next]_vars PROVE UsageInv'
<1>1. CASE PlaceMacro
  BY <1>1, PlaceMacroUsage
<1>2. CASE PlaceBlock
  BY <1>2, PlaceBlockUsage
<1>3. CASE ReadPads
  BY <1>3, ReadPadsUsage
<1>4. CASE Accept
  BY <1>4, AcceptUsage
<1>5. CASE Commit
  BY <1>5, CommitUsage
<1>6. CASE \/ MacrosPlaced \/ CompBBCost \/ PickSwap \/ SetupBlocksAffected \/ Abort
           \/ FindAffectedNets \/ UpdateBB \/ Accepted \/ Reject \/ Freeze \/ CheckPlace
  <2>1. UNCHANGED << grid, usage >>
    BY <1>6 DEF MacrosPlaced, CompBBCost, PickSwap, SetupBlocksAffected, Abort, FindAffectedNets,
                UpdateBB, Accepted, Reject, Freeze, CheckPlace, where
  <2>2. pc' # "commit"
    BY <1>6 DEF MacrosPlaced, CompBBCost, PickSwap, SetupBlocksAffected, Abort, FindAffectedNets,
                UpdateBB, Accepted, Reject, Freeze, CheckPlace, EndSwap
  <2> QED BY <2>1, <2>2, SameUsage
<1>7. CASE UNCHANGED vars
  BY <1>7, SameUsage DEF vars, where, swap
<1> QED BY <1>1, <1>2, <1>3, <1>4, <1>5, <1>6, <1>7 DEF Next

-----------------------------------------------------------------------------
(* What check_place finds *)

\* Between swaps there is nothing for check_place to complain of.
LEMMA NoErrors ==
  ASSUME IInv, BInv, CostInv, UsageInv, pc = "idle"
  PROVE  ~PlaceErrors
<1>0. \A b \in Block : b # Empty
  BY NetlistAssumption DEF Block, Empty
<1>1. /\ block \in [Block -> Coord] /\ grid \in [Loc -> Block \cup {Empty}]
      /\ Seated(block) /\ Shape(block)
  BY DEF IInv, TInv, RestInv, Resting
<1>2. bbCost = NewBoxCost
  <2>1. \A n \in Net : netCost[n] = GetNetCost(BoundingBox(n, block))
    BY DEF CostInv, BInv, BoxInv
  <2>2. [n \in Net |-> netCost[n]] = CostNow
    BY <2>1 DEF CostNow
  <2>3. IsTotal(bbCost, Net, CostNow)
    BY <2>2 DEF CostInv
  <2>4. CostNow \in [Net -> Int] /\ NewBoxCost = SumFunction(CostNow) /\ IsFiniteSet(Net)
    BY <1>1, CostNowIs, NetlistAssumption
  <2>5. IsTotal(NewBoxCost, Net, CostNow)
    BY <2>4, SumIsTotal
  <2> QED BY <2>3, <2>4, <2>5, SumSame
<1>3. \A b \in Block : /\ Seat(block, b) \in Loc /\ TypeAt[TileOf(Seat(block, b))] = TypeOf[b]
                       /\ TileOf(block[b]) = TileOf(Seat(block, b))
                       /\ \A l \in Loc : grid[l] = b <=> Seat(block, b) = l
  <2> TAKE b \in Block
  <2>1. /\ Seat(block, b) \in Loc /\ TypeAt[TileOf(Seat(block, b))] = TypeOf[b]
        /\ \A l \in Loc : grid[l] = b <=> Seat(block, b) = l
    BY <1>1, LegalFacts DEF Seated
  <2>2. TileOf(block[b]) = TileOf(Seat(block, b))
    <3>1. CASE b \notin fixed
      BY <3>1 DEF Seat
    <3>2. CASE b \in fixed
      <4>1. block[b] = [padFile[b] EXCEPT ![3] = -1] /\ Seat(block, b) = padFile[b]
        BY <3>2 DEF IInv, PadsInv, Seat
      <4>2. padFile[b] \in Int \X Int \X Int
        BY <2>1, <4>1, PlaceFacts DEF Coord
      <4>3. \A c \in Int \X Int \X Int :
              [c EXCEPT ![3] = -1][1] = c[1] /\ [c EXCEPT ![3] = -1][2] = c[2]
        OBVIOUS
      <4> QED BY <4>1, <4>2, <4>3 DEF TileOf
    <3> QED BY <3>1, <3>2
  <2> QED BY <2>1, <2>2
<1>4. ASSUME NEW t \in Tile
      PROVE  /\ usage[t] = Cardinality({ l \in Slots(t) : grid[l] # Empty })
             /\ ~(usage[t] > Capacity[TypeAt[t]])
  <2>1. usage[t] = Cardinality(Occupied(t))
    BY DEF UsageInv
  <2>2. Cardinality(Occupied(t)) \in Nat /\ Cardinality(Occupied(t)) <= Capacity[TypeAt[t]]
    BY SlotFacts
  <2>3. Capacity[TypeAt[t]] \in Nat
    BY GridAssumption
  <2> QED BY <2>1, <2>2, <2>3 DEF Occupied
<1>5. ASSUME NEW t \in Tile, NEW l \in Slots(t), grid[l] # Empty
      PROVE  TypeOf[grid[l]] = TypeAt[t] /\ TileOf(block[grid[l]]) = t
  <2>1. l \in Loc /\ TileOf(l) = t
    BY SlotFacts
  <2>2. grid[l] \in Block
    BY <2>1, <1>1, <1>5
  <2> QED BY <2>1, <2>2, <1>3
<1>6. ASSUME NEW b \in Block
      PROVE  Cardinality({ l \in Loc : grid[l] = b }) = 1
  <2>1. { l \in Loc : grid[l] = b } = {Seat(block, b)}
    BY <1>3
  <2> QED BY <2>1, FS_Singleton
<1>7. ASSUME NEW i \in DOMAIN Macros, NEW k \in DOMAIN Macros[i]
      PROVE  LET l == Plus(block[Macros[i][1].block], Offset(Macros[i][k]))
             IN  block[Macros[i][k].block] = l /\ l \in Loc /\ grid[l] = Macros[i][k].block
  <2>1. Macros[i][k].block \in Block /\ Macros[i][k].block \notin Pads
    BY MacroFacts
  <2>2. Macros[i][k].block \notin fixed
    BY <2>1 DEF IInv, PadsInv
  <2>3. block[Macros[i][k].block] = Plus(block[Macros[i][1].block], Offset(Macros[i][k]))
    BY <1>1 DEF Shape, Whole
  <2> QED BY <2>1, <2>2, <2>3, <1>3 DEF Seat
<1> QED BY <1>2, <1>4, <1>5, <1>6, <1>7 DEF PlaceErrors

\* No step makes check_place stop the program.
LEMMA StepPasses ==
  ASSUME IInv, BInv, CostInv, UsageInv, CheckPasses, [Next]_vars
  PROVE  CheckPasses'
<1>1. CASE CheckPlace
  BY <1>1, NoErrors DEF CheckPlace, CheckPasses
<1>2. CASE ~CheckPlace
  BY <1>2 DEF Next, PlaceMacro, MacrosPlaced, PlaceBlock, ReadPads, CompBBCost, PickSwap,
              SetupBlocksAffected, Abort, FindAffectedNets, UpdateBB, Accept, Commit, Accepted, Reject,
              Freeze, EndSwap, CheckPasses, vars
<1> QED BY <1>1, <1>2

\* The program is never stopped by check_place: neither cost, nor grid, nor macros are
\* ever other than it works them out (place.c:3057-3204).
THEOREM CheckNeverFails == Spec => []CheckPasses
<1>1. Init => IInv /\ BInv /\ CostInv /\ UsageInv /\ CheckPasses
  BY InitInv, InitBoxes, InitUsage DEF Init, CostInv, CheckPasses
<1>2. IInv /\ BInv /\ CostInv /\ UsageInv /\ CheckPasses /\ [Next]_vars
        => IInv' /\ BInv' /\ CostInv' /\ UsageInv' /\ CheckPasses'
  BY StepInv, StepBoxes, StepCost, StepUsage, StepPasses
<1> QED BY <1>1, <1>2, PTL DEF Spec
=============================================================================
