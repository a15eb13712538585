---------------------------- MODULE MCPlacement -----------------------------
(***************************************************************************)
(* Two columns of three tiles, a chain of two blocks, two single blocks    *)
(* and two pads, on a ring with two pad tiles of two slots.                *)
(***************************************************************************)
EXTENDS Placement

CONSTANTS clb, io, none, big, small

MCType == {clb, io, none}
MCTypeAt == [t \in Tile |-> CASE t \in Core -> clb
                              [] t \in {<<0, 2>>, <<3, 1>>} -> io
                              [] OTHER -> none]
MCCapacity == [t \in MCType |-> CASE t = clb -> 1 [] t = io -> 2 [] t = none -> 0]
MCTypeOf == [b \in Block |-> IF b <= 2 THEN io ELSE clb]
MCNetsOf == << <<big>>, <<small>>, <<big>>, <<big, small>>, <<small, big>>, <<big>> >>
MCNet == {big, small}
MCMacros == << << [block |-> 3, dx |-> 0, dy |-> 0, dz |-> 0],
                  [block |-> 4, dx |-> 0, dy |-> 1, dz |-> 0] >> >>
MCPadFile == [b \in Pads |-> IF b = 1 THEN <<0, 2, 1>> ELSE <<3, 1, 0>>]
MCPadFiles == {NoFile, MCPadFile}
MCUserPads == {MCPadFile}
=============================================================================
