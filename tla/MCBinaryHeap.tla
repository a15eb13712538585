---------------------------- MODULE MCBinaryHeap ----------------------------
(***************************************************************************)
(* BinaryHeap with up to five entries of three costs: three levels, an     *)
(* even and an odd number of entries, and two doublings of the array.      *)
(***************************************************************************)
EXTENDS BinaryHeap

CONSTANT n1

MCCost  == 1 .. 3
MCIndex == {n1}
=============================================================================
