---------------------------- MODULE MCNodeHashMap ----------------------------
(***************************************************************************)
(* Five rr_nodes for NodeHashMap, chosen to collide in a table of 32:      *)
(* three of them share the last slot, so that their cluster wraps around   *)
(* to the homes of the others.  After one doubling some still collide.     *)
(***************************************************************************)
EXTENDS NodeHashMap

MCKey  == {31, 63, 95, 32, 1}
MCRoot == 32
=============================================================================
