--------------------------- MODULE MCWidthSearch ----------------------------
(***************************************************************************)
(* The width search for a block of nineteen pins, with and without         *)
(* verification: the bounds start at 20 tracks, the limit of 100 allows    *)
(* three unsuccessful doublings, and every zigzag below occurs.  With      *)
(* wires of both directions it goes down to a single track, with one       *)
(* placement or a new one for each attempt; with wires of one direction    *)
(* down to a pair, where halving and rounding give the upper bound again   *)
(* (with one placement: the widths do not depend on it, and the number of  *)
(* placements would be the only one to grow if the search did not end).    *)
(* Two widths, one of them odd, are also given by the user.                *)
(***************************************************************************)
EXTENDS WidthSearch

MCOptions ==
  { o \in [fixedWidth : {NoWidth, 7, 12}, unidirectional : BOOLEAN,
           placeAlways : BOOLEAN, verify : BOOLEAN] :
      o.placeAlways => o.fixedWidth = NoWidth /\ ~o.unidirectional }
=============================================================================
