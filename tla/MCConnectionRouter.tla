------------------------- MODULE MCConnectionRouter -------------------------
(***************************************************************************)
(* A small device for ConnectionRouter: net A (SOURCE sA, two OPINs, two   *)
(* sinks) and net B (SOURCE sB, one OPIN, one sink) share two wires of     *)
(* capacity 1 (a third wire is out of reach); the block of net A also      *)
(* keeps one of its OPINs for itself.                                      *)
(* A legal routing exists: A on one wire, B on the other, and A's          *)
(* connections through the same OPIN.                                      *)
(***************************************************************************)
EXTENDS ConnectionRouter, Sequences

CONSTANTS A, B, sA, sB, oA1, oA2, oB, w1, w2, w3, tA1, tA2, tB

MCNet  == {A, B}
MCNode == {sA, sB, oA1, oA2, oB, w1, w2, w3, tA1, tA2, tB}

\* Every OPIN, wire and pin carries one net.
MCCapacity == [n \in MCNode |-> 1]
\* Wires cost one unit, pins and the rest nothing or one unit.
MCBaseCost == [n \in MCNode |-> IF n \in {tA1, tA2, tB} THEN 0 ELSE 1]

MCWireLength == [n \in MCNode |-> IF n \in {w1, w2, w3} THEN 1 ELSE 0]
\* Enough wire elsewhere that the wirelength check lets every start pass.
MCAmpleWire == [MCWireLength EXCEPT ![w3] = 4]

MCSource == [i \in MCNet |-> IF i = A THEN sA ELSE sB]
MCNetOf  == <<A, A, B>>

\* Both OPINs of A reach both wires, and both wires reach every pin.
Path(s, o, w, t) == {s, o, w, t}
MCRoutes ==
  << {Path(sA, o, w, tA1) : o \in {oA1, oA2}, w \in {w1, w2}},
     {Path(sA, o, w, tA2) : o \in {oA1, oA2}, w \in {w1, w2}},
     {Path(sB, oB, w, tB) : w \in {w1, w2}} >>

\* One more connection of net B, to a sink that cannot be reached.
MCNetOfUnroutable  == <<A, A, B, B>>
MCRoutesUnroutable == Append(MCRoutes, {})

MCClassOpins == << {oA1, oA2} >>
MCNumLocal   == << 1 >>

\* 60 is a multiple of every denominator a price can have: 1 .. NumCons + 2.
MCCostScale == 60

-----------------------------------------------------------------------------
(* Two nets that start at the same SOURCE (equivalent output pins). *)
MCSharedSource     == [i \in MCNet |-> sA]
MCSharedCapacity   == [MCCapacity EXCEPT ![sA] = 2]
MCSharedRoutes     ==
  << {Path(sA, oA1, w1, tA1)}, {Path(sA, oA1, w1, tA2)},
     {Path(sA, oA2, w2, tB)} >>
=============================================================================
