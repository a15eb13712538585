------------------------------- MODULE MCChain -------------------------------
(***************************************************************************)
(* Second-order congestion for ConnectionRouter.  Net C can only use the   *)
(* cheap wire w3; net B prefers w3 and can move to w2; net A prefers w2    *)
(* and can move to the dear wire w1.  B must yield to C although that      *)
(* displaces A, which is not in C's way at all.  A has two sinks and a     *)
(* choice of OPINs, one of which its block keeps for itself.               *)
(***************************************************************************)
EXTENDS ConnectionRouter

CONSTANTS A, B, C, sA, sB, sC, oA1, oA2, oB, oC, w1, w2, w3, w4,
          tA1, tA2, tB, tC

MCNet  == {A, B, C}
MCWire == {w1, w2, w3, w4}
MCPin  == {tA1, tA2, tB, tC}
MCNode == {sA, sB, sC, oA1, oA2, oB, oC} \cup MCWire \cup MCPin

MCCapacity   == [n \in MCNode |-> 1]
MCBaseCost   == [n \in MCNode |-> CASE n = w1 -> 4
                                    [] n = w2 -> 2
                                    [] n \in MCPin -> 0
                                    [] OTHER -> 1]
MCWireLength == [n \in MCNode |-> CASE n = w4 -> 4
                                    [] n \in MCWire -> 1
                                    [] OTHER -> 0]

MCSource == [i \in MCNet |-> CASE i = A -> sA [] i = B -> sB [] i = C -> sC]
MCNetOf  == <<A, A, B, C>>

Path(s, o, w, t) == {s, o, w, t}
MCRoutes ==
  << {Path(sA, o, w, tA1) : o \in {oA1, oA2}, w \in {w1, w2}},
     {Path(sA, o, w, tA2) : o \in {oA1, oA2}, w \in {w1, w2}},
     {Path(sB, oB, w, tB) : w \in {w2, w3}},
     {Path(sC, oC, w3, tC)} >>

MCClassOpins == << {oA1, oA2} >>
MCNumLocal   == << 1 >>
MCCostScale  == 60
=============================================================================
