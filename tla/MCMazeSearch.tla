---------------------------- MODULE MCMazeSearch ----------------------------
(***************************************************************************)
(* Wires wa and wb lead into each other, wc leads back to wb; the SOURCE   *)
(* src reaches two SINKs.  The first search may use everything, the second *)
(* is kept from wb, the third cannot reach its SINK.                       *)
(* Prices of the wires and estimates change freely between searches.       *)
(***************************************************************************)
EXTENDS MazeSearch

CONSTANTS src, wa, wb, wc, snk1, snk2

MCNode == {src, wa, wb, wc, snk1, snk2}
MCEdge == { <<src, wa>>, <<src, wb>>, <<wa, wb>>, <<wb, wa>>, <<wa, wc>>,
            <<wb, wc>>, <<wc, wb>>, <<wb, snk1>>, <<wc, snk1>>, <<wc, snk2>> }

MCSourceOf == << src, src, src >>
MCTargetOf == << snk1, snk2, snk2 >>
MCPruned   == << {}, {wb, snk1}, {wc, snk1} >>

\* Wires cost 1 or 3, and one more when turning from wa to wb; SINKs are free.
MCPrices ==
  { [e \in MCEdge |-> IF e[2] \in {snk1, snk2} THEN 0
                      ELSE w[e[2]] + (IF e = <<wa, wb>> THEN 1 ELSE 0)] :
      w \in [{wa, wb, wc} -> {1, 3}] }

\* No estimate; one that belongs to the nodes; two that depend on the way,
\* and may be far too high.
MCEstimates ==
  { [e \in MCEdge |-> 0],
    [e \in MCEdge |-> IF e[2] = wa THEN 1 ELSE 0],
    [e \in MCEdge |-> IF e[1] = src THEN 4 ELSE 0],
    [e \in MCEdge |-> IF e \in {<<src, wb>>, <<wa, wc>>} THEN 3 ELSE 0] }
=============================================================================
