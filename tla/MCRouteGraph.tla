---------------------------- MODULE MCRouteGraph ----------------------------
(***************************************************************************)
(* A net with three sinks on a small piece of an FPGA.  The wires a and b  *)
(* drive each other, so that the connections together can form a cycle; d  *)
(* can be reached over both of them.                                       *)
(***************************************************************************)
EXTENDS RouteGraph

CONSTANTS s, a, b, d, e, x, y, z, X, Y, Z

MCSink == {X, Y, Z}
MCNode == {s, a, b, d, e, x, y, z} \cup MCSink
MCFirstEdge == [n \in MCNode |->
  CASE n = x -> X [] n = y -> Y [] n = z -> Z [] n = s -> a [] n = a -> b
    [] OTHER -> a]

MCCon == {1, 2, 3}

\* Cycles (a and b), branches that meet again (d), a way around that the others
\* make superfluous (e), and a second connection to the SINK of the first.
MCPaths ==
  << { <<s, a, x, X>>, <<s, b, a, x, X>>, <<s, a, d, x, X>> },
     { <<s, b, y, Y>>, <<s, a, b, y, Y>>, <<s, b, d, y, Y>>, <<s, b, a, x, X>> },
     { <<s, a, d, z, Z>>, <<s, a, b, d, z, Z>>, <<s, b, a, d, z, Z>>, <<s, e, b, d, z, Z>> } >>
=============================================================================
