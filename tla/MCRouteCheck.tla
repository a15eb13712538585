---------------------------- MODULE MCRouteCheck ----------------------------
(***************************************************************************)
(* Every list of up to six elements that begins at the SOURCE of the first *)
(* net, right or wrong, next to a few routings of a second net.            *)
(***************************************************************************)
EXTENDS RouteCheck

CONSTANTS s, r, a, b, X, Y, Z, o, p, q

MCSink == {X, Y, Z}
MCOpin == {o, p, q}
MCNode == {s, r, a, b} \cup MCSink \cup MCOpin
MCCapacity == [n \in MCNode |-> IF n = b THEN 2 ELSE 1]
MCEdge == { <<s, a>>, <<s, b>>, <<a, b>>, <<b, a>>, <<a, X>>, <<b, X>>, <<b, Y>>,
            <<r, a>>, <<r, b>>, <<b, Z>> }
MCSource == <<s, r>>

Lists(k) == { <<s>> \o t : t \in [1 .. k -> {s, a, b, X, Y}] }
MCTraces == { << t, u >> :
  t \in UNION { Lists(k) : k \in 0 .. 5 } \cup { <<>>, <<a, X>> },
  u \in { <<r, b, Z>>, <<r, a, b, Z>>, <<r, b>> } }
MCPinSink == << <<X, Y>>, <<Z>> >>
MCPtc == [n \in MCOpin |-> CASE n = o -> 0 [] n = p -> 1 [] n = q -> 2]
MCOpinClass == [n \in MCOpin |-> IF n = q THEN 2 ELSE 1]
MCLocals == { <<>>, <<p, o>>, <<q>> }
=============================================================================
