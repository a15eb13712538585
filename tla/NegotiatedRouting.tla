-------------------------- MODULE NegotiatedRouting --------------------------
(***************************************************************************)
(* What a connection router promises (try_route, route_common.c): it works *)
(* on the routes of the connections one at a time, in any way it likes,    *)
(* and reports success only when every connection has a route, every       *)
(* locally used OPIN is set aside, and no node is used beyond its capacity.*)
(***************************************************************************)
EXTENDS Integers, FiniteSets

CONSTANTS
  Node, Capacity,
  Unmetered,           \* nodes whose use is not limited by the routing
  Con, NetOf, Paths,   \* connections, their nets, their possible routes
  Class, Opins, NumLocal

VARIABLES
  route,      \* [Con -> the nodes of its route, {} when it has none]
  reserved,   \* [Class -> OPINs set aside]
  status

vars == << route, reserved, status >>

NetsOn(n) == { NetOf[c] : c \in { d \in Con : n \in route[d] } }

Load(n) == Cardinality(NetsOn(n))
           + (IF \E k \in Class : n \in reserved[k] THEN 1 ELSE 0)

Legal ==
  /\ \A c \in Con : route[c] \in Paths[c]
  /\ \A k \in Class : /\ reserved[k] \subseteq Opins[k]
                      /\ Cardinality(reserved[k]) = NumLocal[k]
  /\ \A n \in Node \ Unmetered : Load(n) <= Capacity[n]

Init ==
  /\ route = [c \in Con |-> {}]
  /\ reserved = [k \in Class |-> {}]
  /\ status = "working"

Unroute(c) ==
  /\ status = "working"
  /\ route' = [route EXCEPT ![c] = {}]
  /\ UNCHANGED << reserved, status >>

Reroute(c) ==
  /\ status = "working"
  /\ route[c] = {}
  /\ \E r \in Paths[c] : route' = [route EXCEPT ![c] = r]
  /\ UNCHANGED << reserved, status >>

Reserve(k) ==
  /\ status = "working"
  /\ \E S \in SUBSET Opins[k] :
       /\ Cardinality(S) = NumLocal[k]
       /\ reserved' = [reserved EXCEPT ![k] = S]
  /\ UNCHANGED << route, status >>

Succeed ==
  /\ status = "working"
  /\ Legal
  /\ status' = "success"
  /\ UNCHANGED << route, reserved >>

GiveUp ==
  /\ status = "working"
  /\ status' = "failed"
  /\ UNCHANGED << route, reserved >>

Next ==
  \/ \E c \in Con : Unroute(c) \/ Reroute(c)
  \/ \E k \in Class : Reserve(k)
  \/ Succeed
  \/ GiveUp

Spec == Init /\ [][Next]_vars
=============================================================================
