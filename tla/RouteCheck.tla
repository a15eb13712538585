----------------------------- MODULE RouteCheck -----------------------------
(***************************************************************************)
(* The checker every finished routing goes through (check_route.c).  It    *)
(* recounts the occupancy of the nodes, looks at the OPINs that are kept   *)
(* for local use, and reads the trace of each net element by element.      *)
(* Whatever does not hold ends the program through vpr_throw.              *)
(*                                                                         *)
(* A trace lists a tree branch by branch: after a SINK comes a node that   *)
(* has been listed before, where the next branch begins.                   *)
(***************************************************************************)
EXTENDS Integers, FiniteSets, SequencesExt

CONSTANTS
  Node, Sink, Capacity,
  Edge,        \* pairs of nodes, the edges of the routing-resource graph
  NumNets,     \* the nets that are not global are 1 .. NumNets
  Source,      \* [net -> the node check_source accepts at its head]
  PinSink,     \* [net -> for each sink pin the SINK of its class and block]
  PadSink,     \* SINKs of I/O pads
  Opin, Ptc, OpinClass, \* OPINs of one block: their pin numbers and classes
  Traces,      \* the routings to check: [net -> its trace, <<>> for NULL]
  Locals       \* lists of OPINs kept for class 1 of that block

Net == 1 .. NumNets

ASSUME CheckAssumption ==
  /\ IsFiniteSet(Node) /\ Sink \subseteq Node /\ PadSink \subseteq Sink
  /\ Edge \subseteq (Node \ Sink) \X Node
  /\ NumNets \in Nat \ {0}
  /\ \A i \in Net : Source[i] \in Node \ Sink /\ PinSink[i] \in Seq(Sink)
  /\ Capacity \in [Node -> Nat]
  /\ Ptc \in [Opin -> Nat] /\ IsInjective(Ptc)
  /\ \A t \in Traces : t \in [Net -> Seq(Node)]
  /\ \A l \in Locals : l \in Seq(Node)

VARIABLES
  trace,      \* [net -> trace_head[net]]
  local,      \* clb_opins_used_locally[block][1].list
  ipin,       \* index into it, from 0
  inet, pos,  \* the net and the element being looked at
  connected,  \* connected_to_route, as a set
  pinDone,    \* pins of the net whose pin_done is set
  pc          \* the part of the check, or how it has ended

input  == << trace, local >>
netVars == << inet, pos, connected, pinDone >>
vars   == << input, ipin, netVars, pc >>

\* "error" stands for vpr_throw.
Ended == {"legal", "error", "crashed"}

Init ==
  /\ trace \in Traces
  /\ local \in Locals
  /\ ipin = 0
  /\ inet = 1 /\ pos = 1
  /\ connected = {} /\ pinDone = {}
  /\ pc = "recount"

-----------------------------------------------------------------------------
(* recompute_occupancy_from_scratch *)

\* (mutant) every element of a trace counts, the hooks too
CountedAll(t) == [k \in DOMAIN t |-> TRUE]

\* Every element counts, but the one after a SINK that has been counted.
Counted(t) ==
  LET c[k \in Nat] == k <= 1 \/ ~(c[k - 1] /\ t[k - 1] \in Sink)
  IN  [k \in DOMAIN t |-> c[k]]

\* The loop stops at a SINK with nothing behind it; it has no other end.
RunsOff(t) == t # <<>> /\ ~(Counted(t)[Len(t)] /\ Last(t) \in Sink)

Occ(n) ==
  LET uses(i) == Cardinality({ k \in DOMAIN trace[i] :
                                 trace[i][k] = n /\ Counted(trace[i])[k] })
  IN  MapThenSumSet(uses, Net) + Cardinality({ k \in DOMAIN local : local[k] = n })

Feasible == \A n \in Node : Occ(n) <= Capacity[n]

Recount ==
  /\ pc = "recount"
  /\ pc' = IF \E i \in Net : RunsOff(trace[i]) THEN "crashed"
           ELSE IF Feasible THEN "opins" ELSE "error"
  /\ UNCHANGED << input, ipin, netVars >>

-----------------------------------------------------------------------------
(* check_locally_used_clb_opins *)

IsRight(o) == o \in Opin /\ OpinClass[o] = 1

\* (mutant) the loop goes on at the pin number itself
CheckLocalAgain ==
  /\ pc = "opins"
  /\ ipin < Len(local)
  /\ IF IsRight(local[ipin + 1])
     THEN ipin' = Ptc[local[ipin + 1]] /\ UNCHANGED pc
     ELSE pc' = "error" /\ UNCHANGED ipin
  /\ UNCHANGED << input, netVars >>

\* The pin number of the OPIN is read into the loop counter.
CheckLocal ==
  /\ pc = "opins"
  /\ ipin < Len(local)
  /\ IF IsRight(local[ipin + 1])
     THEN ipin' = Ptc[local[ipin + 1]] + 1 /\ UNCHANGED pc
     ELSE pc' = "error" /\ UNCHANGED ipin
  /\ UNCHANGED << input, netVars >>

LocalsChecked ==
  /\ pc = "opins"
  /\ ipin >= Len(local)
  /\ pc' = "net"
  /\ UNCHANGED << input, ipin, netVars >>

-----------------------------------------------------------------------------
(* The trace of one net *)

T == trace[inet]

\* No routing, or one that begins elsewhere than at the SOURCE of the net.
CheckSource ==
  /\ pc = "net" /\ pos = 1
  /\ IF T # <<>> /\ T[1] = Source[inet]
     THEN /\ connected' = connected \cup {T[1]}
          /\ pos' = 2
          /\ UNCHANGED pc
     ELSE /\ pc' = "error"
          /\ UNCHANGED << connected, pos >>
  /\ pinDone' = {}
  /\ UNCHANGED << input, ipin, inet >>

\* (mutant) the element after a SINK is not looked at
HookAny ==
  /\ pc = "net" /\ pos \in 2 .. Len(T)
  /\ T[pos - 1] \in Sink
  /\ pos' = pos + 1
  /\ UNCHANGED << input, ipin, inet, connected, pinDone, pc >>

\* The element after a SINK must be part of the tree already.
Hook ==
  /\ pc = "net" /\ pos \in 2 .. Len(T)
  /\ T[pos - 1] \in Sink
  /\ IF T[pos] \in connected
     THEN pos' = pos + 1 /\ UNCHANGED pc
     ELSE pc' = "error" /\ UNCHANGED pos
  /\ UNCHANGED << input, ipin, inet, connected, pinDone >>

\* Pins of the net on SINK n that have not been reached.  All are taken at once.
Reached(n) == { k \in DOMAIN PinSink[inet] \ pinDone : PinSink[inet][k] = n }

SinkAccepted(n) == Reached(n) # {} /\ (n \in PadSink => Cardinality(Reached(n)) = 1)

IsNew ==
  /\ << T[pos - 1], T[pos] >> \in Edge
  /\ T[pos] \in connected => T[pos] \in Sink

Element ==
  /\ pc = "net" /\ pos \in 2 .. Len(T)
  /\ T[pos - 1] \notin Sink
  /\ IF IsNew /\ (T[pos] \in Sink => SinkAccepted(T[pos]))
     THEN /\ connected' = connected \cup {T[pos]}
          /\ pinDone' = pinDone \cup (IF T[pos] \in Sink THEN Reached(T[pos]) ELSE {})
          /\ pos' = pos + 1
          /\ UNCHANGED pc
     ELSE /\ pc' = "error"
          /\ UNCHANGED << connected, pinDone, pos >>
  /\ UNCHANGED << input, ipin, inet >>

AllPins == Last(T) \in Sink /\ pinDone = DOMAIN PinSink[inet]

\* reset_flags clears what the net has marked.
NetDone ==
  /\ pc = "net" /\ pos > 1 /\ pos > Len(T)
  /\ IF ~AllPins THEN pc' = "error" /\ UNCHANGED << inet, pos >>
     ELSE IF inet = NumNets THEN pc' = "legal" /\ UNCHANGED << inet, pos >>
     ELSE inet' = inet + 1 /\ pos' = 1 /\ UNCHANGED pc
  /\ connected' = connected \ ToSet(T)
  /\ UNCHANGED << input, ipin, pinDone >>

Stopped == pc \in Ended /\ UNCHANGED vars

Step == Recount \/ CheckLocal \/ LocalsChecked \/ CheckSource \/ Hook \/ Element \/ NetDone

Next == Step \/ Stopped

Spec == Init /\ [][Next]_vars /\ WF_vars(Step)
-----------------------------------------------------------------------------
(* What a routing is *)

Uses(i) == ToSet(trace[i])

Wires(i) == { << trace[i][k - 1], trace[i][k] >> :
                k \in { j \in 2 .. Len(trace[i]) : trace[i][j - 1] \notin Sink } }

\* A subgraph in which every node but the SOURCE has one way in, so that the
\* whole hangs together exactly if it has no cycle; every pin gets its own way
\* into the SINK.
IsTree(i) ==
  LET into(n) == { e \in Wires(i) : e[2] = n }
      up[k \in Nat] ==
        IF k = 0 THEN {Source[i]}
        ELSE LET near == up[k - 1]
             IN  near \cup { e[2] : e \in { w \in Wires(i) : w[1] \in near } }
      pins(n) == { k \in DOMAIN PinSink[i] : PinSink[i][k] = n }
  IN  /\ Wires(i) \subseteq Edge
      /\ into(Source[i]) = {}
      /\ \A n \in Uses(i) \ (Sink \cup {Source[i]}) : Cardinality(into(n)) = 1
      /\ \A n \in Uses(i) : n \in up[Cardinality(Node)]
      /\ \A n \in Sink : Cardinality(into(n)) = Cardinality(pins(n))

WithinCapacity ==
  \A n \in Node :
    Cardinality({ i \in Net : n \in Uses(i) })
      + Cardinality({ k \in DOMAIN local : local[k] = n }) <= Capacity[n]

\* The trace lists its tree: each wire once, a branch to its SINK, the next
\* from a node listed before that is no SINK itself.
IsListing(i) ==
  LET t == trace[i]
  IN  /\ t # <<>> /\ t[1] = Source[i] /\ Last(t) \in Sink
      /\ \A j, k \in 2 .. Len(t) :
           j < k /\ t[j - 1] \notin Sink /\ t[k - 1] \notin Sink
             => << t[j - 1], t[j] >> # << t[k - 1], t[k] >>
      /\ \A k \in 2 .. Len(t) :
           t[k - 1] \in Sink => t[k] \notin Sink /\ \E j \in 1 .. k - 1 : t[j] = t[k]

OneByOne(i) == IsInjective(PinSink[i])

-----------------------------------------------------------------------------
(* Properties *)

\* What check_route lets pass is a routing: every net a tree from its SOURCE to
\* all its SINKs along existing edges, and no node used by more nets than it
\* has room for, though the checker only ever compares neighbours in the list.
\* (For nets with one pin on each SINK.)
AcceptedIsRouting ==
  pc = "legal" =>
    /\ \A i \in Net : OneByOne(i) => IsTree(i)
    /\ WithinCapacity

\* No legal routing is turned away, or stopped by a crash of the checker.
RoutingIsAccepted ==
  pc \in {"error", "crashed"} =>
    ~ /\ \A i \in Net : OneByOne(i) /\ IsTree(i) /\ IsListing(i)
      /\ WithinCapacity
      /\ \A k \in DOMAIN local : local[k] \in Opin /\ OpinClass[local[k]] = 1

\* The checker comes to a verdict, although a loop over the local OPINs has its
\* counter overwritten: the pin numbers are distinct, so it cannot come back to
\* an index it has been at.
Decides == <>(pc \in Ended)
=============================================================================
