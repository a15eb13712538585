----------------------- MODULE ConnectionRouterProofs -----------------------
(***************************************************************************)
(* Proofs about ConnectionRouter, for every device, netlist and option     *)
(* setting that satisfies the assumptions of that module.                  *)
(*                                                                         *)
(* The invariants are proved in layers, each inductive relative to those   *)
(* before it:                                                              *)
(*   Shape        domains and ranges, without signs                        *)
(*   Flow         which connections have a trace and which classes have    *)
(*                reserved their OPINs at each point of the iteration      *)
(*   MapExact     the usage maps count connections                         *)
(*   OccByMap     the occupancies count the nets of the usage maps         *)
(*   SourceOcc    a SOURCE is occupied at most once                        *)
(*   PricesExact  the prices follow from occupancies and maps              *)
(*   Signs        nothing that is subtracted from goes below zero          *)
(*   OverusedAtStart   a later iteration starts with an overused node      *)
(* TypeOK, OccupancyExact, VictimExists, HistoryChargesOveruse and the     *)
(* refinement of NegotiatedRouting follow from these.                      *)
(*                                                                         *)
(* The second part is about the hash tables that ConnectionRouter takes    *)
(* for the functions nodeMap[net] (NodeHashMap): they are bags of rr_nodes *)
(* indeed.  A table is Good when each entry can be found, when no rr_node  *)
(* has two, when the counter is not below the number of entries and these  *)
(* fill less than 35% of the slots.                                        *)
(***************************************************************************)
EXTENDS ConnectionRouter, NodeHashMap, DataInduction

Price == [num : Int, den : Int]

Shape ==
  /\ occ \in [Node -> Int]
  /\ pres \in [Node -> Price]
  /\ presOld \in [Node -> Price]
  /\ usage \in [Node -> Int]
  /\ acc \in [Node -> Int]
  /\ presFac \in Nat
  /\ nodeMap \in [Net -> [Node -> Int]]
  /\ trace \in [Con -> SUBSET Node]
  /\ localOpins \in [Class -> SUBSET Node]
  /\ itry \in 1 .. MaxIter + 1
  /\ pc # "failed" => itry <= MaxIter
  /\ con \in 1 .. NumCons + 1
  /\ class \in 1 .. NumClasses + 1
  /\ pc \in {"next_con", "route", "add", "reserve", "crashed"} \cup Returned
  /\ pc \in Discounted => con \in Con

-----------------------------------------------------------------------------
(* Shape *)

\* The price for one more net is a price.
LEMMA PresCostPrice ==
  ASSUME presFac \in Nat, NEW n \in Node, NEW o \in Int
  PROVE  PresCost(n, o) \in Price
BY NodeAssumption DEF PresCost, Price

\* The shared price is a price.
LEMMA SharedCostPrice ==
  ASSUME presFac \in Nat, NEW n \in Node, NEW o \in Int, NEW u \in Int
  PROVE  SharedCost(n, o, u) \in Price
BY NodeAssumption DEF SharedCost, Price

\* The state has its shape at the start ...
LEMMA ShapeInit == Init => Shape
<1> SUFFICES ASSUME Init PROVE Shape
  OBVIOUS
<1>1. /\ occ \in [Node -> Int] /\ usage \in [Node -> Int] /\ acc \in [Node -> Int]
      /\ presFac \in Nat
  BY OptionAssumption DEF Init
<1>2. pres \in [Node -> Price] /\ presOld \in [Node -> Price]
  BY DEF Init, Price
<1>3. nodeMap \in [Net -> [Node -> Int]]
  BY DEF Init
<1>4. trace \in [Con -> SUBSET Node] /\ localOpins \in [Class -> SUBSET Node]
  BY DEF Init
<1>5. /\ itry \in 1 .. MaxIter + 1 /\ (pc # "failed" => itry <= MaxIter)
      /\ pc \notin Discounted
      /\ con \in 1 .. NumCons + 1 /\ class \in 1 .. NumClasses + 1
      /\ pc \in {"next_con", "route", "add", "reserve", "crashed"} \cup Returned
  BY OptionAssumption, NetAssumption, OpinAssumption DEF Init, Discounted
<1>6. QED
  BY <1>1, <1>2, <1>3, <1>4, <1>5 DEF Shape

\* ... and every action keeps it.
LEMMA ShapeStep == Shape /\ [Next]_vars => Shape'
<1> SUFFICES ASSUME Shape, [Next]_vars PROVE Shape'
  OBVIOUS
<1> USE DEF Shape, Discounted
<1>1. CASE KeepCon
  <2>1. con' \in 1 .. NumCons + 1
    BY <1>1, NetAssumption DEF KeepCon, NextCon, Con
  <2>2. QED
    BY <1>1, <2>1 DEF KeepCon, nodeVars, conVars
<1>2. CASE RipUpCon
  <2>1. con \in Con /\ NetOf[con] \in Net
    BY <1>2, NetAssumption DEF RipUpCon
  <2>2. \A n \in Node : RemainingUse(con, n) \in Int /\ OccWithout(con, n) \in Int
    BY <2>1 DEF RemainingUse, OccWithout
  <2>3. \A n \in Node : PresWithout(con, n) \in Price /\ OldPresWithout(con, n) \in Price
    BY <2>1, <2>2, PresCostPrice, SharedCostPrice DEF PresWithout, OldPresWithout
  <2>4. QED
    BY <1>2, <2>1, <2>2, <2>3 DEF RipUpCon, loopVars
<1>3. ASSUME NEW r, RouteCon(r) PROVE Shape'
  <2>1. con \in 1 .. NumCons + 1 /\ (con \in Con => r \in SUBSET Node)
    BY <1>3, NetAssumption DEF RouteCon
  <2>2. trace' \in [Con -> SUBSET Node]
    BY <1>3, <2>1 DEF RouteCon
  <2>3. QED
    BY <1>3, <2>2 DEF RouteCon, nodeVars, loopVars
<1>4. CASE RouteConFails
  BY <1>4 DEF RouteConFails, nodeVars, loopVars, conVars
<1>5. CASE AddCon
  <2>1. con \in Con /\ NetOf[con] \in Net
    BY <1>5, NetAssumption DEF AddCon
  <2>2. \A n \in Node : IncreasedUse(con, n) \in Int /\ OccWith(con, n) \in Int
    BY <2>1 DEF IncreasedUse, OccWith
  <2>3. \A n \in Node : PresWith(con, n) \in Price
    BY <2>1, <2>2, PresCostPrice DEF PresWith
  <2>4. con' \in 1 .. NumCons + 1
    BY <1>5, <2>1, NetAssumption DEF AddCon, NextCon, Con
  <2>5. QED
    BY <1>5, <2>1, <2>2, <2>3, <2>4 DEF AddCon
<1>6. CASE AddConWithoutTrace
  BY <1>6 DEF AddConWithoutTrace, nodeVars, loopVars, conVars
<1>7. CASE WirelengthAbort
  BY <1>7 DEF WirelengthAbort, nodeVars, loopVars, conVars, Returned
<1>8. CASE ReleaseOpins
  <2>1. \A n \in Node : PresCost(n, occ[n] - 1) \in Price
    BY PresCostPrice
  <2>2. class' \in 1 .. NumClasses + 1
    BY <1>8, OpinAssumption DEF ReleaseOpins
  <2>3. QED
    BY <1>8, <2>1, <2>2 DEF ReleaseOpins, conVars
<1>9. ASSUME NEW S, ReserveOpins(S) PROVE Shape'
  <2>1. class \in Class /\ S \in SUBSET Node
    BY <1>9, OpinAssumption DEF ReserveOpins
  <2>2. \A n \in Node : PresCost(n, occ[n] + 1) \in Price
    BY PresCostPrice
  <2>3. \A n \in Node : acc[n] + (occ[n] + 1 - Capacity[n]) * AccFac \in Int
    BY NodeAssumption, OptionAssumption
  <2>4. class' \in 1 .. NumClasses + 1
    BY <1>9, <2>1, OpinAssumption DEF ReserveOpins, Class
  <2>5. QED
    BY <1>9, <2>1, <2>2, <2>3, <2>4 DEF ReserveOpins
<1>10. CASE PredictorAbort
  BY <1>10 DEF PredictorAbort, nodeVars, loopVars, conVars, Returned
<1>11. CASE Succeed
  BY <1>11 DEF Succeed, nodeVars, loopVars, conVars, Returned
<1>12. CASE NextIteration
  <2>1. NextPresFac \in Nat
    BY OptionAssumption DEF NextPresFac
  <2>2. \A n \in Node : ChargedAcc(n) \in Int
    BY NodeAssumption, OptionAssumption DEF ChargedAcc
  <2>3. \A n \in Node : RepricedPres(n) \in Price
    BY <2>1, NodeAssumption DEF RepricedPres, Price
  <2>4. itry' \in 1 .. MaxIter + 1 /\ (pc' # "failed" => itry' <= MaxIter)
    BY <1>12, OptionAssumption DEF NextIteration
  <2>5. con' \in 1 .. NumCons + 1
    BY <1>12, NetAssumption DEF NextIteration
  <2>6. QED
    BY <1>12, <2>1, <2>2, <2>3, <2>4, <2>5 DEF NextIteration, conVars, Returned
<1>13. CASE UNCHANGED vars
  BY <1>13 DEF vars, nodeVars, loopVars, conVars
<1>14. QED
  BY <1>1, <1>2, <1>3, <1>4, <1>5, <1>6, <1>7, <1>8, <1>9, <1>10, <1>11, <1>12,
     <1>13 DEF Next, Stopped

-----------------------------------------------------------------------------
(* Flow *)

Flow ==
  /\ \A c \in Con : trace[c] \in Routes[c] \cup {{}}
  /\ \A c \in Con : trace[c] = {} => \/ itry = 1 /\ con <= c
                                     \/ c = con /\ pc \in Discounted
  /\ pc \in {"route", "crashed"} => trace[con] = {}
  /\ pc \in {"reserve", "success"} => con = NumCons + 1
  /\ pc = "success" => class = NumClasses + 1
  /\ \A k \in Class : localOpins[k] \subseteq ClassOpins[k]
  /\ \A k \in Class :
       itry > 1 \/ (pc \in {"reserve", "success"} /\ k < class)
         => Cardinality(localOpins[k]) = NumLocal[k]
  /\ itry = 1 /\ pc \in {"next_con", "route", "add"}
       => \A k \in Class : localOpins[k] = {}

\* At the start no connection has a trace and nothing is reserved.
LEMMA FlowInit == Init => Flow
<1> SUFFICES ASSUME Init PROVE Flow
  OBVIOUS
<1>1. \A c \in Con : trace[c] = {} /\ con <= c /\ itry = 1
  BY NetAssumption DEF Init, Con
<1>2. /\ \A k \in Class : localOpins[k] = {} /\ localOpins[k] \subseteq ClassOpins[k]
      /\ itry = 1 /\ ~(itry > 1) /\ pc = "next_con"
  BY DEF Init
<1>3. \A c \in Con : trace[c] \in Routes[c] \cup {{}}
  BY <1>1
<1>4. pc \notin {"route", "crashed", "reserve", "success"} /\ pc # "success"
  BY <1>2
<1>5. QED
  BY <1>1, <1>2, <1>3, <1>4 DEF Flow

\* Connections get and lose traces, and classes reservations, in the order of
\* the iteration only.
LEMMA FlowStep == Shape /\ Flow /\ [Next]_vars => Flow'
<1> SUFFICES ASSUME Shape, Flow, [Next]_vars PROVE Flow'
  OBVIOUS
<1> USE DEF Shape, Flow, Discounted
<1>1. CASE KeepCon
  BY <1>1, NetAssumption DEF KeepCon, NextCon, ShouldRoute, nodeVars, conVars, Con
<1>2. CASE RipUpCon
  BY <1>2 DEF RipUpCon, loopVars
<1>3. ASSUME NEW r, RouteCon(r) PROVE Flow'
  <2>1. r # {}
    BY <1>3, RouteAssumption DEF RouteCon
  <2>2. /\ con \in Con /\ r \in Routes[con] /\ trace' = [trace EXCEPT ![con] = r]
        /\ pc = "route" /\ pc' = "add"
        /\ UNCHANGED << con, itry, class, localOpins >>
    BY <1>3 DEF RouteCon, loopVars
  <2>3. QED
    BY <2>1, <2>2
<1>4. CASE RouteConFails
  BY <1>4 DEF RouteConFails, nodeVars, loopVars, conVars
<1>5. CASE AddCon
  <2>1. /\ pc = "add" /\ pc' = "next_con" /\ trace[con] # {} /\ con' = con + 1
        /\ UNCHANGED << itry, class, trace, localOpins >>
    BY <1>5 DEF AddCon, NextCon
  <2>2. ASSUME NEW c \in Con, trace[c] = {}
        PROVE  itry = 1 /\ con + 1 <= c
    <3>1. c # con /\ itry = 1 /\ con <= c
      BY <2>1, <2>2
    <3>2. c \in Int /\ con \in Int
      BY NetAssumption DEF Con
    <3>3. QED
      BY <3>1, <3>2, SMTT(30)
  <2>3. \A c \in Con : trace'[c] = {} => itry' = 1 /\ con' <= c
    BY <2>1, <2>2
  <2>4. \A c \in Con : trace'[c] \in Routes[c] \cup {{}}
    BY <2>1
  <2>5. pc' \notin {"route", "crashed", "reserve", "success"}
    BY <2>1
  <2>6. \A k \in Class : itry' > 1 => Cardinality(localOpins'[k]) = NumLocal[k]
    BY <2>1
  <2>7. itry' = 1 => \A k \in Class : localOpins'[k] = {}
    BY <2>1
  <2>8. \A k \in Class : localOpins'[k] \subseteq ClassOpins[k]
    BY <2>1
  <2>9. QED
    BY <2>3, <2>4, <2>5, <2>6, <2>7, <2>8
<1>6. CASE AddConWithoutTrace
  BY <1>6 DEF AddConWithoutTrace, nodeVars, loopVars, conVars
<1>7. CASE WirelengthAbort
  BY <1>7 DEF WirelengthAbort, nodeVars, loopVars, conVars
<1>8. CASE ReleaseOpins
  <2>1. /\ pc = "next_con" /\ pc' = "reserve" /\ con = NumCons + 1 /\ class' = 1
        /\ UNCHANGED << con, itry, trace, localOpins >>
    BY <1>8 DEF ReleaseOpins, conVars
  <2>2. \A c \in Con : trace[c] # {}
    BY <2>1, NetAssumption DEF Con
  <2>3. \A k \in Class : ~(k < class')
    BY <2>1, OpinAssumption DEF Class
  <2>4. QED
    BY <2>1, <2>2, <2>3
<1>9. ASSUME NEW S, ReserveOpins(S) PROVE Flow'
  <2>1. /\ pc = "reserve" /\ pc' = "reserve" /\ class' = class + 1
        /\ class \in Class /\ S \subseteq ClassOpins[class]
        /\ Cardinality(S) = NumLocal[class]
        /\ localOpins' = [localOpins EXCEPT ![class] = S]
        /\ UNCHANGED << con, itry, trace >>
    BY <1>9 DEF ReserveOpins
  <2>2. QED
    BY <2>1, OpinAssumption DEF Class
<1>10. CASE PredictorAbort
  BY <1>10 DEF PredictorAbort, nodeVars, loopVars, conVars
<1>11. CASE Succeed
  BY <1>11 DEF Succeed, nodeVars, loopVars, conVars
<1>12. CASE NextIteration
  <2>1. /\ pc = "reserve" /\ pc' \in {"failed", "next_con"} /\ itry' = itry + 1
        /\ con' = 1 /\ class = NumClasses + 1
        /\ UNCHANGED << class, trace, localOpins >>
    BY <1>12 DEF NextIteration, conVars
  <2>2. \A c \in Con : trace[c] # {}
    <3>1. con = NumCons + 1 /\ ~(pc \in Discounted)
      BY <2>1
    <3>2. \A c \in Con : ~(con <= c)
      BY <3>1, NetAssumption DEF Con
    <3> QED BY <3>1, <3>2
  <2>3. \A k \in Class : Cardinality(localOpins[k]) = NumLocal[k]
    BY <2>1, OpinAssumption DEF Class
  <2>4. itry' # 1
    BY <2>1
  <2>5. QED
    BY <2>1, <2>2, <2>3, <2>4
<1>13. CASE UNCHANGED vars
  BY <1>13 DEF vars, nodeVars, loopVars, conVars
<1>14. QED
  BY <1>1, <1>2, <1>3, <1>4, <1>5, <1>6, <1>7, <1>8, <1>9, <1>10, <1>11, <1>12,
     <1>13 DEF Next, Stopped

-----------------------------------------------------------------------------
(* The usage maps *)

ConsOn(i, n) == {c \in Con : NetOf[c] = i /\ n \in OnBoard(c)}

\* There are finitely many connections.
LEMMA FiniteCon == IsFiniteSet(Con)
BY NetAssumption, FS_Interval DEF Con

\* The connections of a net through a node can be counted.
LEMMA ConsOnFinite ==
  ASSUME NEW i, NEW n
  PROVE  IsFiniteSet(ConsOn(i, n)) /\ Cardinality(ConsOn(i, n)) \in Nat
BY FiniteCon, FS_Subset, FS_CardinalityType DEF ConsOn

\* init_graph_to_source: a new map holds the SOURCE once.
LEMMA MapExactInit == Init => MapExact
<1> SUFFICES ASSUME Init, NEW i \in Net, NEW n \in Node
             PROVE  nodeMap[i][n] = Cardinality({c \in Con : NetOf[c] = i /\ n \in OnBoard(c)})
                                    + (IF n = Source[i] THEN 1 ELSE 0)
  BY DEF MapExact
<1>1. {c \in Con : NetOf[c] = i /\ n \in OnBoard(c)} = {}
  BY DEF Init, OnBoard
<1>2. Cardinality({c \in Con : NetOf[c] = i /\ n \in OnBoard(c)}) = 0
  BY <1>1, FS_EmptySet
<1>3. nodeMap[i][n] = IF n = Source[i] THEN 1 ELSE 0
  BY DEF Init
<1>4. QED
  BY <1>2, <1>3

\* rip_up_con_td and add_con_td change a count exactly with the trace.
LEMMA MapExactStep == Shape /\ Flow /\ MapExact /\ [Next]_vars => MapExact'
<1> SUFFICES ASSUME Shape, Flow, MapExact, [Next]_vars,
                    NEW i \in Net, NEW n \in Node
             PROVE  nodeMap'[i][n] = Cardinality(ConsOn(i, n)')
                                     + (IF n = Source[i] THEN 1 ELSE 0)
  BY DEF MapExact, ConsOn
<1>a. nodeMap[i][n] = Cardinality(ConsOn(i, n)) + (IF n = Source[i] THEN 1 ELSE 0)
  BY DEF MapExact, ConsOn
<1>f. IsFiniteSet(ConsOn(i, n)) /\ Cardinality(ConsOn(i, n)) \in Nat
  BY ConsOnFinite
<1>2. CASE RipUpCon
  <2>1. CASE i = NetOf[con] /\ n \in trace[con]
    <3>1. ConsOn(i, n)' = ConsOn(i, n) \ {con}
      BY <1>2, <2>1 DEF RipUpCon, ConsOn, OnBoard, Shape, loopVars
    <3>2. con \in ConsOn(i, n)
      BY <1>2, <2>1 DEF RipUpCon, ConsOn, OnBoard
    <3>3. nodeMap'[i][n] = nodeMap[i][n] - 1
      BY <1>2, <2>1 DEF RipUpCon, RemainingUse, Shape
    <3>4. Cardinality(ConsOn(i, n)') = Cardinality(ConsOn(i, n)) - 1
      BY <3>1, <3>2, <1>f, FS_RemoveElement
    <3>5. QED
      BY <3>3, <3>4, <1>a, <1>f
  <2>2. CASE ~(i = NetOf[con] /\ n \in trace[con])
    <3>1. ConsOn(i, n)' = ConsOn(i, n)
      BY <1>2, <2>2 DEF RipUpCon, ConsOn, OnBoard, Shape, loopVars
    <3>2. nodeMap'[i][n] = nodeMap[i][n]
      BY <1>2, <2>2 DEF RipUpCon, RemainingUse, Shape
    <3>3. QED
      BY <3>1, <3>2, <1>a
  <2>3. QED
    BY <2>1, <2>2
<1>3. ASSUME NEW r, RouteCon(r) PROVE nodeMap'[i][n] = nodeMap[i][n] /\ ConsOn(i, n)' = ConsOn(i, n)
  BY <1>3 DEF RouteCon, loopVars, ConsOn, OnBoard, Shape, Flow, Discounted
<1>5. CASE AddCon
  <2>0. con \in Con /\ con # con'
    BY <1>5 DEF AddCon, NextCon, Shape, Discounted, Con
  <2>1. CASE i = NetOf[con] /\ n \in trace[con]
    <3>1. ConsOn(i, n)' = ConsOn(i, n) \cup {con}
      BY <1>5, <2>0, <2>1 DEF AddCon, ConsOn, OnBoard, Shape
    <3>2. con \notin ConsOn(i, n)
      BY <1>5 DEF AddCon, ConsOn, OnBoard
    <3>3. nodeMap'[i][n] = nodeMap[i][n] + 1
      BY <1>5, <2>1 DEF AddCon, IncreasedUse, Shape
    <3>4. Cardinality(ConsOn(i, n)') = Cardinality(ConsOn(i, n)) + 1
      BY <3>1, <3>2, <1>f, FS_AddElement
    <3>5. QED
      BY <3>3, <3>4, <1>a, <1>f
  <2>2. CASE ~(i = NetOf[con] /\ n \in trace[con])
    <3>1. ConsOn(i, n)' = ConsOn(i, n)
      BY <1>5, <2>0, <2>2 DEF AddCon, ConsOn, OnBoard, Shape
    <3>2. nodeMap'[i][n] = nodeMap[i][n]
      BY <1>5, <2>0, <2>2 DEF AddCon, IncreasedUse, Shape
    <3>3. QED
      BY <3>1, <3>2, <1>a
  <2>3. QED
    BY <2>1, <2>2
<1>6. CASE nodeMap' = nodeMap /\ \A c \in Con : OnBoard(c)' = OnBoard(c)
  BY <1>6, <1>a DEF ConsOn
<1>7. CASE RouteConFails
  BY <1>7, <1>6 DEF RouteConFails, nodeVars, loopVars, conVars, OnBoard, Flow
<1>8. CASE AddConWithoutTrace
  BY <1>8, <1>6 DEF AddConWithoutTrace, nodeVars, loopVars, conVars, OnBoard
<1>9. CASE KeepCon \/ WirelengthAbort \/ ReleaseOpins \/ PredictorAbort \/ Succeed
  BY <1>9, <1>6 DEF KeepCon, WirelengthAbort, ReleaseOpins, PredictorAbort, Succeed,
                    nodeVars, loopVars, conVars, OnBoard
<1>10. ASSUME NEW S, ReserveOpins(S) PROVE nodeMap' = nodeMap /\ \A c \in Con : OnBoard(c)' = OnBoard(c)
  BY <1>10 DEF ReserveOpins, OnBoard
<1>11. CASE NextIteration
  BY <1>11, <1>6 DEF NextIteration, conVars, OnBoard
<1>12. CASE UNCHANGED vars
  BY <1>12, <1>6 DEF vars, nodeVars, loopVars, conVars, OnBoard
<1>13. QED
  BY <1>a, <1>2, <1>3, <1>5, <1>6, <1>7, <1>8, <1>9, <1>10, <1>11, <1>12
     DEF Next, Stopped

-----------------------------------------------------------------------------
(* Occupancies *)

Users(n) == {i \in Net : nodeMap[i][n] > 0}

OccByMap ==
  \A n \in Node \ Sources :
    occ[n] = Cardinality(Users(n)) + (IF IsHeld(n) THEN 1 ELSE 0)

\* The root of the usage map keeps a SOURCE from ever being released.
SourceOcc == \A n \in Sources : occ[n] \in {0, 1}

\* The nets that use a node can be counted.
LEMMA UsersFinite ==
  ASSUME NEW n
  PROVE  IsFiniteSet(Users(n)) /\ Cardinality(Users(n)) \in Nat
BY NetAssumption, FS_Subset, FS_CardinalityType DEF Users

\* A node is in the map of a net exactly if a connection of the net holds it
\* or it is the SOURCE; a SOURCE that a connection holds is in it twice or more.
LEMMA MapSign ==
  ASSUME Shape, MapExact, NEW i \in Net, NEW n \in Node
  PROVE  /\ nodeMap[i][n] \in Nat
         /\ n = Source[i] => nodeMap[i][n] > 0
         /\ \A c \in Con : NetOf[c] = i /\ n \in OnBoard(c) => nodeMap[i][n] > 0
         /\ \A c \in Con : NetOf[c] = i /\ n \in OnBoard(c) /\ n = Source[i]
                            => nodeMap[i][n] > 1
         /\ nodeMap[i][n] > 0 /\ n # Source[i]
              => \E c \in Con : NetOf[c] = i /\ n \in OnBoard(c)
<1>1. nodeMap[i][n] = Cardinality(ConsOn(i, n)) + (IF n = Source[i] THEN 1 ELSE 0)
  BY DEF MapExact, ConsOn
<1>2. IsFiniteSet(ConsOn(i, n)) /\ Cardinality(ConsOn(i, n)) \in Nat
  BY ConsOnFinite
<1>3. Cardinality(ConsOn(i, n)) = 0 <=> ConsOn(i, n) = {}
  BY <1>2, FS_EmptySet
<1>4. Cardinality(ConsOn(i, n)) > 0 <=> \E c \in Con : NetOf[c] = i /\ n \in OnBoard(c)
  BY <1>2, <1>3 DEF ConsOn
<1>5. QED
  BY <1>1, <1>2, <1>4

\* A trace holds no SOURCE but that of its own net.
LEMMA TraceSources ==
  ASSUME Flow, NEW c \in Con, NEW n \in trace[c], n \in Sources
  PROVE  n = Source[NetOf[c]]
BY RouteAssumption DEF Flow

\* Nothing is occupied at the start.
LEMMA OccInit == Init => OccByMap /\ SourceOcc
<1> SUFFICES ASSUME Init PROVE OccByMap /\ SourceOcc
  OBVIOUS
<1>1. SourceOcc
  BY NetAssumption DEF Init, SourceOcc, Sources
<1>2. ASSUME NEW n \in Node \ Sources
      PROVE  occ[n] = Cardinality(Users(n)) + (IF IsHeld(n) THEN 1 ELSE 0)
  <2>1. Users(n) = {}
    BY DEF Init, Users, Sources
  <2>2. ~IsHeld(n) /\ occ[n] = 0
    BY DEF Init, IsHeld
  <2>3. QED
    BY <2>1, <2>2, FS_EmptySet
<1>3. QED
  BY <1>1, <1>2 DEF OccByMap

\* A SOURCE is never released, and occupied at most once (by the first
\* connection that enters it: every other finds it both occupied and in use).
LEMMA SourceOccStep ==
  Shape /\ Flow /\ MapExact /\ SourceOcc /\ [Next]_vars => SourceOcc'
<1> SUFFICES ASSUME Shape, Flow, MapExact, SourceOcc, [Next]_vars, NEW n \in Sources
             PROVE  occ'[n] \in {0, 1}
  BY DEF SourceOcc
<1>0. n \in Node /\ occ[n] \in {0, 1}
  BY NetAssumption DEF SourceOcc, Sources
<1>1. CASE RipUpCon
  <2>1. con \in Con /\ NetOf[con] \in Net /\ OnBoard(con) = trace[con]
    BY <1>1, NetAssumption DEF RipUpCon, OnBoard
  <2>2. n \in trace[con] => nodeMap[NetOf[con]][n] > 1
    BY <1>0, <2>1, TraceSources, MapSign
  <2>3. n \in trace[con] => RemainingUse(con, n) # 0
    BY <1>0, <2>1, <2>2, MapSign DEF RemainingUse
  <2>4. QED
    BY <1>0, <1>1, <2>3 DEF RipUpCon, OccWithout
<1>2. CASE AddCon
  <2>1. con \in Con /\ NetOf[con] \in Net
    BY <1>2, NetAssumption DEF AddCon, Shape, Discounted
  <2>2. n \in trace[con] => nodeMap[NetOf[con]][n] > 0 /\ nodeMap[NetOf[con]][n] \in Nat
    BY <1>0, <2>1, TraceSources, MapSign
  <2>3. n \in trace[con] => IncreasedUse(con, n) > 1
    BY <2>2 DEF IncreasedUse
  <2>4. QED
    BY <1>0, <1>2, <2>3 DEF AddCon, OccWith
<1>3. CASE ReleaseOpins
  <2>1. ~IsReleased(n)
    BY OpinAssumption DEF IsReleased, Flow
  <2>2. QED
    BY <1>0, <1>3, <2>1 DEF ReleaseOpins
<1>4. ASSUME NEW S, ReserveOpins(S) PROVE occ'[n] \in {0, 1}
  <2>1. n \notin S
    BY <1>4, OpinAssumption DEF ReserveOpins
  <2>2. QED
    BY <1>0, <1>4, <2>1 DEF ReserveOpins
<1>5. CASE UNCHANGED occ
  BY <1>0, <1>5
<1>6. ASSUME NEW r, RouteCon(r) PROVE UNCHANGED occ
  BY <1>6 DEF RouteCon, nodeVars
<1>7. QED
  BY <1>1, <1>2, <1>3, <1>4, <1>5, <1>6
     DEF Next, KeepCon, RouteConFails, AddConWithoutTrace, WirelengthAbort,
         PredictorAbort, Succeed, NextIteration, Stopped, vars, nodeVars

\* Every action that moves a net on or off a node, or reserves or releases it,
\* changes the occupancy of the node by one; no other action does.
LEMMA OccByMapStep ==
  Shape /\ Flow /\ MapExact /\ OccByMap /\ [Next]_vars => OccByMap'
<1> SUFFICES ASSUME Shape, Flow, MapExact, OccByMap, [Next]_vars, NEW n \in Node \ Sources
             PROVE  occ'[n] = Cardinality(Users(n)') + (IF IsHeld(n)' THEN 1 ELSE 0)
  BY DEF OccByMap
<1>0. /\ n \in Node /\ occ[n] \in Int
      /\ occ[n] = Cardinality(Users(n)) + (IF IsHeld(n) THEN 1 ELSE 0)
  BY DEF OccByMap, Shape
<1>f. IsFiniteSet(Users(n)) /\ Cardinality(Users(n)) \in Nat
  BY UsersFinite
<1>1. CASE RipUpCon
  <2>0. con \in Con /\ NetOf[con] \in Net /\ OnBoard(con) = trace[con]
    BY <1>1, NetAssumption DEF RipUpCon, OnBoard
  <2>1. IsHeld(n)' <=> IsHeld(n)
    BY <1>1 DEF RipUpCon, IsHeld, loopVars
  <2>2. /\ nodeMap[NetOf[con]][n] \in Nat
        /\ n \in trace[con] => nodeMap[NetOf[con]][n] > 0
    BY <1>0, <2>0, MapSign
  <2>3. \A i \in Net : nodeMap'[i][n] = IF i = NetOf[con] THEN RemainingUse(con, n)
                                        ELSE nodeMap[i][n]
    BY <1>0, <1>1, <2>0 DEF RipUpCon, Shape
  <2>4. occ'[n] = OccWithout(con, n)
    BY <1>0, <1>1 DEF RipUpCon
  <2>5. CASE n \in trace[con] /\ RemainingUse(con, n) = 0
    <3>1. Users(n)' = Users(n) \ {NetOf[con]} /\ NetOf[con] \in Users(n)
      BY <2>0, <2>2, <2>3, <2>5 DEF Users
    <3>2. Cardinality(Users(n)') = Cardinality(Users(n)) - 1
      BY <3>1, <1>f, FS_RemoveElement
    <3>3. occ'[n] = occ[n] - 1
      BY <2>4, <2>5 DEF OccWithout
    <3>4. QED
      BY <1>0, <1>f, <2>1, <3>2, <3>3
  <2>6. CASE ~(n \in trace[con] /\ RemainingUse(con, n) = 0)
    <3>0. RemainingUse(con, n) > 0 <=> nodeMap[NetOf[con]][n] > 0
      BY <2>2, <2>6 DEF RemainingUse
    <3>1. Users(n)' = Users(n)
      BY <2>0, <2>3, <3>0 DEF Users
    <3>2. occ'[n] = occ[n]
      BY <2>4, <2>6 DEF OccWithout
    <3>3. QED
      BY <1>0, <2>1, <3>1, <3>2
  <2>7. QED
    BY <2>5, <2>6
<1>2. CASE AddCon
  <2>0. con \in Con /\ NetOf[con] \in Net
    BY <1>2, NetAssumption DEF AddCon, Shape, Discounted
  <2>1. IsHeld(n)' <=> IsHeld(n)
    BY <1>2 DEF AddCon, IsHeld
  <2>2. nodeMap[NetOf[con]][n] \in Nat
    BY <1>0, <2>0, MapSign
  <2>3. \A i \in Net : nodeMap'[i][n] = IF i = NetOf[con] THEN IncreasedUse(con, n)
                                        ELSE nodeMap[i][n]
    BY <1>0, <1>2, <2>0 DEF AddCon, Shape
  <2>4. occ'[n] = OccWith(con, n)
    BY <1>0, <1>2 DEF AddCon
  <2>5. CASE n \in trace[con] /\ nodeMap[NetOf[con]][n] = 0
    <3>1. Users(n)' = Users(n) \cup {NetOf[con]} /\ NetOf[con] \notin Users(n)
      BY <2>0, <2>3, <2>5 DEF Users, IncreasedUse
    <3>2. Cardinality(Users(n)') = Cardinality(Users(n)) + 1
      BY <3>1, <1>f, FS_AddElement
    <3>3. occ'[n] = occ[n] + 1
      BY <2>4, <2>5 DEF OccWith, IncreasedUse
    <3>4. QED
      BY <1>0, <1>f, <2>1, <3>2, <3>3
  <2>6. CASE ~(n \in trace[con] /\ nodeMap[NetOf[con]][n] = 0)
    <3>0. IncreasedUse(con, n) > 0 <=> nodeMap[NetOf[con]][n] > 0
      BY <2>2, <2>6 DEF IncreasedUse
    <3>1. Users(n)' = Users(n)
      BY <2>0, <2>3, <3>0 DEF Users
    <3>2. n \in trace[con] => NetOf[con] \in Users(n)
      BY <2>0, <2>2, <2>6 DEF Users
    <3>3. n \in trace[con] => Cardinality(Users(n)) > 0
      BY <3>2, <1>f, FS_EmptySet
    <3>4. n \in trace[con] => occ[n] > 0 /\ IncreasedUse(con, n) > 1
      BY <1>0, <1>f, <2>2, <2>6, <3>3 DEF IncreasedUse
    <3>5. occ'[n] = occ[n]
      BY <2>4, <3>4 DEF OccWith
    <3>6. QED
      BY <1>0, <2>1, <3>1, <3>5
  <2>7. QED
    BY <2>5, <2>6
<1>3. CASE ReleaseOpins
  <2>1. ~IsHeld(n)'
    BY <1>3, OpinAssumption DEF ReleaseOpins, IsHeld, Class
  <2>2. IsReleased(n) <=> IsHeld(n)
    BY <1>3 DEF ReleaseOpins, IsReleased, IsHeld, Flow
  <2>3. Users(n)' = Users(n)
    BY <1>3 DEF ReleaseOpins, conVars, Users
  <2>4. occ'[n] = IF IsReleased(n) THEN occ[n] - 1 ELSE occ[n]
    BY <1>0, <1>3 DEF ReleaseOpins
  <2>5. QED
    BY <1>0, <1>f, <2>1, <2>2, <2>3, <2>4
<1>4. ASSUME NEW S, ReserveOpins(S)
      PROVE  occ'[n] = Cardinality(Users(n)') + (IF IsHeld(n)' THEN 1 ELSE 0)
  <2>1. /\ class \in Class /\ S \subseteq ClassOpins[class] /\ class' = class + 1
        /\ localOpins' = [localOpins EXCEPT ![class] = S]
        /\ pc = "reserve" /\ pc' = "reserve"
    BY <1>4 DEF ReserveOpins
  <2>2. n \in S => ~IsHeld(n)
    BY <2>1, OpinAssumption DEF IsHeld, Flow, Class
  <2>3. \A k \in Class : ~(k >= class') <=> ~(k >= class) \/ k = class
    BY <2>1, OpinAssumption DEF Class
  <2>4. \A k \in Class : localOpins'[k] = IF k = class THEN S ELSE localOpins[k]
    BY <2>1 DEF Shape
  <2>5. class >= class
    BY <2>1 DEF Class
  <2>6. IsHeld(n)' <=> IsHeld(n) \/ n \in S
    BY <2>1, <2>3, <2>4, <2>5 DEF IsHeld
  <2>7. Users(n)' = Users(n)
    BY <1>4 DEF ReserveOpins, Users
  <2>8. occ'[n] = IF n \in S THEN occ[n] + 1 ELSE occ[n]
    BY <1>0, <1>4 DEF ReserveOpins
  <2>9. QED
    BY <1>0, <1>f, <2>2, <2>6, <2>7, <2>8
<1>5. CASE UNCHANGED << occ, nodeMap >> /\ (IsHeld(n)' <=> IsHeld(n))
  BY <1>0, <1>5 DEF Users
<1>6. ASSUME NEW r, RouteCon(r) PROVE UNCHANGED << occ, nodeMap >> /\ (IsHeld(n)' <=> IsHeld(n))
  BY <1>6 DEF RouteCon, nodeVars, loopVars, IsHeld
<1>7. CASE KeepCon \/ RouteConFails \/ AddConWithoutTrace \/ WirelengthAbort
  BY <1>5, <1>7 DEF KeepCon, RouteConFails, AddConWithoutTrace, WirelengthAbort,
                    nodeVars, loopVars, conVars, IsHeld
<1>8. CASE PredictorAbort \/ Succeed \/ NextIteration
  <2>1. \A k \in Class : ~(k >= class)
    BY <1>8, OpinAssumption DEF PredictorAbort, Succeed, NextIteration, Class
  <2>2. UNCHANGED << occ, nodeMap, localOpins, class >>
    BY <1>8 DEF PredictorAbort, Succeed, NextIteration, nodeVars, loopVars, conVars
  <2>3. IsHeld(n)' <=> IsHeld(n)
    BY <2>1, <2>2 DEF IsHeld
  <2>4. QED
    BY <1>5, <2>2, <2>3
<1>9. CASE UNCHANGED vars
  BY <1>5, <1>9 DEF vars, nodeVars, loopVars, conVars, IsHeld
<1>10. QED
  BY <1>1, <1>2, <1>3, <1>4, <1>5, <1>6, <1>7, <1>8, <1>9 DEF Next, Stopped

-----------------------------------------------------------------------------
(* Prices *)

\* At the start all prices are one and no discount is in force.
LEMMA PricesInit == Init => PricesExact
BY NodeAssumption DEF Init, PricesExact, PresCost, Discounted

\* Every action that changes an occupancy, the present factor or the set of
\* discounted nodes reprices exactly the nodes it affects.
LEMMA PricesStep ==
  Shape /\ Flow /\ MapExact /\ PricesExact /\ [Next]_vars => PricesExact'
<1> SUFFICES ASSUME Shape, Flow, MapExact, PricesExact, [Next]_vars, NEW n \in Node
             PROVE  (IF pc \in Discounted /\ nodeMap[NetOf[con]][n] > 0
                     THEN /\ pres[n] = SharedCost(n, occ[n], nodeMap[NetOf[con]][n])
                          /\ presOld[n] = PresCost(n, occ[n])
                          /\ usage[n] = nodeMap[NetOf[con]][n]
                     ELSE /\ pres[n] = PresCost(n, occ[n])
                          /\ usage[n] = 0)'
  BY DEF PricesExact
<1>0. IF pc \in Discounted /\ nodeMap[NetOf[con]][n] > 0
      THEN /\ pres[n] = SharedCost(n, occ[n], nodeMap[NetOf[con]][n])
           /\ presOld[n] = PresCost(n, occ[n])
           /\ usage[n] = nodeMap[NetOf[con]][n]
      ELSE /\ pres[n] = PresCost(n, occ[n])
           /\ usage[n] = 0
  BY DEF PricesExact
<1>1. CASE RipUpCon
  <2>0. con \in Con /\ NetOf[con] \in Net /\ OnBoard(con) = trace[con]
    BY <1>1, NetAssumption DEF RipUpCon, OnBoard
  <2>1. nodeMap[NetOf[con]][n] \in Nat /\ (n \in trace[con] => nodeMap[NetOf[con]][n] > 0)
    BY <2>0, MapSign
  <2>2. RemainingUse(con, n) \in Nat
    BY <2>1 DEF RemainingUse
  <2>3. nodeMap'[NetOf[con]][n] = RemainingUse(con, n)
    BY <1>1, <2>0 DEF RipUpCon, Shape
  <2>4. /\ pres[n] = PresCost(n, occ[n]) /\ usage[n] = 0
        /\ con' = con /\ presFac' = presFac /\ pc' \in Discounted
    BY <1>0, <1>1 DEF RipUpCon, loopVars, Discounted
  <2>5. /\ occ'[n] = OccWithout(con, n)
        /\ pres'[n] = PresWithout(con, n)
        /\ presOld'[n] = OldPresWithout(con, n)
        /\ usage'[n] = IF RemainingUse(con, n) > 0 THEN RemainingUse(con, n) ELSE usage[n]
    BY <1>1 DEF RipUpCon
  <2>6. n \notin trace[con] => OccWithout(con, n) = occ[n]
    BY DEF OccWithout
  <2>7. \A o, u : PresCost(n, o)' = PresCost(n, o') /\ SharedCost(n, o, u)' = SharedCost(n, o', u')
    BY <2>4 DEF PresCost, SharedCost
  <2>8. CASE RemainingUse(con, n) > 0
    <3>1. pres'[n] = SharedCost(n, occ'[n], RemainingUse(con, n))
      BY <2>5, <2>8 DEF PresWithout
    <3>2. presOld'[n] = PresCost(n, occ'[n])
      BY <2>4, <2>5, <2>6, <2>8 DEF OldPresWithout
    <3>3. QED
      BY <2>3, <2>4, <2>5, <2>8, <3>1, <3>2 DEF PresCost, SharedCost
  <2>9. CASE ~(RemainingUse(con, n) > 0)
    <3>1. pres'[n] = PresCost(n, occ'[n])
      BY <2>4, <2>5, <2>6, <2>9 DEF PresWithout
    <3>2. QED
      BY <2>3, <2>4, <2>5, <2>9, <3>1 DEF PresCost
  <2>10. QED
    BY <2>8, <2>9
<1>2. ASSUME NEW r, RouteCon(r)
      PROVE  /\ UNCHANGED << occ, pres, presOld, usage, presFac, nodeMap, con >>
             /\ pc \in Discounted <=> pc' \in Discounted
  BY <1>2 DEF RouteCon, nodeVars, loopVars, Discounted
<1>3. CASE /\ UNCHANGED << occ, pres, presOld, usage, presFac, nodeMap, con >>
           /\ pc \in Discounted <=> pc' \in Discounted
  BY <1>0, <1>3 DEF PresCost, SharedCost
<1>4. CASE RouteConFails \/ AddConWithoutTrace
  BY <1>3, <1>4 DEF RouteConFails, AddConWithoutTrace, nodeVars, loopVars, conVars, Discounted
<1>5. CASE AddCon
  <2>0. con \in Con /\ NetOf[con] \in Net /\ pc \in Discounted
    BY <1>5, NetAssumption DEF AddCon, Shape, Discounted
  <2>1. /\ pres'[n] = PresWith(con, n) /\ occ'[n] = OccWith(con, n)
        /\ usage'[n] = IF nodeMap[NetOf[con]][n] > 0 THEN 0 ELSE usage[n]
        /\ presFac' = presFac /\ pc' \notin Discounted
    BY <1>5 DEF AddCon, Discounted
  <2>2. n \notin trace[con] => OccWith(con, n) = occ[n]
    BY DEF OccWith
  <2>3. pres'[n] = PresCost(n, occ'[n])
    BY <1>0, <2>0, <2>1, <2>2 DEF PresWith
  <2>4. usage'[n] = 0
    BY <1>0, <2>0, <2>1
  <2>5. QED
    BY <2>1, <2>3, <2>4 DEF PresCost
<1>6. CASE ReleaseOpins
  <2>1. /\ pc \notin Discounted /\ pc' \notin Discounted
        /\ UNCHANGED << usage, presFac >>
        /\ occ'[n] = (IF IsReleased(n) THEN occ[n] - 1 ELSE occ[n])
        /\ pres'[n] = IF IsReleased(n) THEN PresCost(n, occ[n] - 1) ELSE pres[n]
    BY <1>6 DEF ReleaseOpins, Discounted
  <2>2. pres'[n] = PresCost(n, occ'[n]) /\ usage'[n] = 0
    BY <1>0, <2>1
  <2>3. QED
    BY <2>1, <2>2 DEF PresCost
<1>7. ASSUME NEW S, ReserveOpins(S)
      PROVE  /\ pres'[n] = PresCost(n, occ'[n]) /\ usage'[n] = 0
             /\ presFac' = presFac /\ pc' \notin Discounted
  <2>1. /\ pc \notin Discounted /\ pc' \notin Discounted
        /\ UNCHANGED << usage, presFac >>
        /\ occ'[n] = (IF n \in S THEN occ[n] + 1 ELSE occ[n])
        /\ pres'[n] = IF n \in S THEN PresCost(n, occ[n] + 1) ELSE pres[n]
    BY <1>7 DEF ReserveOpins, Discounted
  <2>2. QED
    BY <1>0, <2>1
<1>8. CASE KeepCon \/ WirelengthAbort \/ PredictorAbort \/ Succeed
  <2>1. /\ pc \notin Discounted /\ pc' \notin Discounted
        /\ UNCHANGED << occ, pres, usage, presFac >>
    BY <1>8 DEF KeepCon, WirelengthAbort, PredictorAbort, Succeed, nodeVars, loopVars,
                Discounted, Returned
  <2>2. QED
    BY <1>0, <2>1 DEF PresCost
<1>9. CASE NextIteration
  <2>1. /\ pc \notin Discounted /\ pc' \notin Discounted
        /\ UNCHANGED << occ, usage >> /\ presFac' = NextPresFac
        /\ pres'[n] = RepricedPres(n)
    BY <1>9 DEF NextIteration, Discounted
  <2>2. occ[n] \in Int /\ Capacity[n] \in Nat
    BY NodeAssumption DEF Shape
  <2>3. QED
    BY <1>0, <2>1, <2>2 DEF PresCost, RepricedPres
<1>10. CASE UNCHANGED vars
  BY <1>3, <1>10 DEF vars, nodeVars, loopVars, conVars
<1>11. QED
  <2>1. ASSUME NEW S, ReserveOpins(S)
        PROVE  pres'[n] = PresCost(n, occ[n])' /\ usage'[n] = 0 /\ pc' \notin Discounted
    BY <1>7, <2>1 DEF PresCost
  <2>2. QED
    BY <1>1, <1>2, <1>3, <1>4, <1>5, <1>6, <2>1, <1>8, <1>9, <1>10 DEF Next, Stopped

-----------------------------------------------------------------------------
(* Signs: what the previous layers do not already pin down *)

PosPrice == [num : Nat, den : Nat \ {0}]

Signs ==
  /\ acc \in [Node -> Nat]
  /\ presOld \in [Node -> PosPrice]

\* Products of natural numbers, and when they vanish.
LEMMA NatProduct ==
  ASSUME NEW a \in Nat, NEW b \in Nat
  PROVE  a * b \in Nat /\ (a * b # 0 => a > 0 /\ a * b > 0)
BY SMT

\* No occupancy is negative.
LEMMA OccNat ==
  ASSUME Shape, OccByMap, SourceOcc, NEW n \in Node
  PROVE  occ[n] \in Nat
BY UsersFinite DEF OccByMap, SourceOcc

\* The price for one more net is positive.
LEMMA PresCostSign ==
  ASSUME presFac \in Nat, NEW n \in Node, NEW o \in Nat
  PROVE  PresCost(n, o) \in PosPrice
<1>1. CASE o < Capacity[n]
  BY <1>1 DEF PresCost, PosPrice
<1>2. CASE ~(o < Capacity[n])
  <2>1. o + 1 - Capacity[n] \in Nat
    BY <1>2, NodeAssumption
  <2>2. (o + 1 - Capacity[n]) * presFac \in Nat
    BY <2>1, NatProduct
  <2>3. QED
    BY <1>2, <2>2 DEF PresCost, PosPrice
<1>3. QED
  BY <1>1, <1>2

\* The shared price is positive and divided by at least one.
LEMMA SharedCostSign ==
  ASSUME presFac \in Nat, NEW n \in Node, NEW o \in Nat, NEW u \in Nat
  PROVE  SharedCost(n, o, u) \in PosPrice
<1>1. CASE o < Capacity[n]
  BY <1>1 DEF SharedCost, PosPrice
<1>2. CASE ~(o < Capacity[n])
  <2>1. o - Capacity[n] \in Nat
    BY <1>2, NodeAssumption
  <2>2. (o - Capacity[n]) * presFac \in Nat
    BY <2>1, NatProduct
  <2>3. QED
    BY <1>2, <2>2 DEF SharedCost, PosPrice
<1>3. QED
  BY <1>1, <1>2

\* Present costs are positive at all times.
LEMMA PresSign ==
  ASSUME Shape, MapExact, OccByMap, SourceOcc, PricesExact, NEW n \in Node
  PROVE  pres[n] \in PosPrice /\ usage[n] \in Nat
<1>0. occ[n] \in Nat /\ presFac \in Nat
  BY OccNat DEF Shape
<1>1. pc \in Discounted => nodeMap[NetOf[con]][n] \in Nat
  BY MapSign, NetAssumption DEF Shape
<1>2. QED
  BY <1>0, <1>1, PresCostSign, SharedCostSign DEF PricesExact

Charge(n, o) == acc[n] + (o - Capacity[n]) * AccFac

\* What overuse adds to the history of a node.
LEMMA ChargeSign ==
  ASSUME Signs, NEW n \in Node, NEW o \in Int, o >= Capacity[n]
  PROVE  /\ Charge(n, o) \in Nat
         /\ Charge(n, o) # acc[n] => Charge(n, o) > acc[n] /\ o > Capacity[n]
<1>1. o - Capacity[n] \in Nat /\ AccFac \in Nat /\ acc[n] \in Nat
  BY NodeAssumption, OptionAssumption DEF Signs
<1> DEFINE p == (o - Capacity[n]) * AccFac
<1>2. p \in Nat /\ (p # 0 => o - Capacity[n] > 0 /\ p > 0)
  BY <1>1, NatProduct
<1>3. Charge(n, o) = acc[n] + p
  BY DEF Charge
<1> HIDE DEF p
<1>4. QED
  BY <1>1, <1>2, <1>3, NodeAssumption

\* acc_cost is written by reserve_locally_used_opins and pathfinder_update_cost.
LEMMA HistoryStep ==
  ASSUME Shape, Signs, [Next]_vars, NEW n \in Node
  PROVE  acc'[n] \in Nat /\ (acc'[n] # acc[n] => acc'[n] > acc[n] /\ occ'[n] > Capacity[n])
<1>0. acc[n] \in Nat /\ occ[n] \in Int /\ Capacity[n] \in Int
  BY NodeAssumption DEF Signs, Shape
<1>1. ASSUME NEW S, ReserveOpins(S)
      PROVE  acc'[n] \in Nat /\ (acc'[n] # acc[n] => acc'[n] > acc[n] /\ occ'[n] > Capacity[n])
  <2>1. CASE n \in S /\ occ[n] + 1 >= Capacity[n]
    <3>1. occ'[n] = occ[n] + 1
      BY <1>1, <2>1 DEF ReserveOpins
    <3>2. acc'[n] = acc[n] + (occ[n] + 1 - Capacity[n]) * AccFac
      BY <1>1, <2>1, Zenon DEF ReserveOpins
    <3>3. occ[n] + 1 - Capacity[n] = (occ[n] + 1) - Capacity[n]
      BY <1>0
    <3>4. acc'[n] = Charge(n, occ[n] + 1)
      BY <3>2, <3>3, Zenon DEF Charge
    <3>5. QED
      BY <1>0, <2>1, <3>1, <3>4, ChargeSign
  <2>2. CASE ~(n \in S /\ occ[n] + 1 >= Capacity[n])
    BY <1>0, <1>1, <2>2 DEF ReserveOpins
  <2>3. QED
    BY <2>1, <2>2
<1>2. CASE NextIteration
  <2>1. acc'[n] = ChargedAcc(n) /\ occ'[n] = occ[n]
    BY <1>2 DEF NextIteration
  <2>2. CASE occ[n] > Capacity[n] /\ itry # 1
    <3>1. acc'[n] = Charge(n, occ[n])
      BY <2>1, <2>2 DEF ChargedAcc, Charge
    <3>2. QED
      BY <1>0, <2>1, <2>2, <3>1, ChargeSign
  <2>3. CASE ~(occ[n] > Capacity[n] /\ itry # 1)
    BY <1>0, <2>1, <2>3 DEF ChargedAcc
  <2>4. QED
    BY <2>2, <2>3
<1>3. CASE UNCHANGED acc
  BY <1>0, <1>3
<1>4. ASSUME NEW r, RouteCon(r) PROVE UNCHANGED acc
  BY <1>4 DEF RouteCon, nodeVars
<1>5. QED
  BY <1>1, <1>2, <1>3, <1>4
     DEF Next, KeepCon, RipUpCon, RouteConFails, AddCon, AddConWithoutTrace, WirelengthAbort,
         ReleaseOpins, PredictorAbort, Succeed, Stopped, vars, nodeVars

\* At the start no cost or saved price is negative ...
LEMMA SignsInit == Init => Signs
BY DEF Init, Signs, PosPrice

\* ... and none becomes so.
LEMMA SignsStep ==
  Shape /\ MapExact /\ OccByMap /\ SourceOcc /\ PricesExact /\ Signs /\ Shape' /\ [Next]_vars => Signs'
<1> SUFFICES ASSUME Shape, MapExact, OccByMap, SourceOcc, PricesExact, Signs, Shape', [Next]_vars
             PROVE  Signs'
  OBVIOUS
<1>1. acc' \in [Node -> Nat]
  <2>1. \A n \in Node : acc'[n] \in Nat
    BY HistoryStep
  <2>2. acc' \in [Node -> Int]
    BY DEF Shape
  <2>3. QED
    BY <2>1, <2>2
<1>2. CASE RipUpCon
  <2>1. ASSUME NEW n \in Node PROVE OldPresWithout(con, n) \in PosPrice
    <3>0. con \in Con /\ NetOf[con] \in Net /\ OnBoard(con) = trace[con]
      BY <1>2, NetAssumption DEF RipUpCon, OnBoard
    <3>1. occ[n] \in Nat /\ pres[n] \in PosPrice /\ presOld[n] \in PosPrice /\ presFac \in Nat
      BY OccNat, PresSign DEF Signs, Shape
    <3>2. CASE n \in trace[con] /\ RemainingUse(con, n) # 0
      <4>1. OccWithout(con, n) = occ[n]
        BY <3>2 DEF OccWithout
      <4>2. QED
        BY <3>1, <3>2, <4>1, PresCostSign DEF OldPresWithout
    <3>3. CASE ~(n \in trace[con] /\ RemainingUse(con, n) # 0)
      BY <3>1, <3>3 DEF OldPresWithout
    <3>4. QED
      BY <3>2, <3>3
  <2>2. QED
    BY <1>1, <1>2, <2>1 DEF RipUpCon, Signs
<1>3. CASE UNCHANGED presOld
  BY <1>1, <1>3 DEF Signs
<1>4. ASSUME NEW r, RouteCon(r) PROVE UNCHANGED presOld
  BY <1>4 DEF RouteCon, nodeVars
<1>5. ASSUME NEW S, ReserveOpins(S) PROVE UNCHANGED presOld
  BY <1>5 DEF ReserveOpins
<1>6. QED
  BY <1>2, <1>3, <1>4, <1>5
     DEF Next, KeepCon, RouteConFails, AddCon, AddConWithoutTrace, WirelengthAbort,
         ReleaseOpins, PredictorAbort, Succeed, NextIteration, Stopped, vars, nodeVars

-----------------------------------------------------------------------------
(* The overuse that starts an iteration *)

OverusedAtStart ==
  pc = "next_con" /\ con = 1 /\ itry > 1 => \E n \in Node : occ[n] > Capacity[n]

\* The first iteration starts without overuse.
LEMMA OverusedInit == Init => OverusedAtStart
BY DEF Init, OverusedAtStart

\* A later iteration starts only because a node was overused.
LEMMA OverusedStep == Shape /\ OverusedAtStart /\ [Next]_vars => OverusedAtStart'
<1> SUFFICES ASSUME Shape, OverusedAtStart, [Next]_vars PROVE OverusedAtStart'
  OBVIOUS
<1> USE DEF OverusedAtStart
<1>1. CASE KeepCon \/ AddCon
  <2>1. con' = con + 1 /\ con \in Nat \ {0}
    BY <1>1, NetAssumption DEF KeepCon, AddCon, NextCon, Shape
  <2>2. con' # 1
    BY <2>1
  <2>3. QED
    BY <2>2
<1>2. CASE NextIteration
  <2>1. \E n \in Node : occ[n] > Capacity[n]
    BY <1>2, NodeAssumption DEF NextIteration, Feasible, Shape
  <2>2. QED
    BY <1>2, <2>1 DEF NextIteration
<1>3. CASE pc' # "next_con"
  BY <1>3
<1>4. ASSUME NEW r, RouteCon(r) PROVE pc' # "next_con"
  BY <1>4 DEF RouteCon
<1>5. ASSUME NEW S, ReserveOpins(S) PROVE pc' # "next_con"
  BY <1>5 DEF ReserveOpins
<1>6. CASE UNCHANGED vars
  BY <1>6 DEF vars, nodeVars, loopVars
<1>7. QED
  BY <1>1, <1>2, <1>3, <1>4, <1>5, <1>6
     DEF Next, RipUpCon, RouteConFails, AddConWithoutTrace, WirelengthAbort,
         ReleaseOpins, PredictorAbort, Succeed, Stopped

-----------------------------------------------------------------------------
(* The inductive invariant *)

IInv == /\ Shape /\ Flow /\ MapExact /\ OccByMap /\ SourceOcc
        /\ PricesExact /\ Signs /\ OverusedAtStart

\* The usage maps, occupancies, prices and the progress of the iteration are
\* tied together by one invariant of the router.
THEOREM Invariant == Spec => []IInv
<1>1. Init => IInv
  BY ShapeInit, FlowInit, MapExactInit, OccInit, PricesInit, SignsInit, OverusedInit DEF IInv
<1>2. IInv /\ [Next]_vars => IInv'
  BY ShapeStep, FlowStep, MapExactStep, OccByMapStep, SourceOccStep, PricesStep,
     SignsStep, OverusedStep DEF IInv
<1>3. QED
  BY <1>1, <1>2, PTL DEF Spec

\* Every variable keeps its type; no occupancy, usage count or cost becomes
\* negative whatever is ripped up, shared and reserved.
THEOREM TypeCorrect == Spec => []TypeOK
<1>1. ASSUME IInv PROVE TypeOK
  <2> USE <1>1 DEF IInv
  <2>1. occ \in [Node -> Nat]
    BY OccNat DEF Shape
  <2>2. \A n \in Node : pres[n] \in PosPrice /\ usage[n] \in Nat
    BY PresSign
  <2>3. pres \in [Node -> PosPrice] /\ usage \in [Node -> Nat]
    BY <2>2 DEF Shape
  <2>4. \A i \in Net, n \in Node : nodeMap[i][n] \in Nat
    BY MapSign
  <2>5. nodeMap \in [Net -> [Node -> Nat]]
    BY <2>4 DEF Shape
  <2>6. QED
    BY <2>1, <2>3, <2>5 DEF TypeOK, Shape, Signs, PosPrice
<1>2. QED
  BY <1>1, Invariant, PTL

\* add_rr_to_rg_node and remove_rr_to_rg_node count the connections of a net
\* on every node, for every device and netlist.
THEOREM MapsExact == Spec => []MapExact
<1>1. IInv => MapExact
  BY DEF IInv
<1>2. QED
  BY <1>1, Invariant, PTL

\* The nets through a node, read off the traces, are those whose usage map
\* holds the node.
LEMMA NetsAreUsers ==
  ASSUME Shape, MapExact, NEW n \in Node \ Sources
  PROVE  NetsThrough(n) = Users(n)
<1>1. ASSUME NEW i \in NetsThrough(n) PROVE i \in Users(n)
  <2>1. PICK c \in Con : n \in OnBoard(c) /\ i = NetOf[c]
    BY <1>1 DEF NetsThrough
  <2>2. i \in Net
    BY <2>1, NetAssumption
  <2>3. QED
    BY <2>1, <2>2, MapSign DEF Users
<1>2. ASSUME NEW i \in Users(n) PROVE i \in NetsThrough(n)
  <2>1. i \in Net /\ nodeMap[i][n] > 0 /\ n # Source[i]
    BY <1>2 DEF Users, Sources
  <2>2. PICK c \in Con : NetOf[c] = i /\ n \in OnBoard(c)
    BY <2>1, MapSign
  <2>3. QED
    BY <2>2 DEF NetsThrough
<1>3. QED
  BY <1>1, <1>2

\* rr_node.occ counts every net and every reserved pin exactly once, for every
\* device and netlist.
THEOREM OccupanciesExact == Spec => []OccupancyExact
<1>1. ASSUME IInv PROVE OccupancyExact
  BY <1>1, NetsAreUsers DEF IInv, OccByMap, OccupancyExact
<1>2. QED
  BY <1>1, Invariant, PTL

\* The sharing discount is loaded in and out without residue.
THEOREM PricesAreExact == Spec => []PricesExact
<1>1. IInv => PricesExact
  BY DEF IInv
<1>2. QED
  BY <1>1, Invariant, PTL

\* should_route_con never leaves a new iteration without work: overuse can
\* only come from a trace, because reserved OPINs and SOURCEs alone never
\* exceed a capacity.
THEOREM SomeVictim == Spec => []VictimExists
<1>1. ASSUME IInv PROVE VictimExists
  <2> USE <1>1 DEF IInv
  <2>1. SUFFICES ASSUME pc = "next_con", con = 1, itry > 1
                 PROVE  \E c \in Con : ShouldRoute(c)
    BY DEF VictimExists
  <2>2. PICK n \in Node : occ[n] > Capacity[n]
    BY <2>1 DEF OverusedAtStart
  <2>3. Capacity[n] \in Nat \ {0}
    BY NodeAssumption
  <2>4. n \notin Sources
    BY <2>2, <2>3 DEF SourceOcc
  <2>5. Cardinality(Users(n)) > 0
    BY <2>2, <2>3, <2>4, UsersFinite DEF OccByMap
  <2>6. PICK i \in NetsThrough(n) : TRUE
    BY <2>4, <2>5, NetsAreUsers, FS_EmptySet
  <2>7. PICK c \in Con : n \in trace[c]
    BY <2>1, <2>6 DEF NetsThrough, OnBoard
  <2>8. QED
    BY <2>2, <2>7 DEF ShouldRoute
<1>2. QED
  BY <1>1, Invariant, PTL

\* The history of a node grows only while it is overused, and never shrinks.
THEOREM HistoryIsEarned == Spec => HistoryChargesOveruse
<1>1. IInv /\ [Next]_vars =>
        [\A n \in Node : acc'[n] # acc[n] => acc'[n] > acc[n] /\ occ'[n] > Capacity[n]]_vars
  BY HistoryStep DEF IInv
<1>2. QED
  BY <1>1, Invariant, PTL DEF Spec, HistoryChargesOveruse

-----------------------------------------------------------------------------
(* The refinement *)

\* The instance counts as this module does.
LEMMA SameCardinality == \A S : Promise!Cardinality(S) = Cardinality(S)
BY Zenon DEF Promise!Cardinality, Cardinality

\* The initial states are initial states of the promise.
LEMMA PromiseInit == Init => Promise!Init
BY DEF Init, Promise!Init, Returned

\* The occupancies that feasible_routing inspects are the loads of the nodes.
LEMMA SuccessIsLegal ==
  ASSUME IInv, Succeed
  PROVE  Promise!Legal
<1> USE DEF IInv
<1>1. pc = "reserve" /\ class = NumClasses + 1 /\ Feasible
  BY DEF Succeed
<1>2. \A c \in Con : trace[c] \in Routes[c]
  BY <1>1, NetAssumption DEF Flow, Con, Discounted
<1>3. \A k \in Class : /\ localOpins[k] \subseteq ClassOpins[k]
                      /\ Cardinality(localOpins[k]) = NumLocal[k]
  BY <1>1, OpinAssumption DEF Flow, Class
<1>4. ASSUME NEW n \in Node \ Sources PROVE Promise!Load(n) <= Capacity[n]
  <2>1. Promise!NetsOn(n) = NetsThrough(n)
    BY <1>1 DEF Promise!NetsOn, NetsThrough, OnBoard
  <2>2. IsHeld(n) <=> \E k \in Class : n \in localOpins[k]
    BY <1>1, OpinAssumption DEF IsHeld, Class
  <2>3. occ[n] = Promise!Load(n)
    BY <2>1, <2>2, NetsAreUsers, SameCardinality DEF OccByMap, Promise!Load
  <2>4. QED
    BY <1>1, <2>3 DEF Feasible
<1>5. QED
  BY <1>2, <1>3, <1>4, SameCardinality DEF Promise!Legal

\* Every step of the router is a step of the promise or leaves its state alone.
LEMMA PromiseStep == IInv /\ [Next]_vars => [Promise!Next]_(Promise!vars)
<1> SUFFICES ASSUME IInv, [Next]_vars PROVE [Promise!Next]_(Promise!vars)
  OBVIOUS
<1> USE DEF IInv, Returned
<1>1. CASE RipUpCon
  <2>1. Promise!Unroute(con)
    BY <1>1 DEF RipUpCon, Promise!Unroute
  <2>2. QED
    BY <1>1, <2>1 DEF RipUpCon, Promise!Next
<1>2. ASSUME NEW r, RouteCon(r) PROVE [Promise!Next]_(Promise!vars)
  <2>1. Promise!Reroute(con)
    BY <1>2 DEF RouteCon, Promise!Reroute, Flow
  <2>2. con \in Con
    BY <1>2 DEF RouteCon, Shape, Discounted
  <2>3. QED
    BY <2>1, <2>2 DEF Promise!Next
<1>3. ASSUME NEW S, ReserveOpins(S) PROVE [Promise!Next]_(Promise!vars)
  <2>1. Promise!Reserve(class)
    BY <1>3, SameCardinality DEF ReserveOpins, Promise!Reserve
  <2>2. QED
    BY <1>3, <2>1 DEF ReserveOpins, Promise!Next
<1>4. CASE Succeed
  <2>1. Promise!Succeed
    BY <1>4, SuccessIsLegal DEF Succeed, conVars, Promise!Succeed
  <2>2. QED
    BY <2>1 DEF Promise!Next
<1>5. CASE WirelengthAbort \/ PredictorAbort
  <2>1. Promise!GiveUp
    BY <1>5 DEF WirelengthAbort, PredictorAbort, conVars, Promise!GiveUp
  <2>2. QED
    BY <2>1 DEF Promise!Next
<1>6. CASE NextIteration
  BY <1>6 DEF NextIteration, conVars, Promise!GiveUp, Promise!Next, Promise!vars
<1>7. CASE KeepCon \/ RouteConFails \/ AddCon \/ AddConWithoutTrace \/ ReleaseOpins
  BY <1>7 DEF KeepCon, RouteConFails, AddCon, AddConWithoutTrace, ReleaseOpins, conVars,
              Promise!vars
<1>8. CASE UNCHANGED vars
  BY <1>8 DEF vars, conVars, Promise!vars
<1>9. QED
  BY <1>1, <1>2, <1>3, <1>4, <1>5, <1>6, <1>7, <1>8 DEF Next, Stopped

\* Whatever the negotiation does, try_timing_driven_route_conr reports success
\* only for a complete routing within all capacities.
THEOREM PromiseKept == Spec => KeepsPromise
<1>1. Init => Promise!Init
  BY PromiseInit
<1>2. IInv /\ [Next]_vars => [Promise!Next]_(Promise!vars)
  BY PromiseStep
<1>3. QED
  BY <1>1, <1>2, Invariant, PTL DEF Spec, KeepsPromise, Promise!Spec

-----------------------------------------------------------------------------
(* THE NODE MAP: entries that can be found *)

Slot == Entry \cup {NULL}

\* The probes it takes from slot h of a table of n slots to slot s.
Steps(n, h, s) == IF s >= h THEN s - h ELSE s - h + n

\* No search that starts in slot h ends before slot s.
Leads(f, n, h, s) ==
  \A t \in 0 .. n - 1 : Steps(n, h, t) < Steps(n, h, s) => f[t] # NULL

Tables ==
  [size : Nat \ {0}, node_entries : UNION {[0 .. n - 1 -> Slot] : n \in Nat},
   no_entries : Nat, exited : BOOLEAN]

IsTable(m) ==
  /\ m \in Tables
  /\ m.node_entries \in [0 .. m.size - 1 -> Slot]
  /\ m.exited = FALSE

HasFree(m) == \E s \in 0 .. m.size - 1 : m.node_entries[s] = NULL

\* Each rr_node has one entry at most.
Unique(f, n) ==
  \A s, t \in 0 .. n - 1 :
    /\ f[s] # NULL /\ f[t] # NULL
    /\ f[s].rr_node = f[t].rr_node
    => s = t

\* Each entry is met by a search for it.
AllPlaced(f, n) ==
  \A s \in 0 .. n - 1 : f[s] # NULL => Leads(f, n, f[s].rr_node % n, s)

UsedIn(f, n) == {s \in 0 .. n - 1 : f[s] # NULL}

\* What is in the table.
Contents(m) == {m.node_entries[s] : s \in UsedIn(m.node_entries, m.size)}

-----------------------------------------------------------------------------
(* Entries and slots *)

LEMMA EntryIs ==
  ASSUME NEW x \in Slot
  PROVE  /\ x # NULL => /\ x \in Entry /\ x.rr_node \in Key /\ x.rr_node \in Nat
                        /\ x.usage \in Nat \ {0}
         /\ x.rr_node \in Int /\ x.usage \in Nat
         /\ NULL.rr_node = -1 /\ NULL.usage = 0
<1>1. NULL.rr_node = -1 /\ NULL.usage = 0
  BY DEF NULL
<1>2. ASSUME x # NULL
      PROVE  x \in Entry /\ x.rr_node \in Key /\ x.rr_node \in Nat /\ x.usage \in Nat \ {0}
  BY <1>2, KeyAssumption DEF Slot, Entry
<1> QED BY <1>1, <1>2

LEMMA EntryNotNull ==
  ASSUME NEW x \in Entry
  PROVE  x # NULL /\ x \in Slot
<1>1. x.usage \in Nat \ {0}
  BY DEF Entry
<1>2. NULL.usage = 0
  BY DEF NULL
<1> QED BY <1>1, <1>2 DEF Slot

LEMMA HomeIsSlot ==
  ASSUME NEW k \in Nat, NEW n \in Nat \ {0}
  PROVE  k % n \in 0 .. n - 1
  OBVIOUS

LEMMA Wraps ==
  ASSUME NEW n \in Nat \ {0}, NEW h \in 0 .. n - 1, NEW i \in 0 .. n - 1
  PROVE  /\ (h + i) % n = IF h + i < n THEN h + i ELSE h + i - n
         /\ (h + i) % n \in 0 .. n - 1
         /\ Steps(n, h, (h + i) % n) = i
<1>1. (h + i) % n = IF h + i < n THEN h + i ELSE h + i - n
  <2>1. CASE h + i < n
    BY <2>1
  <2>2. CASE ~(h + i < n)
    BY <2>2
  <2> QED BY <2>1, <2>2
<1> QED BY <1>1 DEF Steps

LEMMA StepsIs ==
  ASSUME NEW n \in Nat \ {0}, NEW h \in 0 .. n - 1, NEW s \in 0 .. n - 1
  PROVE  /\ Steps(n, h, s) \in 0 .. n - 1
         /\ (h + Steps(n, h, s)) % n = s
<1>1. Steps(n, h, s) \in 0 .. n - 1
  BY DEF Steps
<1>2. PICK i \in 0 .. n - 1 : i = Steps(n, h, s)
  BY <1>1
<1>3. s = IF h + i < n THEN h + i ELSE h + i - n
  BY <1>2 DEF Steps
<1> QED BY <1>1, <1>2, <1>3, Wraps

-----------------------------------------------------------------------------
(* Searching *)

\* A search in a table with a free slot ends, at the first slot that is free or
\* holds the rr_node.
LEMMA SearchIs ==
  ASSUME NEW m, IsTable(m), HasFree(m), NEW k \in Nat,
         NEW n, n = m.size, NEW f, f = m.node_entries, NEW p, p = Place(m, k)
  PROVE  /\ ~IsFull(m, k)
         /\ p \in 0 .. n - 1
         /\ f[p] = NULL \/ f[p].rr_node = k
         /\ Leads(f, n, k % n, p)
         /\ \A t \in 0 .. n - 1 : Steps(n, k % n, t) < Steps(n, k % n, p) => f[t].rr_node # k
<1>1. n \in Nat \ {0} /\ f \in [0 .. n - 1 -> Slot]
  BY DEF IsTable, Tables
<1>2. PICK h \in 0 .. n - 1 : h = k % n
  BY <1>1, HomeIsSlot
<1> DEFINE At(i) == (h + i) % n
           S == {i \in Nat : i \in 0 .. n - 1 /\ StopsAt(m, k, i)}
<1>3. \A i : Probe(m, k, i) = At(i) /\ StopsAt(m, k, i) = (f[At(i)] = NULL \/ f[At(i)].rr_node = k)
  BY <1>2 DEF Probe, StopsAt
<1>4. \A i \in 0 .. n - 1 : At(i) \in 0 .. n - 1 /\ Steps(n, h, At(i)) = i
  BY <1>1, Wraps, ZenonT(60)
<1>5. \A s \in 0 .. n - 1 : Steps(n, h, s) \in 0 .. n - 1 /\ At(Steps(n, h, s)) = s
  BY <1>1, StepsIs
<1> HIDE DEF At
<1>6. PICK z \in 0 .. n - 1 : f[z] = NULL
  BY DEF HasFree
<1>7. Steps(n, h, z) \in S
  <2>1. Steps(n, h, z) \in 0 .. n - 1 /\ At(Steps(n, h, z)) = z
    BY <1>5
  <2>2. StopsAt(m, k, Steps(n, h, z))
    BY <2>1, <1>3, <1>6
  <2> QED BY <2>1, <2>2
<1>8. PICK i \in S : \A j \in S : i <= j
  BY <1>7, Least
<1>9. \A j \in 0 .. i - 1 : ~StopsAt(m, k, j)
  BY <1>8, <1>1
<1> DEFINE First(c) == StopsAt(m, k, c) /\ \A j \in 0 .. c - 1 : ~StopsAt(m, k, j)
<1>10. i \in 0 .. n - 1 /\ First(i)
  BY <1>8, <1>9
<1>11. ~IsFull(m, k)
  BY <1>10 DEF IsFull
<1>12. PICK c \in 0 .. n - 1 : c = (CHOOSE d \in 0 .. n - 1 : First(d)) /\ First(c)
  BY <1>10
<1>13. p = At(c) /\ p \in 0 .. n - 1 /\ Steps(n, h, p) = c
  BY <1>12, <1>3, <1>4 DEF Place
<1>14. f[p] = NULL \/ f[p].rr_node = k
  BY <1>12, <1>13, <1>3
<1>15. ASSUME NEW t \in 0 .. n - 1, Steps(n, h, t) < Steps(n, h, p)
       PROVE  f[t] # NULL /\ f[t].rr_node # k
  <2>1. PICK j \in 0 .. n - 1 : j = Steps(n, h, t) /\ At(j) = t
    BY <1>5
  <2>2. j \in 0 .. c - 1
    BY <2>1, <1>15, <1>13
  <2>3. ~StopsAt(m, k, j)
    BY <2>2, <1>12
  <2> QED BY <2>1, <2>3, <1>3
<1> QED BY <1>11, <1>13, <1>14, <1>15, <1>2 DEF Leads
\* An entry is found where it is ...
LEMMA FoundIs ==
  ASSUME NEW m, IsTable(m), HasFree(m),
         NEW n, n = m.size, NEW f, f = m.node_entries,
         Unique(f, n), AllPlaced(f, n), NEW s \in 0 .. n - 1, f[s] # NULL
  PROVE  Place(m, f[s].rr_node) = s /\ Get(m, f[s].rr_node) = f[s]
<1>1. n \in Nat \ {0} /\ f \in [0 .. n - 1 -> Slot]
  BY DEF IsTable, Tables
<1>2. PICK k \in Nat : k = f[s].rr_node
  BY <1>1, EntryIs
<1>3. PICK h \in 0 .. n - 1 : h = k % n
  BY <1>1, HomeIsSlot
<1>4. PICK p : p = Place(m, k)
  OBVIOUS
<1>5. /\ ~IsFull(m, k) /\ p \in 0 .. n - 1
      /\ f[p] = NULL \/ f[p].rr_node = k
      /\ \A t \in 0 .. n - 1 : Steps(n, h, t) < Steps(n, h, p) => f[t].rr_node # k
  BY <1>3, <1>4, SearchIs
<1>6. Leads(f, n, h, s)
  BY <1>2, <1>3 DEF AllPlaced
<1>7. /\ Steps(n, h, s) \in 0 .. n - 1 /\ Steps(n, h, p) \in 0 .. n - 1
      /\ Steps(n, h, s) = Steps(n, h, p) => s = p
  <2>1. Steps(n, h, s) \in 0 .. n - 1 /\ (h + Steps(n, h, s)) % n = s
    BY <1>1, StepsIs
  <2>2. Steps(n, h, p) \in 0 .. n - 1 /\ (h + Steps(n, h, p)) % n = p
    BY <1>1, <1>5, StepsIs
  <2> QED BY <2>1, <2>2
<1>8. p = s
  <2>1. CASE Steps(n, h, s) < Steps(n, h, p)
    BY <2>1, <1>2, <1>5, <1>7
  <2>2. CASE Steps(n, h, p) < Steps(n, h, s)
    <3>1. f[p] # NULL
      BY <2>2, <1>5, <1>6, <1>7 DEF Leads
    <3> QED BY <3>1, <1>2, <1>5 DEF Unique
  <2>3. CASE Steps(n, h, s) = Steps(n, h, p)
    BY <2>3, <1>7
  <2> QED BY <2>1, <2>2, <2>3, <1>7
<1> QED BY <1>2, <1>4, <1>5, <1>8 DEF Get

\* ... and a search for an rr_node without one ends at a free slot.
LEMMA MissingIs ==
  ASSUME NEW m, IsTable(m), HasFree(m), NEW k \in Nat,
         NEW n, n = m.size, NEW f, f = m.node_entries,
         \A s \in 0 .. n - 1 : f[s].rr_node # k
  PROVE  Get(m, k) = NULL /\ f[Place(m, k)] = NULL
<1>1. PICK p : p = Place(m, k)
  OBVIOUS
<1>2. /\ ~IsFull(m, k) /\ p \in 0 .. n - 1
      /\ f[p] = NULL \/ f[p].rr_node = k
  BY <1>1, SearchIs
<1> QED BY <1>1, <1>2 DEF Get

-----------------------------------------------------------------------------
(* Filling a slot *)

\* A table with x in the free slot p.
Put(f, p, x) == [f EXCEPT ![p] = x]

LEMMA PutIs ==
  ASSUME NEW n \in Nat \ {0}, NEW f \in [0 .. n - 1 -> Slot], NEW p \in 0 .. n - 1,
         f[p] = NULL, NEW x \in Entry, Unique(f, n),
         \A s \in 0 .. n - 1 : f[s].rr_node # x.rr_node
  PROVE  /\ Put(f, p, x) \in [0 .. n - 1 -> Slot]
         /\ Put(f, p, x)[p] = x
         /\ \A s \in 0 .. n - 1 : s # p => Put(f, p, x)[s] = f[s]
         /\ Unique(Put(f, p, x), n)
         /\ UsedIn(Put(f, p, x), n) = UsedIn(f, n) \cup {p}
         /\ p \notin UsedIn(f, n)
<1>1. PICK g : g = Put(f, p, x)
  OBVIOUS
<1>2. /\ g \in [0 .. n - 1 -> Slot] /\ g[p] = x
      /\ \A s \in 0 .. n - 1 : s # p => g[s] = f[s]
  BY <1>1, EntryNotNull DEF Put
<1>3. Unique(g, n)
  <2> SUFFICES ASSUME NEW s \in 0 .. n - 1, NEW t \in 0 .. n - 1,
                      g[s] # NULL, g[t] # NULL, g[s].rr_node = g[t].rr_node
               PROVE  s = t
    BY DEF Unique
  <2>1. CASE s = p \/ t = p
    BY <2>1, <1>2
  <2>2. CASE s # p /\ t # p
    BY <2>2, <1>2 DEF Unique
  <2> QED BY <2>1, <2>2
<1>4. UsedIn(g, n) = UsedIn(f, n) \cup {p} /\ p \notin UsedIn(f, n)
  BY <1>2, EntryNotNull DEF UsedIn
<1> QED BY <1>1, <1>2, <1>3, <1>4

\* If x can be reached there, all entries can.
LEMMA PutPlaced ==
  ASSUME NEW n \in Nat \ {0}, NEW f \in [0 .. n - 1 -> Slot], NEW p \in 0 .. n - 1,
         NEW x \in Entry, AllPlaced(f, n), Leads(f, n, x.rr_node % n, p)
  PROVE  AllPlaced(Put(f, p, x), n)
<1>1. PICK g : g = Put(f, p, x)
  OBVIOUS
<1>2. /\ g[p] = x /\ x # NULL
      /\ \A s \in 0 .. n - 1 : s # p => g[s] = f[s]
  BY <1>1, EntryNotNull DEF Put
<1> SUFFICES ASSUME NEW s \in 0 .. n - 1, g[s] # NULL
             PROVE  Leads(g, n, g[s].rr_node % n, s)
  BY <1>1 DEF AllPlaced
<1>3. CASE s = p
  <2>1. Leads(f, n, g[s].rr_node % n, s)
    BY <1>3, <1>2
  <2> QED BY <2>1, <1>2 DEF Leads
<1>4. CASE s # p
  <2>1. Leads(f, n, g[s].rr_node % n, s)
    BY <1>4, <1>2 DEF AllPlaced
  <2> QED BY <2>1, <1>2 DEF Leads
<1> QED BY <1>3, <1>4

\* Re-insertion puts an entry whose rr_node is not there where a search ends.
LEMMA ReinsertIs ==
  ASSUME NEW m, IsTable(m), HasFree(m), NEW x \in Entry,
         NEW n, n = m.size, NEW f, f = m.node_entries, Unique(f, n),
         \A s \in 0 .. n - 1 : f[s].rr_node # x.rr_node
  PROVE  \E p \in 0 .. n - 1 :
           /\ f[p] = NULL
           /\ Leads(f, n, x.rr_node % n, p)
           /\ IsTable(Reinsert(m, x))
           /\ Reinsert(m, x).size = n
           /\ Reinsert(m, x).node_entries = Put(f, p, x)
           /\ Reinsert(m, x).no_entries = m.no_entries + x.usage
<1>1. PICK k \in Nat : k = x.rr_node
  BY EntryNotNull, EntryIs
<1>2. PICK p : p = Place(m, k)
  OBVIOUS
<1>3. ~IsFull(m, k) /\ p \in 0 .. n - 1 /\ Leads(f, n, k % n, p)
  BY <1>2, SearchIs
<1>4. Get(m, k) = NULL /\ f[p] = NULL
  BY <1>1, <1>2, MissingIs
<1>5. PICK r : r = Reinsert(m, x)
  OBVIOUS
<1>6. r = [m EXCEPT !.node_entries[p] = x, !.no_entries = @ + x.usage]
  BY <1>1, <1>2, <1>3, <1>4, <1>5 DEF Reinsert
<1>7. n \in Nat \ {0} /\ f \in [0 .. n - 1 -> Slot] /\ m \in Tables /\ m.exited = FALSE
      /\ m.no_entries \in Nat
  BY DEF IsTable, Tables
<1>8. x.usage \in Nat
  BY DEF Entry
<1>9. /\ r.size = n /\ r.node_entries = Put(f, p, x)
      /\ r.no_entries = m.no_entries + x.usage
      /\ r.exited = FALSE
      /\ r = [size |-> n, node_entries |-> Put(f, p, x),
              no_entries |-> m.no_entries + x.usage, exited |-> FALSE]
  BY <1>6, <1>7 DEF Put, Tables
<1>10. Put(f, p, x) \in [0 .. n - 1 -> Slot]
  BY <1>7, EntryNotNull DEF Put
<1>11. IsTable(r)
  <2>1. Put(f, p, x) \in UNION {[0 .. c - 1 -> Slot] : c \in Nat}
    BY <1>7, <1>10
  <2>2. m.no_entries + x.usage \in Nat
    BY <1>7, <1>8
  <2>3. r \in Tables
    BY <2>1, <2>2, <1>7, <1>9 DEF Tables
  <2> QED BY <2>3, <1>9, <1>10 DEF IsTable
<1> QED BY <1>1, <1>3, <1>4, <1>5, <1>9, <1>11

-----------------------------------------------------------------------------
(* Counting entries *)

NumUsed(m) == Cardinality(UsedIn(m.node_entries, m.size))

LEMMA UsedIsFinite ==
  ASSUME NEW f, NEW n \in Nat
  PROVE  /\ IsFiniteSet(UsedIn(f, n)) /\ Cardinality(UsedIn(f, n)) \in Nat
         /\ Cardinality(UsedIn(f, n)) <= n
<1>1. IsFiniteSet(0 .. n - 1) /\ Cardinality(0 .. n - 1) = n
  <2>1. 0 \in Int /\ n - 1 \in Int
    OBVIOUS
  <2>2. IsFiniteSet(0 .. n - 1)
        /\ Cardinality(0 .. n - 1) = IF 0 > n - 1 THEN 0 ELSE (n - 1) - 0 + 1
    BY <2>1, FS_Interval
  <2> QED BY <2>2
<1>2. UsedIn(f, n) \subseteq 0 .. n - 1
  BY DEF UsedIn
<1> QED BY <1>1, <1>2, FS_Subset, FS_CardinalityType

\* Fewer entries than slots leave a slot free.
LEMMA SomeFree ==
  ASSUME NEW m, IsTable(m), NumUsed(m) < m.size
  PROVE  HasFree(m)
<1>1. PICK n \in Nat \ {0} : n = m.size
  BY DEF IsTable, Tables
<1>2. SUFFICES ASSUME ~HasFree(m) PROVE FALSE
  OBVIOUS
<1>3. UsedIn(m.node_entries, n) = 0 .. n - 1
  BY <1>1, <1>2 DEF HasFree, UsedIn
<1>4. Cardinality(0 .. n - 1) = n
  <2>1. 0 \in Int /\ n - 1 \in Int
    OBVIOUS
  <2>2. Cardinality(0 .. n - 1) = IF 0 > n - 1 THEN 0 ELSE (n - 1) - 0 + 1
    BY <2>1, FS_Interval
  <2> QED BY <2>2
<1> QED BY <1>1, <1>3, <1>4 DEF NumUsed

LEMMA CountPut ==
  ASSUME NEW n \in Nat, NEW U, NEW V, NEW f, U = UsedIn(f, n), NEW p, p \notin U,
         V = U \cup {p}
  PROVE  Cardinality(V) = Cardinality(U) + 1
<1>1. IsFiniteSet(U)
  BY UsedIsFinite
<1> QED BY <1>1, FS_AddElement

LEMMA CountOneMore ==
  ASSUME NEW n \in Nat, NEW f, NEW h, NEW p, p \notin UsedIn(f, n),
         UsedIn(h, n) = UsedIn(f, n) \cup {p}
  PROVE  Cardinality(UsedIn(h, n)) = Cardinality(UsedIn(f, n)) + 1
<1>1. IsFiniteSet(UsedIn(f, n))
  BY UsedIsFinite
<1> QED BY <1>1, FS_AddElement

\* A table that may be searched and that the counter does not undercount.
Good(m) ==
  /\ IsTable(m)
  /\ Unique(m.node_entries, m.size)
  /\ AllPlaced(m.node_entries, m.size)
  /\ NumUsed(m) <= m.no_entries
  /\ 100 * NumUsed(m) < 35 * m.size

LEMMA GoodHasFree ==
  ASSUME NEW m, Good(m)
  PROVE  HasFree(m)
<1>1. m.size \in Nat \ {0} /\ NumUsed(m) \in Nat
  BY UsedIsFinite DEF Good, IsTable, Tables, NumUsed
<1> QED BY <1>1, SomeFree DEF Good

\* What Get returns is a matter of what is in the table.
LEMMA GetIs ==
  ASSUME NEW m, Good(m)
  PROVE  /\ \A x \in Contents(m) : x \in Entry /\ Get(m, x.rr_node) = x
         /\ \A k \in Nat : (\A x \in Contents(m) : x.rr_node # k) => Get(m, k) = NULL
<1>1. PICK n, f : /\ n = m.size /\ f = m.node_entries
                  /\ n \in Nat \ {0} /\ f \in [0 .. n - 1 -> Slot]
  BY DEF Good, IsTable, Tables
<1>2. ASSUME NEW x \in Contents(m)
      PROVE  x \in Entry /\ Get(m, x.rr_node) = x
  <2>1. PICK s \in 0 .. n - 1 : f[s] # NULL /\ x = f[s]
    BY <1>1, <1>2 DEF Contents, UsedIn
  <2>2. f[s] \in Entry
    BY <2>1, <1>1, EntryIs
  <2> QED BY <2>1, <2>2, <1>1, FoundIs, GoodHasFree DEF Good
<1>3. ASSUME NEW k \in Nat, \A x \in Contents(m) : x.rr_node # k
      PROVE  Get(m, k) = NULL
  <2>1. ASSUME NEW s \in 0 .. n - 1  PROVE f[s].rr_node # k
    <3>1. CASE f[s] = NULL
      BY <3>1, <1>1, EntryIs
    <3>2. CASE f[s] # NULL
      BY <3>2, <1>1, <1>3 DEF Contents, UsedIn
    <3> QED BY <3>1, <3>2
  <2> QED BY <2>1, <1>1, MissingIs, GoodHasFree DEF Good
<1> QED BY <1>2, <1>3

-----------------------------------------------------------------------------
(* Doubling *)

\* The table r.map has the entries of the first i slots of m.
Moved(m, i, r) ==
  /\ r = [map |-> r.map, n |-> r.n]
  /\ IsTable(r.map)
  /\ r.map.size = 2 * m.size
  /\ Unique(r.map.node_entries, r.map.size)
  /\ AllPlaced(r.map.node_entries, r.map.size)
  /\ Contents(r.map) = {m.node_entries[s] : s \in UsedIn(m.node_entries, i)}
  /\ r.n = Cardinality(UsedIn(m.node_entries, i))
  /\ NumUsed(r.map) = r.n
  /\ r.n <= r.map.no_entries

\* The loop takes slot i - 1 of m.
MovedOne(m, i, r) ==
  LET e == m.node_entries[i - 1]
  IN  IF e = NULL \/ r.n >= m.no_entries THEN r
      ELSE [map |-> Reinsert(r.map, e), n |-> r.n + 1]

EntriesIn(f, n) == {f[s] : s \in UsedIn(f, n)}

LEMMA EntriesPut ==
  ASSUME NEW n \in Nat, NEW f \in [0 .. n - 1 -> Slot],
         NEW p \in 0 .. n - 1, f[p] = NULL, NEW x \in Entry
  PROVE  EntriesIn(Put(f, p, x), n) = EntriesIn(f, n) \cup {x}
<1>1. PICK g : g = Put(f, p, x)
  OBVIOUS
<1>2. /\ g[p] = x /\ x # NULL
      /\ \A s \in 0 .. n - 1 : s # p => g[s] = f[s]
  BY <1>1, EntryNotNull DEF Put
<1>3. UsedIn(g, n) = UsedIn(f, n) \cup {p} /\ p \notin UsedIn(f, n)
      /\ UsedIn(f, n) \subseteq 0 .. n - 1
  BY <1>2 DEF UsedIn
<1>4. {g[s] : s \in UsedIn(f, n) \cup {p}} = {f[s] : s \in UsedIn(f, n)} \cup {x}
  BY <1>2, <1>3
<1> QED BY <1>1, <1>3, <1>4 DEF EntriesIn

LEMMA ContentsPut ==
  ASSUME NEW m, NEW d, NEW n \in Nat \ {0}, m.size = n, d.size = n,
         NEW f \in [0 .. n - 1 -> Slot], f = m.node_entries,
         NEW p \in 0 .. n - 1, f[p] = NULL, NEW x \in Entry,
         d.node_entries = Put(f, p, x)
  PROVE  Contents(d) = Contents(m) \cup {x}
<1>1. EntriesIn(Put(f, p, x), n) = EntriesIn(f, n) \cup {x}
  BY EntriesPut
<1>2. Contents(d) = EntriesIn(Put(f, p, x), n) /\ Contents(m) = EntriesIn(f, n)
  BY DEF Contents, EntriesIn
<1> QED BY <1>1, <1>2

\* Re-insertion of an entry whose rr_node is not there.
LEMMA ReinsertGood ==
  ASSUME NEW m, IsTable(m), HasFree(m), NEW x \in Entry,
         Unique(m.node_entries, m.size), AllPlaced(m.node_entries, m.size),
         \A y \in Contents(m) : y.rr_node # x.rr_node
  PROVE  /\ IsTable(Reinsert(m, x)) /\ Reinsert(m, x).size = m.size
         /\ Unique(Reinsert(m, x).node_entries, m.size)
         /\ AllPlaced(Reinsert(m, x).node_entries, m.size)
         /\ Contents(Reinsert(m, x)) = Contents(m) \cup {x}
         /\ NumUsed(Reinsert(m, x)) = NumUsed(m) + 1
         /\ Reinsert(m, x).no_entries = m.no_entries + x.usage
<1>1. PICK n, f : /\ n = m.size /\ f = m.node_entries
                  /\ n \in Nat \ {0} /\ f \in [0 .. n - 1 -> Slot]
  BY DEF IsTable, Tables
<1>2. ASSUME NEW s \in 0 .. n - 1  PROVE f[s].rr_node # x.rr_node
  <2>1. CASE f[s] = NULL
    <3>1. f[s].rr_node = -1 /\ x.rr_node \in Nat
      BY <2>1, EntryIs, EntryNotNull
    <3> QED BY <3>1
  <2>2. CASE f[s] # NULL
    BY <2>2, <1>1 DEF Contents, UsedIn
  <2> QED BY <2>1, <2>2
<1>3. PICK r : r = Reinsert(m, x)
  OBVIOUS
<1>4. PICK p \in 0 .. n - 1 :
        /\ f[p] = NULL /\ Leads(f, n, x.rr_node % n, p)
        /\ IsTable(r) /\ r.size = n /\ r.node_entries = Put(f, p, x)
        /\ r.no_entries = m.no_entries + x.usage
  BY <1>1, <1>2, <1>3, ReinsertIs
<1>5. /\ Unique(Put(f, p, x), n)
      /\ UsedIn(Put(f, p, x), n) = UsedIn(f, n) \cup {p}
      /\ p \notin UsedIn(f, n)
  <2>1. /\ Unique(f, n) /\ f[p] = NULL /\ n \in Nat \ {0} /\ f \in [0 .. n - 1 -> Slot]
        /\ \A s \in 0 .. n - 1 : f[s].rr_node # x.rr_node
    BY <1>1, <1>2, <1>4
  <2>2. x \in Entry /\ p \in 0 .. n - 1
    OBVIOUS
  <2> QED BY ONLY <2>1, <2>2, PutIs
<1>6. AllPlaced(Put(f, p, x), n)
  BY <1>1, <1>4, PutPlaced
<1>7. Contents(r) = Contents(m) \cup {x}
  BY <1>1, <1>4, ContentsPut, SMTT(30)
<1>8. NumUsed(r) = NumUsed(m) + 1
  <2>1. Cardinality(UsedIn(Put(f, p, x), n)) = Cardinality(UsedIn(f, n)) + 1
    BY <1>5, CountPut, <1>1
  <2> QED BY <2>1, <1>1, <1>4 DEF NumUsed
<1> QED BY <1>1, <1>3, <1>4, <1>5, <1>6, <1>7, <1>8

LEMMA MovedOneIs ==
  ASSUME NEW m, Good(m), NEW i \in 1 .. m.size, NEW r, Moved(m, i - 1, r)
  PROVE  Moved(m, i, MovedOne(m, i, r))
<1>1. PICK n, f : /\ n = m.size /\ f = m.node_entries
                  /\ n \in Nat \ {0} /\ f \in [0 .. n - 1 -> Slot] /\ m.no_entries \in Nat
                  /\ Unique(f, n) /\ NumUsed(m) <= m.no_entries
  BY DEF Good, IsTable, Tables
<1>2. PICK e : e = f[i - 1]
  OBVIOUS
<1>3. PICK U, V : U = UsedIn(f, i - 1) /\ V = UsedIn(f, i)
  OBVIOUS
<1>4. i \in 1 .. n /\ i \in Nat /\ i - 1 \in Nat /\ i - 1 \in 0 .. n - 1
  BY <1>1
<1>5. \A s : s \in 0 .. i - 1 <=> s \in 0 .. (i - 1) - 1 \/ s = i - 1
  BY <1>4
<1>6. CASE e = NULL
  <2>1. U = V
    BY <1>2, <1>3, <1>6, <1>5 DEF UsedIn
  <2>2. MovedOne(m, i, r) = r
    BY <1>1, <1>2, <1>6 DEF MovedOne
  <2> QED BY <2>1, <2>2, <1>1, <1>3 DEF Moved
<1>7. CASE e # NULL
  <2>1. V = U \cup {i - 1} /\ i - 1 \notin U
    <3>1. i - 1 \notin 0 .. (i - 1) - 1
      BY <1>4
    <3> QED BY <3>1, <1>2, <1>3, <1>7, <1>5 DEF UsedIn
  <2>2. Cardinality(V) = Cardinality(U) + 1 /\ Cardinality(U) \in Nat
    BY <2>1, <1>3, <1>4, UsedIsFinite, CountPut
  <2>3. Cardinality(V) <= NumUsed(m) /\ NumUsed(m) \in Nat
    <3>1. V \subseteq UsedIn(f, n)
      <4>1. 0 .. i - 1 \subseteq 0 .. n - 1
        BY <1>4, <1>1
      <4> QED BY <4>1, <1>3 DEF UsedIn
    <3>2. IsFiniteSet(UsedIn(f, n)) /\ Cardinality(UsedIn(f, n)) \in Nat
      BY <1>1, UsedIsFinite
    <3>3. Cardinality(V) <= Cardinality(UsedIn(f, n))
      BY <3>1, <3>2, FS_Subset
    <3> QED BY <3>2, <3>3, <1>1 DEF NumUsed
  <2>4. r.n = Cardinality(U) /\ r.n < m.no_entries
    BY <2>2, <2>3, <1>1, <1>3 DEF Moved
  <2>5. MovedOne(m, i, r) = [map |-> Reinsert(r.map, e), n |-> r.n + 1]
    BY <2>4, <2>2, <1>1, <1>2, <1>7 DEF MovedOne
  <2>6. e \in Entry /\ e.usage \in Nat \ {0}
    BY <1>1, <1>2, <1>4, <1>7, EntryIs
  <2>7. HasFree(r.map)
    <3>1. r.n <= i - 1 /\ r.n \in Nat
      BY <2>4, <1>3, <1>4, UsedIsFinite
    <3>2. NumUsed(r.map) = r.n /\ r.map.size = 2 * n /\ IsTable(r.map)
      BY <1>1 DEF Moved
    <3>3. NumUsed(r.map) < r.map.size
      BY <3>1, <3>2, <1>1, <1>4
    <3> QED BY <3>2, <3>3, SomeFree
  <2>8. ASSUME NEW y \in Contents(r.map)  PROVE y.rr_node # e.rr_node
    <3>1. PICK s \in U : y = f[s]
      BY <2>8, <1>1, <1>3 DEF Moved
    <3>2. s \in 0 .. n - 1 /\ f[s] # NULL /\ s # i - 1
      <4>1. s \in 0 .. (i - 1) - 1 /\ f[s] # NULL
        BY <3>1, <1>3 DEF UsedIn
      <4> QED BY <4>1, <1>1, <1>4
    <3> QED BY <3>1, <3>2, <1>1, <1>2, <1>4, <1>7 DEF Unique
  <2>9. PICK q : q = Reinsert(r.map, e)
    OBVIOUS
  <2>10. /\ IsTable(q) /\ q.size = r.map.size
         /\ Unique(q.node_entries, q.size) /\ AllPlaced(q.node_entries, q.size)
         /\ Contents(q) = Contents(r.map) \cup {e}
         /\ NumUsed(q) = NumUsed(r.map) + 1
         /\ q.no_entries = r.map.no_entries + e.usage
    BY <2>6, <2>7, <2>8, <2>9, ReinsertGood DEF Moved
  <2>11. {f[s] : s \in V} = {f[s] : s \in U} \cup {e}
    BY <2>1, <1>2
  <2>12. Contents(q) = {f[s] : s \in V}
    BY <2>10, <2>11, <1>1, <1>3 DEF Moved
  <2>13. /\ NumUsed(r.map) = r.n /\ r.n <= r.map.no_entries /\ r.map.no_entries \in Nat
         /\ r.n \in Nat /\ r.map.size = 2 * m.size
    BY <2>2, <2>4 DEF Moved, IsTable, Tables
  <2>14. r.n + 1 = Cardinality(V) /\ NumUsed(q) = r.n + 1 /\ r.n + 1 <= q.no_entries
    BY <2>2, <2>4, <2>6, <2>10, <2>13
  <2>15. Moved(m, i, [map |-> q, n |-> r.n + 1])
    BY <2>10, <2>12, <2>13, <2>14, <1>1, <1>3 DEF Moved
  <2> QED BY <2>5, <2>9, <2>15
<1> QED BY <1>6, <1>7

\* Doubling loses no entry and adds none.
LEMMA DoubledIs ==
  ASSUME NEW m, Good(m)
  PROVE  /\ Good(Doubled(m)) /\ Contents(Doubled(m)) = Contents(m)
         /\ Doubled(m).size = 2 * m.size
<1>1. PICK n, f : /\ n = m.size /\ f = m.node_entries
                  /\ n \in Nat \ {0} /\ f \in [0 .. n - 1 -> Slot] /\ m \in Tables
                  /\ m.exited = FALSE
                  /\ 100 * NumUsed(m) < 35 * n
  BY DEF Good, IsTable, Tables
<1> DEFINE larger == [m EXCEPT !.size = 2 * m.size, !.no_entries = 0,
                               !.node_entries = EmptyTable(2 * m.size)]
           x0 == [map |-> larger, n |-> 0]
           Runs(c, h) == h = [i \in 0 .. c |-> IF i = 0 THEN x0 ELSE MovedOne(m, i, h[i - 1])]
<1>2. \E h : Runs(n, h)
  <2> DEFINE A == {c \in Nat : \E h : Runs(c, h)}
  <2> HIDE DEF x0
  <2>1. 0 \in A
    <3>1. Runs(0, [i \in 0 .. 0 |-> x0])
      OBVIOUS
    <3> QED BY <3>1
  <2>2. ASSUME NEW c \in Nat, c \in A  PROVE c + 1 \in A
    <3>1. PICK h : Runs(c, h)
      BY <2>2
    <3> DEFINE g == [i \in 0 .. c + 1 |-> IF i <= c THEN h[i] ELSE MovedOne(m, i, h[c])]
    <3>2. ASSUME NEW i \in 0 .. c + 1
          PROVE  g[i] = IF i = 0 THEN x0 ELSE MovedOne(m, i, g[i - 1])
      <4>1. CASE i = 0
        BY <4>1, <3>1
      <4>2. CASE i \in 1 .. c
        <5>1. g[i] = h[i] /\ i - 1 \in 0 .. c /\ g[i - 1] = h[i - 1] /\ i # 0 /\ i \in 0 .. c
          BY <4>2
        <5> HIDE DEF g
        <5>2. h[i] = MovedOne(m, i, h[i - 1])
          BY <3>1, <5>1
        <5> QED BY <5>1, <5>2
      <4>3. CASE i = c + 1
        <5>1. g[i] = MovedOne(m, i, h[c]) /\ i - 1 = c /\ g[c] = h[c] /\ i # 0
          BY <4>3
        <5> HIDE DEF g
        <5> QED BY <5>1
      <4> QED BY <4>1, <4>2, <4>3
    <3>3. g = [i \in 0 .. c + 1 |-> g[i]]
      OBVIOUS
    <3> HIDE DEF g
    <3>4. Runs(c + 1, g)
      BY <3>2, <3>3
    <3> QED BY <3>4
  <2> HIDE DEF A
  <2>3. Nat \subseteq A
    BY <2>1, <2>2, NatInduct
  <2> QED BY <2>3, <1>1 DEF A
<1>3. PICK h : Runs(n, h) /\ Doubled(m) = h[n].map
  BY <1>1, <1>2 DEF Doubled, MovedOne
<1>4. Moved(m, 0, x0)
  <2>1. /\ larger.size = 2 * n /\ larger.no_entries = 0 /\ larger.exited = FALSE
        /\ larger.node_entries = [i \in 0 .. 2 * n - 1 |-> NULL]
        /\ larger = [size |-> 2 * n, node_entries |-> [i \in 0 .. 2 * n - 1 |-> NULL],
                     no_entries |-> 0, exited |-> FALSE]
    <3>1. PICK N : N = 2 * n /\ N = 2 * m.size
      BY <1>1
    <3>2. EmptyTable(N) = [i \in 0 .. N - 1 |-> NULL]
      BY DEF EmptyTable
    <3>3. PICK e : e = EmptyTable(N)
      OBVIOUS
    <3>4. larger = [m EXCEPT !.size = N, !.no_entries = 0, !.node_entries = e]
      BY <3>1, <3>3
    <3>5. larger = [size |-> N, node_entries |-> e, no_entries |-> 0, exited |-> FALSE]
      <4>1. m = [size |-> m.size, node_entries |-> m.node_entries,
                 no_entries |-> m.no_entries, exited |-> m.exited]
        BY <1>1 DEF Tables
      <4> HIDE DEF larger
      <4>2. PICK a, b, c : m = [size |-> a, node_entries |-> b, no_entries |-> c, exited |-> FALSE]
        BY <4>1, <1>1
      <4> QED BY <3>4, <4>2
    <3> QED BY <3>1, <3>2, <3>3, <3>5
  <2> HIDE DEF larger
  <2>2. PICK N \in Nat \ {0} : N = 2 * n
    BY <1>1
  <2>3. PICK e : e = [i \in 0 .. N - 1 |-> NULL]
    OBVIOUS
  <2>4. e \in [0 .. N - 1 -> Slot] /\ \A i \in 0 .. N - 1 : e[i] = NULL
    BY <2>3 DEF Slot
  <2>5. UsedIn(e, N) = {} /\ UsedIn(f, 0) = {} /\ Cardinality({}) = 0
    BY <2>4, FS_EmptySet DEF UsedIn
  <2>6. Unique(e, N) /\ AllPlaced(e, N)
    BY <2>4 DEF Unique, AllPlaced
  <2>7. larger \in Tables
    <3>1. e \in UNION {[0 .. c - 1 -> Slot] : c \in Nat}
      BY <2>2, <2>4
    <3> QED BY <3>1, <2>1, <2>2, <2>3 DEF Tables
  <2>8. IsTable(larger)
    BY <2>1, <2>2, <2>3, <2>4, <2>7 DEF IsTable
  <2>9. Contents(larger) = {} /\ NumUsed(larger) = 0
    BY <2>1, <2>2, <2>3, <2>5 DEF Contents, NumUsed
  <2>10. {m.node_entries[s] : s \in UsedIn(m.node_entries, 0)} = {}
    BY <2>5, <1>1
  <2>11. x0.map = larger /\ x0.n = 0 /\ x0 = [map |-> x0.map, n |-> x0.n]
    OBVIOUS
  <2> HIDE DEF x0
  <2>12. larger.size = 2 * m.size /\ Unique(larger.node_entries, larger.size)
         /\ AllPlaced(larger.node_entries, larger.size)
    BY <2>1, <2>2, <2>3, <2>6, <1>1
  <2>13. Cardinality(UsedIn(m.node_entries, 0)) = 0
    BY <2>5, <1>1
  <2>14. PICK y, l : y = x0 /\ l = larger
    OBVIOUS
  <2>15. /\ y.map = l /\ y.n = 0 /\ y = [map |-> y.map, n |-> y.n]
         /\ IsTable(l) /\ l.no_entries = 0
         /\ Contents(l) = {} /\ NumUsed(l) = 0 /\ l.size = 2 * m.size
         /\ Unique(l.node_entries, l.size) /\ AllPlaced(l.node_entries, l.size)
    BY <2>1, <2>8, <2>9, <2>11, <2>12, <2>14
  <2>16. Moved(m, 0, y)
    <3>1. y.n <= y.map.no_entries /\ NumUsed(y.map) = y.n
      BY <2>15
    <3>2. Contents(y.map) = {m.node_entries[s] : s \in UsedIn(m.node_entries, 0)}
          /\ y.n = Cardinality(UsedIn(m.node_entries, 0))
      BY <2>10, <2>13, <2>15
    <3>3. /\ IsTable(y.map) /\ y.map.size = 2 * m.size
          /\ Unique(y.map.node_entries, y.map.size) /\ AllPlaced(y.map.node_entries, y.map.size)
      BY <2>15
    <3>4. y = [map |-> y.map, n |-> y.n]
      BY <2>15
    <3> QED BY <3>1, <3>2, <3>3, <3>4, Zenon DEF Moved
  <2> QED BY <2>14, <2>16
<1> HIDE DEF x0
<1> DEFINE A == {i \in 0 .. n : Moved(m, i, h[i])}
<1>5. 0 \in A
  BY <1>1, <1>3, <1>4
<1>6. ASSUME NEW i \in 0 .. n - 1, i \in A  PROVE i + 1 \in A
  <2>1. i + 1 \in 1 .. n /\ i + 1 \in 0 .. n /\ i + 1 # 0 /\ (i + 1) - 1 = i
    BY <1>1
  <2>2. h[i + 1] = MovedOne(m, i + 1, h[i])
    BY <2>1, <1>3
  <2>3. Moved(m, i + 1, h[i + 1])
    BY <2>1, <2>2, <1>1, <1>6, MovedOneIs
  <2> QED BY <2>1, <2>3
<1> HIDE DEF A
<1>7. 0 .. n \subseteq A
  <2>1. 0 \in Int /\ n \in Int
    BY <1>1
  <2> QED BY <2>1, <1>5, <1>6, IntervalInduct
<1>8. Moved(m, n, h[n])
  BY <1>1, <1>7 DEF A
<1>9. PICK d : d = Doubled(m) /\ d = h[n].map
  BY <1>3
<1>10. /\ IsTable(d) /\ d.size = 2 * n
       /\ Unique(d.node_entries, d.size) /\ AllPlaced(d.node_entries, d.size)
       /\ Contents(d) = Contents(m)
       /\ NumUsed(d) = NumUsed(m) /\ NumUsed(d) <= d.no_entries
  <2>1. Moved(m, m.size, h[n]) /\ d = h[n].map
    BY <1>1, <1>8, <1>9
  <2>2. Contents(d) = Contents(m)
    BY <2>1 DEF Moved, Contents
  <2>3. NumUsed(d) = NumUsed(m) /\ NumUsed(d) <= d.no_entries
    BY <2>1 DEF Moved, NumUsed
  <2> QED BY <2>1, <2>2, <2>3, <1>1 DEF Moved
<1>11. NumUsed(m) \in Nat
  BY <1>1, UsedIsFinite DEF NumUsed
<1>12. 100 * NumUsed(d) < 35 * d.size
  BY <1>1, <1>10, <1>11
<1> QED BY <1>1, <1>9, <1>10, <1>12 DEF Good

LEMMA GrownIs ==
  ASSUME NEW m, Good(m), NEW d \in Nat
  PROVE  Good(Grown(m, d)) /\ Contents(Grown(m, d)) = Contents(m)
<1> DEFINE Runs(c, h) == h = [i \in 0 .. c |-> IF i = 0 THEN m ELSE Doubled(h[i - 1])]
<1>1. \E h : Runs(d, h)
  <2> DEFINE A == {c \in Nat : \E h : Runs(c, h)}
  <2>1. 0 \in A
    <3>1. Runs(0, [i \in 0 .. 0 |-> m])
      OBVIOUS
    <3> QED BY <3>1
  <2>2. ASSUME NEW c \in Nat, c \in A  PROVE c + 1 \in A
    <3>1. PICK h : Runs(c, h)
      BY <2>2
    <3> DEFINE g == [i \in 0 .. c + 1 |-> IF i <= c THEN h[i] ELSE Doubled(h[c])]
    <3>2. ASSUME NEW i \in 0 .. c + 1
          PROVE  g[i] = IF i = 0 THEN m ELSE Doubled(g[i - 1])
      <4>1. CASE i = 0
        BY <4>1, <3>1
      <4>2. CASE i \in 1 .. c
        <5>1. g[i] = h[i] /\ i - 1 \in 0 .. c /\ g[i - 1] = h[i - 1] /\ i # 0 /\ i \in 0 .. c
          BY <4>2
        <5> HIDE DEF g
        <5>2. h[i] = Doubled(h[i - 1])
          BY <3>1, <5>1
        <5> QED BY <5>1, <5>2
      <4>3. CASE i = c + 1
        <5>1. g[i] = Doubled(h[c]) /\ i - 1 = c /\ g[c] = h[c] /\ i # 0
          BY <4>3
        <5> HIDE DEF g
        <5> QED BY <5>1
      <4> QED BY <4>1, <4>2, <4>3
    <3>3. g = [i \in 0 .. c + 1 |-> g[i]]
      OBVIOUS
    <3> HIDE DEF g
    <3>4. Runs(c + 1, g)
      BY <3>2, <3>3
    <3> QED BY <3>4
  <2> HIDE DEF A
  <2>3. Nat \subseteq A
    BY <2>1, <2>2, NatInduct
  <2> QED BY <2>3 DEF A
<1>2. PICK h : Runs(d, h) /\ Grown(m, d) = h[d]
  BY <1>1 DEF Grown
<1> DEFINE A == {i \in 0 .. d : Good(h[i]) /\ Contents(h[i]) = Contents(m)}
<1>3. 0 \in A
  <2>1. 0 \in 0 .. d
    OBVIOUS
  <2>2. h[0] = m
    BY <2>1, <1>2
  <2> QED BY <2>1, <2>2
<1>4. ASSUME NEW i \in 0 .. d - 1, i \in A  PROVE i + 1 \in A
  <2>1. i + 1 \in 0 .. d /\ i + 1 # 0 /\ (i + 1) - 1 = i
    OBVIOUS
  <2>2. h[i + 1] = Doubled(h[i])
    BY <2>1, <1>2
  <2> QED BY <2>1, <2>2, <1>4, DoubledIs
<1> HIDE DEF A
<1>5. 0 .. d \subseteq A
  BY <1>3, <1>4, IntervalInduct
<1> QED BY <1>2, <1>5 DEF A

-----------------------------------------------------------------------------
(* Adding *)

\* Tables that have the same entries for j answer alike.
LEMMA GetsAlike ==
  ASSUME NEW m, Good(m), NEW r, Good(r), NEW j \in Nat,
         \A y : y.rr_node = j => (y \in Contents(m) <=> y \in Contents(r))
  PROVE  Get(m, j) = Get(r, j)
<1>1. CASE \E y \in Contents(m) : y.rr_node = j
  <2>1. PICK y \in Contents(m) : y.rr_node = j
    BY <1>1
  <2>2. y \in Contents(r)
    BY <2>1
  <2>3. Get(m, y.rr_node) = y /\ Get(r, y.rr_node) = y
    BY <2>2, GetIs
  <2> QED BY <2>1, <2>3
<1>2. CASE \A y \in Contents(m) : y.rr_node # j
  <2>1. \A y \in Contents(r) : y.rr_node # j
    BY <1>2
  <2> QED BY <1>2, <2>1, GetIs
<1> QED BY <1>1, <1>2

\* Another usage for the entry of an rr_node.
LEMMA ReplacedIs ==
  ASSUME NEW m, Good(m), NEW n, n = m.size, NEW f, f = m.node_entries,
         NEW p \in 0 .. n - 1, f[p] # NULL, NEW y \in Entry, y.rr_node = f[p].rr_node,
         NEW r, r = [size |-> n, node_entries |-> Put(f, p, y),
                     no_entries |-> m.no_entries, exited |-> FALSE]
  PROVE  /\ Good(r) /\ Get(r, y.rr_node) = y
         /\ \A j \in Nat : j # y.rr_node => Get(r, j) = Get(m, j)
<1>1. /\ n \in Nat \ {0} /\ f \in [0 .. n - 1 -> Slot] /\ m.no_entries \in Nat
      /\ Unique(f, n) /\ AllPlaced(f, n)
      /\ NumUsed(m) <= m.no_entries /\ 100 * NumUsed(m) < 35 * n
  BY DEF Good, IsTable, Tables
<1>2. PICK g : g = Put(f, p, y)
  OBVIOUS
<1>3. /\ g \in [0 .. n - 1 -> Slot] /\ g[p] = y /\ y # NULL
      /\ \A s \in 0 .. n - 1 : s # p => g[s] = f[s]
  BY <1>1, <1>2, EntryNotNull DEF Put
<1>4. \A s \in 0 .. n - 1 : /\ g[s] = NULL <=> f[s] = NULL
                            /\ g[s].rr_node = f[s].rr_node
  BY <1>3
<1>5. Unique(g, n)
  BY <1>1, <1>4 DEF Unique
<1>6. AllPlaced(g, n)
  <2> SUFFICES ASSUME NEW s \in 0 .. n - 1, g[s] # NULL
               PROVE  Leads(g, n, g[s].rr_node % n, s)
    BY DEF AllPlaced
  <2>1. Leads(f, n, f[s].rr_node % n, s)
    BY <1>1, <1>4 DEF AllPlaced
  <2>2. Leads(f, n, g[s].rr_node % n, s)
    BY <2>1, <1>4
  <2> QED BY <2>2, <1>4 DEF Leads
<1>7. UsedIn(g, n) = UsedIn(f, n)
  BY <1>4 DEF UsedIn
<1>8. r.size = n /\ r.node_entries = g /\ r.no_entries = m.no_entries /\ r.exited = FALSE
  BY <1>2
<1>9. IsTable(r)
  <2>1. g \in UNION {[0 .. c - 1 -> Slot] : c \in Nat}
    BY <1>1, <1>3
  <2>2. r \in Tables
    BY <2>1, <1>1, <1>2 DEF Tables
  <2> QED BY <2>2, <1>3, <1>8 DEF IsTable
<1>10. NumUsed(r) = NumUsed(m)
  BY <1>7, <1>8 DEF NumUsed
<1>11. Good(r)
  BY <1>1, <1>5, <1>6, <1>8, <1>9, <1>10 DEF Good
<1>12. Get(r, y.rr_node) = y
  <2>1. HasFree(r)
    BY <1>11, GoodHasFree
  <2>2. n = r.size /\ g = r.node_entries /\ g[p] # NULL
    BY <1>3, <1>8
  <2>3. Get(r, g[p].rr_node) = g[p]
    BY <2>1, <2>2, <1>5, <1>6, <1>9, FoundIs
  <2> QED BY <2>3, <1>3
<1>13. ASSUME NEW j \in Nat, j # y.rr_node
       PROVE  Get(r, j) = Get(m, j)
  <2>1. ASSUME NEW x, x.rr_node = j  PROVE x \in Contents(m) <=> x \in Contents(r)
    <3>1. x \in Contents(m) <=> \E s \in UsedIn(f, n) : x = f[s]
      BY DEF Contents
    <3>2. x \in Contents(r) <=> \E s \in UsedIn(f, n) : x = g[s]
      BY <1>7, <1>8 DEF Contents
    <3>3. ASSUME NEW s \in UsedIn(f, n)  PROVE x = f[s] <=> x = g[s]
      <4>1. s \in 0 .. n - 1
        BY <3>3 DEF UsedIn
      <4>2. CASE s = p
        BY <4>1, <4>2, <1>3, <1>13, <2>1
      <4>3. CASE s # p
        BY <4>1, <4>3, <1>3
      <4> QED BY <4>2, <4>3
    <3> QED BY <3>1, <3>2, <3>3
  <2> QED BY <2>1, <1>11, GetsAlike, ZenonT(60)
<1> QED BY <1>11, <1>12, <1>13

\* When a search finds an entry, it is one for the rr_node searched for.
LEMMA FoundAt ==
  ASSUME NEW m, Good(m), NEW k \in Nat, Get(m, k) # NULL,
         NEW n, n = m.size, NEW f, f = m.node_entries
  PROVE  /\ ~IsFull(m, k)
         /\ Place(m, k) \in 0 .. n - 1
         /\ Get(m, k) = f[Place(m, k)]
         /\ f[Place(m, k)].rr_node = k
<1>1. IsTable(m) /\ HasFree(m)
  BY GoodHasFree DEF Good
<1>2. PICK p : p = Place(m, k)
  OBVIOUS
<1>3. ~IsFull(m, k) /\ p \in 0 .. n - 1 /\ (f[p] = NULL \/ f[p].rr_node = k)
  BY <1>1, <1>2, SearchIs
<1>4. Get(m, k) = f[p]
  BY <1>2, <1>3 DEF Get
<1> QED BY <1>2, <1>3, <1>4

LEMMA AddedIs ==
  ASSUME NEW m, Good(m), NEW k \in Key,
         Get(m, k) = NULL => \E d \in 0 .. MaxGrowth : HasRoom(Grown(m, d))
  PROVE  /\ Good(Added(m, k))
         /\ Get(Added(m, k), k).usage = Get(m, k).usage + 1
         /\ \A j \in Key : j # k => Get(Added(m, k), j) = Get(m, j)
<1>1. k \in Nat /\ Key \subseteq Nat
  BY KeyAssumption
<1>2. IsTable(m) /\ HasFree(m)
  BY GoodHasFree DEF Good
<1>3. ~IsFull(m, k)
  BY <1>1, <1>2, SearchIs
<1>4. CASE Get(m, k) # NULL
  <2>1. PICK n, f, p : /\ n = m.size /\ f = m.node_entries /\ p = Place(m, k)
                       /\ n \in Nat \ {0} /\ f \in [0 .. n - 1 -> Slot]
    BY <1>2 DEF IsTable, Tables
  <2>2. p \in 0 .. n - 1 /\ Get(m, k) = f[p] /\ f[p].rr_node = k /\ f[p] # NULL
    BY <2>1, <1>1, <1>4, FoundAt
  <2>3. PICK r : r = Added(m, k)
    OBVIOUS
  <2>4. PICK u \in Nat \ {0} : f[p] = [rr_node |-> k, usage |-> u]
    <3>1. f[p] \in Entry
      BY <2>1, <2>2, EntryIs
    <3> QED BY <3>1, <2>2 DEF Entry
  <2>5. PICK y : y = [rr_node |-> k, usage |-> u + 1]
    OBVIOUS
  <2>6. y \in Entry
    BY <2>5 DEF Entry
  <2>7. r = [m EXCEPT !.node_entries[p].usage = @ + 1]
    BY <2>1, <2>3, <1>3, <1>4 DEF Added
  <2>8. m = [size |-> n, node_entries |-> f, no_entries |-> m.no_entries, exited |-> FALSE]
    BY <2>1, <1>2 DEF IsTable, Tables
  <2>9. [f[p] EXCEPT !.usage = @ + 1] = y
    BY <2>4, <2>5
  <2>10. r = [size |-> n, node_entries |-> Put(f, p, y),
              no_entries |-> m.no_entries, exited |-> FALSE]
    <3>1. PICK c : m = [size |-> n, node_entries |-> f, no_entries |-> c, exited |-> FALSE]
                   /\ c = m.no_entries
      BY <2>8
    <3>2. r = [size |-> n, node_entries |-> [f EXCEPT ![p].usage = @ + 1],
               no_entries |-> c, exited |-> FALSE]
      BY <3>1, <2>7
    <3>3. [f EXCEPT ![p].usage = @ + 1] = [f EXCEPT ![p] = y]
      BY <2>9
    <3> QED BY <3>1, <3>2, <3>3 DEF Put
  <2>11. /\ Good(r) /\ Get(r, k) = y
         /\ \A j \in Nat : j # k => Get(r, j) = Get(m, j)
    <3>1. y.rr_node = k
      BY <2>5
    <3> QED BY <3>1, <2>1, <2>2, <2>6, <2>10, ReplacedIs, SMTT(30)
  <2>12. Get(r, k).usage = u + 1 /\ Get(m, k).usage = u
    BY <2>2, <2>4, <2>5, <2>11
  <2> QED BY <2>3, <2>11, <2>12, <1>1
<1>5. CASE Get(m, k) = NULL
  <2> DEFINE First(d) == /\ HasRoom(Grown(m, d))
                         /\ \A c \in 0 .. d - 1 : ~HasRoom(Grown(m, c))
  <2>1. PICK d \in 0 .. MaxGrowth : First(d)
    <3> DEFINE T == {d \in Nat : HasRoom(Grown(m, d))}
    <3>1. PICK e \in 0 .. MaxGrowth : HasRoom(Grown(m, e))
      BY <1>5
    <3>2. MaxGrowth \in Nat
      BY KeyAssumption
    <3>3. e \in T
      BY <3>1, <3>2
    <3>4. PICK d \in T : \A c \in T : d <= c
      BY <3>3, Least
    <3>5. d \in 0 .. MaxGrowth
      BY <3>1, <3>2, <3>3, <3>4
    <3>6. \A c \in 0 .. d - 1 : c \notin T
      BY <3>4
    <3> QED BY <3>4, <3>5, <3>6
  <2>2. PICK d2 \in Nat : HasRoom(Grown(m, d2)) /\ Fitting(m) = Grown(m, d2)
    <3>1. PICK d2 \in 0 .. MaxGrowth :
            d2 = (CHOOSE c \in 0 .. MaxGrowth : First(c)) /\ First(d2)
      BY <2>1
    <3> QED BY <3>1 DEF Fitting
  <2> HIDE DEF First
  <2>3. PICK g : g = Fitting(m)
    OBVIOUS
  <2>4. Good(g) /\ Contents(g) = Contents(m) /\ HasRoom(g)
    BY <2>2, <2>3, GrownIs
  <2>5. IsTable(g) /\ HasFree(g)
    BY <2>4, GoodHasFree DEF Good
  <2>6. PICK x : x = [rr_node |-> k, usage |-> 1]
    OBVIOUS
  <2>7. x \in Entry /\ x.rr_node = k /\ x.usage = 1
    BY <2>6 DEF Entry
  <2>8. Get(g, k) = NULL
    BY <2>4, <1>1, <1>5, GetsAlike
  <2>9. ASSUME NEW y \in Contents(g)  PROVE y.rr_node # x.rr_node
    <3>1. y \in Entry /\ Get(g, y.rr_node) = y
      BY <2>4, <2>9, GetIs
    <3> QED BY <3>1, <2>7, <2>8, EntryNotNull
  <2>10. Added(m, k) = Reinsert(g, x)
    <3>1. ~IsFull(g, k)
      BY <2>5, <1>1, SearchIs
    <3> QED BY <3>1, <2>3, <2>6, <2>7, <2>8, <1>3, <1>5 DEF Added, Reinsert
  <2>11. PICK r : r = Reinsert(g, x)
    OBVIOUS
  <2>12. /\ IsTable(r) /\ r.size = g.size
         /\ Unique(r.node_entries, r.size) /\ AllPlaced(r.node_entries, r.size)
         /\ Contents(r) = Contents(g) \cup {x}
         /\ NumUsed(r) = NumUsed(g) + 1
         /\ r.no_entries = g.no_entries + 1
    BY <2>4, <2>5, <2>7, <2>9, <2>11, ReinsertGood DEF Good
  <2>13. Good(r)
    <3>1. NumUsed(g) <= g.no_entries /\ 100 * (g.no_entries + 1) < 35 * g.size
          /\ g.no_entries \in Nat /\ g.size \in Nat
      BY <2>4 DEF Good, HasRoom, IsTable, Tables
    <3>2. NumUsed(g) \in Nat
      BY <3>1, UsedIsFinite DEF NumUsed
    <3>3. NumUsed(r) <= r.no_entries /\ 100 * NumUsed(r) < 35 * r.size
      BY <3>1, <3>2, <2>12
    <3> QED BY <3>3, <2>12 DEF Good
  <2>14. Get(r, k) = x
    BY <2>7, <2>12, <2>13, GetIs
  <2>15. ASSUME NEW j \in Key, j # k  PROVE Get(r, j) = Get(m, j)
    <3>1. \A y : y.rr_node = j => (y \in Contents(m) <=> y \in Contents(r))
      BY <2>4, <2>7, <2>12, <2>15
    <3> QED BY <3>1, <2>13, <1>1, GetsAlike
  <2>16. Get(m, k).usage = 0
    BY <1>5 DEF NULL
  <2> QED BY <2>7, <2>10, <2>11, <2>13, <2>14, <2>15, <2>16
<1> QED BY <1>4, <1>5

-----------------------------------------------------------------------------
(* Closing a gap *)

\* Slots a, b, c come in this order behind the slot g.
InOrder(n, g, a, b, c) == Steps(n, g, a) < Steps(n, g, b) /\ Steps(n, g, b) < Steps(n, g, c)

\* Whoever goes from h past a to c passes all between a and c; who goes past b to a,
\* which lies before b, passes all behind b.
LEMMA BetweenSteps ==
  ASSUME NEW n \in Nat \ {0}, NEW g \in 0 .. n - 1, NEW h \in 0 .. n - 1,
         NEW a \in 0 .. n - 1, NEW b \in 0 .. n - 1, NEW c \in 0 .. n - 1,
         InOrder(n, g, a, b, c)
  PROVE  /\ Steps(n, h, a) < Steps(n, h, c) => Steps(n, h, b) < Steps(n, h, c)
         /\ Steps(n, h, b) < Steps(n, h, a) => Steps(n, h, c) < Steps(n, h, a)
  BY DEF InOrder, Steps

\* The last slot of the table as seen from p is the one before p.
LEMMA SomeLast ==
  ASSUME NEW n \in Nat \ {0}, NEW p \in 0 .. n - 1
  PROVE  \E s \in 0 .. n - 1 : Steps(n, p, s) = n - 1
<1>1. CASE p = 0
  <2>1. n - 1 \in 0 .. n - 1 /\ Steps(n, p, n - 1) = n - 1
    BY <1>1 DEF Steps
  <2> QED BY <2>1
<1>2. CASE p # 0
  <2>1. p - 1 \in 0 .. n - 1 /\ Steps(n, p, p - 1) = n - 1
    BY <1>2 DEF Steps
  <2> QED BY <2>1
<1> QED BY <1>1, <1>2

LEMMA LastSlot ==
  ASSUME NEW n \in Nat \ {0}, n # 1, NEW p \in 0 .. n - 1, NEW h \in 0 .. n - 1, h # p,
         NEW s \in 0 .. n - 1, Steps(n, p, s) = n - 1
  PROVE  Steps(n, h, s) < Steps(n, h, p) /\ s # p
<1>1. CASE s >= p
  <2>1. s = n - 1 /\ p = 0
    BY <1>1 DEF Steps
  <2> QED BY <2>1 DEF Steps
<1>2. CASE s < p
  <2>1. s = p - 1
    BY <1>2 DEF Steps
  <2> QED BY <2>1 DEF Steps
<1> QED BY <1>1, <1>2

LEMMA SameSteps ==
  ASSUME NEW n \in Nat \ {0}, NEW g \in 0 .. n - 1, NEW s \in 0 .. n - 1,
         NEW t \in 0 .. n - 1, Steps(n, g, s) = Steps(n, g, t)
  PROVE  s = t
  BY DEF Steps

\* The slots 1 to i behind g.
Behind(n, g, i) == {s \in 0 .. n - 1 : Steps(n, g, s) \in 1 .. i}

LEMMA BehindCount ==
  ASSUME NEW n \in Nat \ {0}, NEW g \in 0 .. n - 1, NEW i \in 0 .. n - 1
  PROVE  IsFiniteSet(Behind(n, g, i)) /\ Cardinality(Behind(n, g, i)) = i
<1> DEFINE A == {j \in 0 .. n - 1 : /\ IsFiniteSet(Behind(n, g, j))
                                    /\ Cardinality(Behind(n, g, j)) = j}
<1>1. 0 \in A
  <2>1. Behind(n, g, 0) = {}
    BY DEF Behind
  <2> QED BY <2>1, FS_EmptySet
<1>2. ASSUME NEW j \in 0 .. (n - 1) - 1, j \in A  PROVE j + 1 \in A
  <2>1. PICK t \in 0 .. n - 1 : Steps(n, g, t) = j + 1
    <3>1. j + 1 \in 0 .. n - 1
      OBVIOUS
    <3> QED BY <3>1, Wraps
  <2>2. Behind(n, g, j + 1) = Behind(n, g, j) \cup {t}
    <3>1. ASSUME NEW s \in 0 .. n - 1
          PROVE  Steps(n, g, s) \in 1 .. j + 1 <=> Steps(n, g, s) \in 1 .. j \/ s = t
      <4>1. Steps(n, g, s) \in Nat /\ (Steps(n, g, s) = j + 1 => s = t)
        <5>1. Steps(n, g, s) \in 0 .. n - 1
          BY StepsIs
        <5>2. Steps(n, g, s) = j + 1 => s = t
          BY <2>1, SameSteps
        <5> QED BY <5>1, <5>2
      <4> QED BY <4>1, <2>1
    <3> QED BY <3>1 DEF Behind
  <2>3. t \notin Behind(n, g, j)
    BY <2>1 DEF Behind
  <2>4. /\ IsFiniteSet(Behind(n, g, j + 1))
        /\ Cardinality(Behind(n, g, j + 1)) = j + 1
    BY <1>2, <2>2, <2>3, FS_AddElement
  <2> QED BY <2>4
<1> HIDE DEF A
<1>3. 0 \in Int /\ n - 1 \in Int
  OBVIOUS
<1>4. 0 .. n - 1 \subseteq A
  BY <1>1, <1>2, <1>3, IntervalInduct
<1> QED BY <1>4 DEF A

\* Holes on the way to an entry lie in the first i slots behind the gap g, or are the
\* gap, and the entry lies further behind.
HolesBefore(f, n, g, i) ==
  \A s, t \in 0 .. n - 1 :
    /\ f[s] # NULL /\ f[t] = NULL
    /\ Steps(n, f[s].rr_node % n, t) < Steps(n, f[s].rr_node % n, s)
    => Steps(n, g, s) > i /\ Steps(n, g, t) <= i

\* q has the entries of m and may have counted some of them again.
Shuffled(m, q) ==
  /\ IsTable(q) /\ q.size = m.size
  /\ Unique(q.node_entries, q.size)
  /\ Contents(q) = Contents(m)
  /\ NumUsed(q) = NumUsed(m)
  /\ m.no_entries <= q.no_entries

\* The first i slots behind the gap g of m are done.
Closing(m, g, i, q) ==
  /\ Shuffled(m, q)
  /\ \A s \in 0 .. m.size - 1 :
       /\ Steps(m.size, g, s) > i => q.node_entries[s] = m.node_entries[s]
       /\ Steps(m.size, g, s) \in 1 .. i => m.node_entries[s] # NULL
  /\ HolesBefore(q.node_entries, q.size, g, i)

\* A table with a gap in slot g, another free slot z, and a counter that counts all
\* entries; the slot in front of the gap is taken or the loop looks one slot further.
HasGap(m, g, last) ==
  /\ IsTable(m) /\ g \in 0 .. m.size - 1 /\ m.node_entries[g] = NULL
  /\ \E z \in 0 .. m.size - 1 : z # g /\ m.node_entries[z] = NULL
  /\ NumUsed(m) <= m.no_entries
  /\ \/ last = 1
     \/ /\ last = 0
        /\ \E s \in 0 .. m.size - 1 : /\ m.node_entries[s] # NULL
                                      /\ Steps(m.size, g, s) = m.size - 1

\* The slot that is next has slots behind it, and the counter lets the loop look at it
\* if it is in use.
LEMMA NextSlot ==
  ASSUME NEW m, NEW g, NEW last, HasGap(m, g, last), NEW n, n = m.size,
         NEW i \in 0 .. n - 1, NEW q, Closing(m, g, i, q),
         NEW loc, loc = (g + (i + 1)) % n
  PROVE  /\ i + 1 \in 0 .. n - 1
         /\ loc \in 0 .. n - 1 /\ Steps(n, g, loc) = i + 1
         /\ q.node_entries[loc] = m.node_entries[loc]
         /\ q.node_entries[loc] # NULL =>
              /\ i + 1 < q.no_entries + last
              /\ \E z \in 0 .. n - 1 : /\ q.node_entries[z] = NULL
                                       /\ Steps(n, g, z) > i + 1
<1>1. /\ n \in Nat \ {0} /\ g \in 0 .. n - 1 /\ m.no_entries \in Nat
      /\ q.no_entries \in Nat /\ m.no_entries <= q.no_entries
      /\ NumUsed(m) <= m.no_entries
  BY DEF HasGap, Closing, Shuffled, IsTable, Tables
<1>2. PICK z \in 0 .. n - 1 : z # g /\ m.node_entries[z] = NULL
  BY DEF HasGap
<1>3. Steps(n, g, z) \in 1 .. n - 1
  BY <1>1, <1>2 DEF Steps
<1>4. Steps(n, g, z) > i
  BY <1>2, <1>3 DEF Closing
<1>5. i + 1 \in 0 .. n - 1
  BY <1>1, <1>3, <1>4
<1>6. loc \in 0 .. n - 1 /\ Steps(n, g, loc) = i + 1
  BY <1>1, <1>5, Wraps, ZenonT(60)
<1>7. q.node_entries[loc] = m.node_entries[loc]
  BY <1>6 DEF Closing
<1>8. ASSUME q.node_entries[loc] # NULL
      PROVE  i + 1 < q.no_entries + last /\ Steps(n, g, z) > i + 1
             /\ q.node_entries[z] = NULL
  <2>1. Steps(n, g, z) > i + 1
    <3>1. Steps(n, g, z) # i + 1
      <4>1. SUFFICES ASSUME Steps(n, g, z) = i + 1 PROVE FALSE
        OBVIOUS
      <4>2. z = loc
        BY <4>1, <1>1, <1>6, SameSteps
      <4> QED BY <4>2, <1>2, <1>7, <1>8
    <3> QED BY <3>1, <1>3, <1>4
  <2>2. q.node_entries[z] = NULL
    BY <1>2, <1>4 DEF Closing
  <2>3. PICK B, U : B = Behind(n, g, i + 1) /\ U = UsedIn(m.node_entries, n)
    OBVIOUS
  <2>4. B \subseteq U
    <3> SUFFICES ASSUME NEW s \in 0 .. n - 1, Steps(n, g, s) \in 1 .. i + 1
                 PROVE  m.node_entries[s] # NULL
      BY <2>3 DEF Behind, UsedIn
    <3>1. CASE Steps(n, g, s) = i + 1
      <4>1. s = loc
        BY <3>1, <1>1, <1>6, SameSteps
      <4> QED BY <4>1, <1>7, <1>8
    <3>2. CASE Steps(n, g, s) # i + 1
      <4>1. Steps(n, g, s) \in 1 .. i
        BY <3>2
      <4> QED BY <4>1 DEF Closing
    <3> QED BY <3>1, <3>2
  <2>5. /\ IsFiniteSet(B) /\ Cardinality(B) = i + 1
        /\ IsFiniteSet(U) /\ Cardinality(U) = NumUsed(m) /\ Cardinality(U) \in Nat
    BY <2>3, <1>1, <1>5, BehindCount, UsedIsFinite DEF NumUsed
  <2>6. Cardinality(B) <= Cardinality(U)
    BY <2>4, <2>5, FS_Subset
  <2>7. CASE last = 1
    BY <2>1, <2>2, <2>5, <2>6, <2>7, <1>1
  <2>8. CASE last # 1
    <3>1. PICK s \in 0 .. n - 1 : m.node_entries[s] # NULL /\ Steps(n, g, s) = n - 1
      BY <2>8 DEF HasGap
    <3>2. last = 0
      BY <2>8 DEF HasGap
    <3>3. s \notin B /\ s \in U
      <4>1. n - 1 > i + 1
        BY <2>1, <1>1, <1>3
      <4> QED BY <4>1, <3>1, <2>3 DEF Behind, UsedIn
    <3>4. IsFiniteSet(B \cup {s}) /\ Cardinality(B \cup {s}) = Cardinality(B) + 1
      BY <3>3, <2>5, FS_AddElement
    <3>5. Cardinality(B \cup {s}) <= Cardinality(U)
      BY <3>3, <2>4, <2>5, FS_Subset
    <3> QED BY <3>2, <3>4, <3>5, <2>1, <2>2, <2>5, <1>1
  <2> QED BY <2>1, <2>2, <2>7, <2>8
<1> QED BY <1>5, <1>6, <1>7, <1>8

\* The round of the loop that finds a free slot: nothing is left to move.
LEMMA ClosedIs ==
  ASSUME NEW n \in Nat \ {0}, NEW f \in [0 .. n - 1 -> Slot], NEW g \in 0 .. n - 1,
         NEW i \in Nat, HolesBefore(f, n, g, i),
         NEW loc \in 0 .. n - 1, Steps(n, g, loc) = i + 1, f[loc] = NULL
  PROVE  AllPlaced(f, n)
<1> SUFFICES ASSUME NEW s \in 0 .. n - 1, f[s] # NULL, NEW t \in 0 .. n - 1, f[t] = NULL,
                    Steps(n, f[s].rr_node % n, t) < Steps(n, f[s].rr_node % n, s)
             PROVE  FALSE
  BY DEF AllPlaced, Leads
<1>1. PICK h \in 0 .. n - 1 : h = f[s].rr_node % n
  BY EntryIs, HomeIsSlot
<1>2. Steps(n, g, s) > i /\ Steps(n, g, t) <= i
  BY DEF HolesBefore
<1>3. Steps(n, g, s) # i + 1
  BY SameSteps
<1>4. Steps(n, g, s) \in Nat /\ Steps(n, g, t) \in Nat
  BY StepsIs
<1>5. InOrder(n, g, t, loc, s)
  BY <1>2, <1>3, <1>4 DEF InOrder
<1>6. Steps(n, h, loc) < Steps(n, h, s)
  BY <1>1, <1>5, BetweenSteps
<1>7. Steps(n, g, loc) <= i
  BY <1>1, <1>6 DEF HolesBefore
<1> QED BY <1>7

\* An entry at home needs no other place.
LEMMA HomeStays ==
  ASSUME NEW n \in Nat \ {0}, NEW f \in [0 .. n - 1 -> Slot], NEW g \in 0 .. n - 1,
         NEW i \in Nat, HolesBefore(f, n, g, i),
         NEW loc \in 0 .. n - 1, Steps(n, g, loc) = i + 1,
         f[loc] # NULL, f[loc].rr_node % n = loc
  PROVE  HolesBefore(f, n, g, i + 1)
<1> SUFFICES ASSUME NEW s \in 0 .. n - 1, f[s] # NULL, NEW t \in 0 .. n - 1, f[t] = NULL,
                    Steps(n, f[s].rr_node % n, t) < Steps(n, f[s].rr_node % n, s)
             PROVE  Steps(n, g, s) > i + 1 /\ Steps(n, g, t) <= i + 1
  BY DEF HolesBefore
<1>1. Steps(n, g, s) > i /\ Steps(n, g, t) <= i
  BY DEF HolesBefore
<1>2. s # loc
  <2>1. SUFFICES ASSUME s = loc PROVE FALSE
    OBVIOUS
  <2>2. Steps(n, loc, t) < Steps(n, loc, loc)
    BY <2>1
  <2> QED BY <2>2 DEF Steps
<1>3. Steps(n, g, s) # i + 1
  BY <1>2, SameSteps
<1>4. Steps(n, g, s) \in Nat /\ Steps(n, g, t) \in Nat
  BY StepsIs
<1> QED BY <1>1, <1>3, <1>4

\* An entry x taken out of slot loc goes into slot p, where a search for it now ends.
LEMMA MovedUp ==
  ASSUME NEW n \in Nat \ {0}, NEW f \in [0 .. n - 1 -> Slot], NEW g \in 0 .. n - 1,
         NEW i \in Nat, HolesBefore(f, n, g, i),
         NEW loc \in 0 .. n - 1, Steps(n, g, loc) = i + 1,
         NEW x \in Entry, f[loc] = x,
         NEW z \in 0 .. n - 1, f[z] = NULL, Steps(n, g, z) > i + 1,
         NEW e, e = [f EXCEPT ![loc] = NULL],
         NEW p \in 0 .. n - 1, e[p] = NULL, Leads(e, n, x.rr_node % n, p)
  PROVE  /\ HolesBefore(Put(e, p, x), n, g, i + 1)
         /\ Steps(n, g, p) <= i + 1
<1>1. PICK d : d = Put(e, p, x)
  OBVIOUS
<1>2. /\ x # NULL /\ e \in [0 .. n - 1 -> Slot] /\ e[loc] = NULL
      /\ \A s \in 0 .. n - 1 : s # loc => e[s] = f[s]
  BY EntryNotNull DEF Slot
<1>3. d[p] = x /\ \A s \in 0 .. n - 1 : s # p => d[s] = e[s]
  BY <1>1, <1>2 DEF Put
<1>4. PICK h \in 0 .. n - 1 : h = x.rr_node % n
  BY EntryNotNull, EntryIs, HomeIsSlot
<1>5. Steps(n, g, p) <= i + 1
  <2>1. CASE p = loc
    BY <2>1
  <2>2. CASE p # loc
    <3>1. Steps(n, h, p) \in Nat /\ Steps(n, h, loc) \in Nat /\ Steps(n, g, p) \in Nat
      <4>1. Steps(n, h, p) \in 0 .. n - 1 /\ Steps(n, h, loc) \in 0 .. n - 1
        BY StepsIs
      <4>2. Steps(n, g, p) \in 0 .. n - 1
        BY StepsIs
      <4> QED BY <4>1, <4>2
    <3>2. ~(Steps(n, h, loc) < Steps(n, h, p))
      BY <1>2, <1>4 DEF Leads
    <3>3. Steps(n, h, p) # Steps(n, h, loc)
      BY <2>2, SameSteps
    <3>4. Steps(n, h, p) < Steps(n, h, loc)
      BY <3>1, <3>2, <3>3
    <3>5. f[p] = NULL
      BY <2>2, <1>2
    <3>6. Steps(n, g, p) <= i
      BY <3>4, <3>5, <1>2, <1>4 DEF HolesBefore
    <3> QED BY <3>1, <3>6
  <2> QED BY <2>1, <2>2
<1>6. HolesBefore(d, n, g, i + 1)
  <2> SUFFICES ASSUME NEW s \in 0 .. n - 1, d[s] # NULL, NEW t \in 0 .. n - 1, d[t] = NULL,
                      Steps(n, d[s].rr_node % n, t) < Steps(n, d[s].rr_node % n, s)
               PROVE  Steps(n, g, s) > i + 1 /\ Steps(n, g, t) <= i + 1
    BY DEF HolesBefore
  <2>1. t # p
    BY <1>2, <1>3
  <2>2. e[t] = NULL
    BY <2>1, <1>3
  <2>3. s # p
    <3>1. SUFFICES ASSUME s = p PROVE FALSE
      OBVIOUS
    <3>2. Steps(n, h, t) < Steps(n, h, p)
      BY <3>1, <1>3, <1>4
    <3> QED BY <3>2, <2>2, <1>4 DEF Leads
  <2>4. d[s] = e[s] /\ s # loc /\ e[s] = f[s]
    BY <2>3, <1>2, <1>3
  <2>5. PICK k \in 0 .. n - 1 : k = f[s].rr_node % n
    BY <2>4, <1>2, EntryIs, HomeIsSlot
  <2>6. Steps(n, k, t) < Steps(n, k, s) /\ f[s] # NULL
    BY <2>4, <2>5
  <2>7. Steps(n, g, s) \in Nat /\ Steps(n, g, t) \in Nat /\ Steps(n, g, s) # i + 1
    <3>1. Steps(n, g, s) \in Nat /\ Steps(n, g, t) \in Nat
      BY StepsIs
    <3>2. Steps(n, g, s) # i + 1
      BY <2>4, SameSteps
    <3> QED BY <3>1, <3>2
  <2>8. CASE t # loc
    <3>1. f[t] = NULL
      BY <2>2, <2>8, <1>2
    <3>2. Steps(n, g, s) > i /\ Steps(n, g, t) <= i
      BY <3>1, <2>5, <2>6 DEF HolesBefore
    <3> QED BY <3>2, <2>7
  <2>9. CASE t = loc
    <3>1. ASSUME ~(Steps(n, g, s) > i + 1)  PROVE FALSE
      <4>1. Steps(n, g, s) <= i
        BY <3>1, <2>7
      <4>2. InOrder(n, g, s, loc, z)
        BY <4>1, <2>7 DEF InOrder
      <4>3. Steps(n, k, z) < Steps(n, k, s)
        BY <4>2, <2>6, <2>9, BetweenSteps
      <4>4. Steps(n, g, s) > i
        BY <4>3, <2>5, <2>6 DEF HolesBefore
      <4> QED BY <4>1, <4>4, <2>7
    <3> QED BY <3>1, <2>9
  <2> QED BY <2>8, <2>9
<1> QED BY <1>1, <1>5, <1>6

\* The loop looks at slot i behind the gap.
CloseOne(m, g, last, i, r) ==
  LET loc == (g + i) % m.size
      e   == r.map.node_entries[loc]
  IN  IF r.done \/ i >= r.map.no_entries + last \/ e = NULL
      THEN [r EXCEPT !.done = TRUE]
      ELSE IF Home(m, e.rr_node) = loc THEN r
      ELSE [r EXCEPT !.map = Reinsert([r.map EXCEPT !.node_entries[loc] = NULL], e)]

GapState(m, g, i, r) ==
  /\ r = [map |-> r.map, done |-> r.done] /\ r.done \in BOOLEAN
  /\ r.done => Shuffled(m, r.map) /\ AllPlaced(r.map.node_entries, r.map.size)
  /\ ~r.done => Closing(m, g, i, r.map)

Emptied(q, loc) == [q EXCEPT !.node_entries[loc] = NULL]

\* The entry x was put into slot p of e, which gives d.
WasMoved(q, n, e, x, p, d) ==
  /\ e[p] = NULL /\ Leads(e, n, x.rr_node % n, p)
  /\ IsTable(d) /\ d.size = n /\ d.node_entries = Put(e, p, x)
  /\ Unique(d.node_entries, n)
  /\ Contents(d) = Contents(q) /\ NumUsed(d) = NumUsed(q)
  /\ q.no_entries <= d.no_entries

\* Taking the entry of slot loc out and putting it in again.
LEMMA ReplaceIs ==
  ASSUME NEW q, IsTable(q), NEW n, n = q.size, NEW f, f = q.node_entries, Unique(f, n),
         NEW loc \in 0 .. n - 1, f[loc] # NULL,
         NEW e, e = [f EXCEPT ![loc] = NULL],
         NEW d, d = Reinsert(Emptied(q, loc), f[loc])
  PROVE  \E p \in 0 .. n - 1 : WasMoved(q, n, e, f[loc], p, d)
<1>1. /\ n \in Nat \ {0} /\ f \in [0 .. n - 1 -> Slot] /\ q.no_entries \in Nat
      /\ q \in Tables /\ q.exited = FALSE
  BY DEF IsTable, Tables
<1>2. PICK x : x = f[loc] /\ x # NULL /\ x \in Entry /\ x.usage \in Nat
  BY <1>1, EntryIs
<1>3. /\ e \in [0 .. n - 1 -> Slot] /\ e[loc] = NULL
      /\ \A s \in 0 .. n - 1 : s # loc => e[s] = f[s]
  BY <1>1 DEF Slot
<1>4. PICK t : t = Emptied(q, loc)
  OBVIOUS
<1>5. /\ t = [size |-> n, node_entries |-> e, no_entries |-> q.no_entries, exited |-> FALSE]
      /\ t.size = n /\ t.node_entries = e /\ t.no_entries = q.no_entries /\ t.exited = FALSE
  <2>1. q = [size |-> n, node_entries |-> f, no_entries |-> q.no_entries, exited |-> FALSE]
    BY <1>1 DEF Tables
  <2>2. PICK c : q = [size |-> n, node_entries |-> f, no_entries |-> c, exited |-> FALSE]
                 /\ c = q.no_entries
    BY <2>1
  <2>3. t = [size |-> n, node_entries |-> e, no_entries |-> c, exited |-> FALSE]
    <3>1. t = [q EXCEPT !.node_entries = e]
      BY <1>4 DEF Emptied
    <3> QED BY ONLY <2>2, <3>1
  <2> QED BY <2>2, <2>3
<1>6. IsTable(t)
  <2>1. e \in UNION {[0 .. c - 1 -> Slot] : c \in Nat}
    BY <1>1, <1>3
  <2>2. t \in Tables
    BY <2>1, <1>1, <1>5 DEF Tables
  <2> QED BY <2>2, <1>3, <1>5 DEF IsTable
<1>7. HasFree(t)
  BY <1>3, <1>5 DEF HasFree
<1>8. Unique(e, n)
  BY <1>3 DEF Unique
<1>9. ASSUME NEW s \in 0 .. n - 1  PROVE e[s].rr_node # x.rr_node
  <2>1. CASE e[s] = NULL
    <3>1. NULL.rr_node = -1 /\ x.rr_node \in Nat
      BY <1>2, <1>1, EntryIs
    <3> QED BY <2>1, <3>1
  <2>2. CASE e[s] # NULL
    BY <2>2, <1>2, <1>3 DEF Unique
  <2> QED BY <2>1, <2>2
<1>10. PICK p \in 0 .. n - 1 :
         /\ e[p] = NULL /\ Leads(e, n, x.rr_node % n, p)
         /\ IsTable(d) /\ d.size = n /\ d.node_entries = Put(e, p, x)
         /\ d.no_entries = q.no_entries + x.usage
  <2>1. d = Reinsert(t, x)
    BY <1>2, <1>4
  <2>2. /\ IsTable(t) /\ HasFree(t) /\ x \in Entry /\ n = t.size /\ e = t.node_entries
        /\ Unique(e, n) /\ \A s \in 0 .. n - 1 : e[s].rr_node # x.rr_node
    BY <1>2, <1>5, <1>6, <1>7, <1>8, <1>9
  <2>3. \E p \in 0 .. n - 1 :
          /\ e[p] = NULL /\ Leads(e, n, x.rr_node % n, p)
          /\ IsTable(Reinsert(t, x)) /\ Reinsert(t, x).size = n
          /\ Reinsert(t, x).node_entries = Put(e, p, x)
          /\ Reinsert(t, x).no_entries = t.no_entries + x.usage
    BY ONLY <2>2, ReinsertIs
  <2> QED BY <2>1, <2>3, <1>5
<1>11. /\ Unique(Put(e, p, x), n)
       /\ UsedIn(Put(e, p, x), n) = UsedIn(e, n) \cup {p}
       /\ p \notin UsedIn(e, n)
  <2>1. /\ Unique(e, n) /\ e[p] = NULL /\ n \in Nat \ {0} /\ e \in [0 .. n - 1 -> Slot]
        /\ \A s \in 0 .. n - 1 : e[s].rr_node # x.rr_node
        /\ x \in Entry /\ p \in 0 .. n - 1
    BY <1>1, <1>2, <1>3, <1>8, <1>9, <1>10
  <2> QED BY ONLY <2>1, PutIs
<1>12. f = Put(e, loc, x)
  BY <1>1, <1>2, <1>3 DEF Put
<1>13. UsedIn(f, n) = UsedIn(e, n) \cup {loc} /\ loc \notin UsedIn(e, n)
  BY <1>2, <1>3 DEF UsedIn
<1>14. NumUsed(d) = NumUsed(q)
  <2>1. Cardinality(UsedIn(f, n)) = Cardinality(UsedIn(e, n)) + 1
    BY <1>13, <1>1, CountOneMore
  <2>2. Cardinality(UsedIn(Put(e, p, x), n)) = Cardinality(UsedIn(e, n)) + 1
    BY <1>11, <1>1, CountOneMore
  <2> QED BY <2>1, <2>2, <1>10 DEF NumUsed
<1>15. Contents(d) = Contents(t) \cup {x}
  <2>1. /\ n \in Nat \ {0} /\ t.size = n /\ d.size = n /\ e \in [0 .. n - 1 -> Slot]
        /\ e = t.node_entries /\ p \in 0 .. n - 1 /\ e[p] = NULL /\ x \in Entry
        /\ d.node_entries = Put(e, p, x)
    BY <1>1, <1>2, <1>3, <1>5, <1>10
  <2>2. EntriesIn(Put(e, p, x), n) = EntriesIn(e, n) \cup {x}
    <3>1. PICK g, z, y : /\ g = e /\ z = n /\ y = x
                         /\ z \in Nat /\ g \in [0 .. z - 1 -> Slot] /\ p \in 0 .. z - 1
                         /\ g[p] = NULL /\ y \in Entry
      BY <2>1
    <3>2. /\ z \in Nat /\ g \in [0 .. z - 1 -> Slot] /\ p \in 0 .. z - 1
          /\ g[p] = NULL /\ y \in Entry
      BY ONLY <3>1
    <3>3. EntriesIn(Put(g, p, y), z) = EntriesIn(g, z) \cup {y}
      BY ONLY <3>2, EntriesPut
    <3> QED BY ONLY <3>1, <3>3
  <2>3. Contents(d) = EntriesIn(Put(e, p, x), n) /\ Contents(t) = EntriesIn(e, n)
    BY ONLY <2>1 DEF Contents, EntriesIn
  <2> QED BY ONLY <2>2, <2>3
<1>16. Contents(q) = Contents(t) \cup {x}
  <2>1. /\ n \in Nat \ {0} /\ t.size = n /\ q.size = n /\ e \in [0 .. n - 1 -> Slot]
        /\ e = t.node_entries /\ loc \in 0 .. n - 1 /\ e[loc] = NULL /\ x \in Entry
        /\ q.node_entries = Put(e, loc, x)
    BY <1>1, <1>2, <1>3, <1>5, <1>12
  <2> QED BY ONLY <2>1, ContentsPut
<1>17. q.no_entries <= d.no_entries
  BY <1>1, <1>2, <1>10
<1>18. WasMoved(q, n, e, x, p, d)
  BY <1>10, <1>11, <1>14, <1>15, <1>16, <1>17 DEF WasMoved
<1> QED BY <1>2, <1>10, <1>18

LEMMA CloseOneIs ==
  ASSUME NEW m, NEW g, NEW last, HasGap(m, g, last),
         NEW i \in 0 .. m.size - 1, NEW r, GapState(m, g, i, r)
  PROVE  GapState(m, g, i + 1, CloseOne(m, g, last, i + 1, r))
<1>1. PICK n, q : n = m.size /\ q = r.map /\ n \in Nat \ {0} /\ g \in 0 .. n - 1
  BY DEF HasGap, IsTable, Tables
<1>2. i \in 0 .. n - 1 /\ i \in Nat
  BY <1>1
<1>3. CASE r.done
  <2>1. CloseOne(m, g, last, i + 1, r) = r
    BY <1>3 DEF CloseOne, GapState
  <2> QED BY <2>1, <1>3 DEF GapState
<1>4. CASE ~r.done
  <2>1. Closing(m, g, i, q) /\ r = [map |-> q, done |-> FALSE]
    BY <1>1, <1>4 DEF GapState
  <2>2. PICK loc : loc = (g + (i + 1)) % n
    OBVIOUS
  <2>3. /\ loc \in 0 .. n - 1 /\ Steps(n, g, loc) = i + 1 /\ i + 1 \in 0 .. n - 1
        /\ q.node_entries[loc] = m.node_entries[loc]
        /\ q.node_entries[loc] # NULL =>
             /\ i + 1 < q.no_entries + last
             /\ \E z \in 0 .. n - 1 : q.node_entries[z] = NULL /\ Steps(n, g, z) > i + 1
    BY <2>1, <2>2, <1>1, <1>2, NextSlot
  <2>4. PICK f : f = q.node_entries
    OBVIOUS
  <2>5. /\ IsTable(q) /\ q.size = n /\ f \in [0 .. n - 1 -> Slot] /\ Unique(f, n)
        /\ HolesBefore(f, n, g, i) /\ Shuffled(m, q) /\ q.no_entries \in Nat
    BY <2>1, <2>4, <1>1 DEF Closing, Shuffled, IsTable, Tables
  <2>6. CASE f[loc] = NULL
    <3>1. CloseOne(m, g, last, i + 1, r) = [map |-> q, done |-> TRUE]
      BY <2>1, <2>2, <2>4, <2>6, <1>1 DEF CloseOne
    <3>2. AllPlaced(f, n)
      BY <2>3, <2>5, <2>6, <1>1, <1>2, ClosedIs
    <3>3. PICK y : y = [map |-> q, done |-> TRUE]
      OBVIOUS
    <3>4. y.map = q /\ y.done = TRUE /\ y = [map |-> y.map, done |-> y.done]
      BY <3>3
    <3>5. AllPlaced(q.node_entries, q.size)
      BY <3>2, <2>4, <2>5
    <3>6. GapState(m, g, i + 1, y)
      BY <3>4, <3>5, <2>5 DEF GapState
    <3> QED BY <3>1, <3>3, <3>6
  <2>7. CASE f[loc] # NULL /\ f[loc].rr_node % n = loc
    <3>1. last \in {0, 1}
      BY DEF HasGap
    <3>2. ~(i + 1 >= q.no_entries + last)
      BY <3>1, <2>3, <2>4, <2>5, <2>7, <1>2
    <3>3. CloseOne(m, g, last, i + 1, r) = r
      BY <3>2, <2>1, <2>2, <2>4, <2>7, <1>1, <1>4 DEF CloseOne, Home
    <3>4. HolesBefore(f, n, g, i + 1)
      BY <2>3, <2>5, <2>7, <1>1, <1>2, HomeStays
    <3>5. ASSUME NEW s \in 0 .. n - 1
          PROVE  /\ Steps(n, g, s) > i + 1 => f[s] = m.node_entries[s]
                 /\ Steps(n, g, s) \in 1 .. i + 1 => m.node_entries[s] # NULL
      <4>1. Steps(n, g, s) \in 0 .. n - 1
        BY <1>1, StepsIs
      <4>2. Steps(n, g, s) = i + 1 => s = loc
        BY <2>3, <1>1, SameSteps
      <4>3. /\ Steps(n, g, s) > i => f[s] = m.node_entries[s]
            /\ Steps(n, g, s) \in 1 .. i => m.node_entries[s] # NULL
        BY <2>1, <2>4, <1>1 DEF Closing
      <4> QED BY <4>1, <4>2, <4>3, <2>3, <2>4, <2>7, <1>2
    <3>6. Closing(m, g, i + 1, q)
      BY <3>4, <3>5, <2>4, <2>5, <1>1 DEF Closing
    <3> QED BY <3>3, <3>6, <2>1, <1>4 DEF GapState
  <2>8. CASE f[loc] # NULL /\ f[loc].rr_node % n # loc
    <3>1. last \in {0, 1}
      BY DEF HasGap
    <3>2. ~(i + 1 >= q.no_entries + last)
      BY <3>1, <2>3, <2>4, <2>5, <2>8, <1>2
    <3>3. PICK d : d = Reinsert(Emptied(q, loc), f[loc])
      OBVIOUS
    <3>4. CloseOne(m, g, last, i + 1, r) = [map |-> d, done |-> FALSE]
      BY <3>2, <3>3, <2>1, <2>2, <2>4, <2>8, <1>1 DEF CloseOne, Home, Emptied
    <3>5. PICK e : e = [f EXCEPT ![loc] = NULL]
      OBVIOUS
    <3>6. PICK p \in 0 .. n - 1 : WasMoved(q, n, e, f[loc], p, d)
      <4>1. /\ IsTable(q) /\ n = q.size /\ f = q.node_entries /\ Unique(f, n)
            /\ loc \in 0 .. n - 1 /\ f[loc] # NULL /\ e = [f EXCEPT ![loc] = NULL]
            /\ d = Reinsert(Emptied(q, loc), f[loc])
        BY <3>3, <3>5, <2>3, <2>4, <2>5, <2>8
      <4> QED BY ONLY <4>1, ReplaceIs
    <3>7. PICK z \in 0 .. n - 1 : f[z] = NULL /\ Steps(n, g, z) > i + 1
      BY <2>3, <2>4, <2>8
    <3>8. f[loc] \in Entry
      BY <2>3, <2>5, <2>8, EntryIs
    <3>9. HolesBefore(d.node_entries, n, g, i + 1) /\ Steps(n, g, p) <= i + 1
      <4>1. PICK x : x = f[loc]
        OBVIOUS
      <4>2. HolesBefore(Put(e, p, x), n, g, i + 1) /\ Steps(n, g, p) <= i + 1
        BY <4>1, <3>5, <3>6, <3>7, <3>8, <2>3, <2>5, <1>1, <1>2, MovedUp, ZenonT(60) DEF WasMoved
      <4> QED BY <4>1, <4>2, <3>6 DEF WasMoved
    <3>10. Shuffled(m, d)
      <4>1. d.no_entries \in Nat /\ m.no_entries \in Nat
        BY <3>6 DEF WasMoved, IsTable, Tables, HasGap
      <4>2. m.no_entries <= d.no_entries
        BY <4>1, <3>6, <2>5 DEF WasMoved, Shuffled
      <4> QED BY <4>2, <3>6, <2>5, <1>1 DEF WasMoved, Shuffled
    <3>11. ASSUME NEW s \in 0 .. n - 1
           PROVE  /\ Steps(n, g, s) > i + 1 => d.node_entries[s] = m.node_entries[s]
                  /\ Steps(n, g, s) \in 1 .. i + 1 => m.node_entries[s] # NULL
      <4>1. Steps(n, g, s) \in 0 .. n - 1
        BY <1>1, StepsIs
      <4>2. Steps(n, g, s) = i + 1 => s = loc
        BY <2>3, <1>1, SameSteps
      <4>3. /\ Steps(n, g, s) > i => f[s] = m.node_entries[s]
            /\ Steps(n, g, s) \in 1 .. i => m.node_entries[s] # NULL
        BY <2>1, <2>4, <1>1 DEF Closing
      <4>4. s # loc /\ s # p => d.node_entries[s] = f[s]
        BY <3>5, <3>6, <2>5 DEF WasMoved, Put
      <4>5. Steps(n, g, s) > i + 1 => s # loc /\ s # p
        BY <3>9, <2>3, <4>1, <1>2
      <4> QED BY <4>1, <4>2, <4>3, <4>4, <4>5, <2>3, <2>4, <2>8, <1>2
    <3>12. Closing(m, g, i + 1, d)
      BY <3>6, <3>9, <3>10, <3>11, <1>1 DEF WasMoved, Closing
    <3>13. PICK y : y = [map |-> d, done |-> FALSE]
      OBVIOUS
    <3>14. y.map = d /\ y.done = FALSE /\ y = [map |-> y.map, done |-> y.done]
      BY <3>13
    <3>15. GapState(m, g, i + 1, y)
      BY <3>12, <3>14 DEF GapState
    <3> QED BY <3>4, <3>13, <3>15
  <2> QED BY <2>6, <2>7, <2>8
<1> QED BY <1>3, <1>4

\* The loop has closed the gap when it ends.
LEMMA GapClosedIs ==
  ASSUME NEW m, NEW g, NEW last, HasGap(m, g, last), Unique(m.node_entries, m.size),
         HolesBefore(m.node_entries, m.size, g, 0)
  PROVE  /\ Shuffled(m, GapClosed(m, g, last))
         /\ AllPlaced(GapClosed(m, g, last).node_entries, m.size)
<1>1. PICK n : n = m.size /\ n \in Nat \ {0} /\ IsTable(m) /\ g \in 0 .. n - 1
               /\ m.no_entries \in Nat
  BY DEF HasGap, IsTable, Tables
<1> DEFINE x0 == [map |-> m, done |-> FALSE]
           Runs(c, h) ==
             h = [i \in 0 .. c |-> IF i = 0 THEN x0 ELSE CloseOne(m, g, last, i, h[i - 1])]
<1>2. \E h : Runs(n, h)
  <2> DEFINE A == {c \in Nat : \E h : Runs(c, h)}
  <2> HIDE DEF x0
  <2>1. 0 \in A
    <3>1. Runs(0, [i \in 0 .. 0 |-> x0])
      OBVIOUS
    <3> QED BY <3>1
  <2>2. ASSUME NEW c \in Nat, c \in A  PROVE c + 1 \in A
    <3>1. PICK h : Runs(c, h)
      BY <2>2
    <3> DEFINE d == [i \in 0 .. c + 1 |->
                      IF i <= c THEN h[i] ELSE CloseOne(m, g, last, i, h[c])]
    <3>2. ASSUME NEW i \in 0 .. c + 1
          PROVE  d[i] = IF i = 0 THEN x0 ELSE CloseOne(m, g, last, i, d[i - 1])
      <4>1. CASE i = 0
        BY <4>1, <3>1
      <4>2. CASE i \in 1 .. c
        <5>1. d[i] = h[i] /\ i - 1 \in 0 .. c /\ d[i - 1] = h[i - 1] /\ i # 0 /\ i \in 0 .. c
          BY <4>2
        <5> HIDE DEF d
        <5>2. h[i] = CloseOne(m, g, last, i, h[i - 1])
          BY <3>1, <5>1
        <5> QED BY <5>1, <5>2
      <4>3. CASE i = c + 1
        <5>1. d[i] = CloseOne(m, g, last, i, h[c]) /\ i - 1 = c /\ d[c] = h[c] /\ i # 0
          BY <4>3
        <5> HIDE DEF d
        <5> QED BY <5>1
      <4> QED BY <4>1, <4>2, <4>3
    <3>3. d = [i \in 0 .. c + 1 |-> d[i]]
      OBVIOUS
    <3> HIDE DEF d
    <3>4. Runs(c + 1, d)
      BY <3>2, <3>3
    <3> QED BY <3>4
  <2> HIDE DEF A
  <2>3. Nat \subseteq A
    BY <2>1, <2>2, NatInduct
  <2> QED BY <2>3, <1>1 DEF A
<1>3. PICK h : Runs(n, h) /\ GapClosed(m, g, last) = h[n].map
  BY <1>1, <1>2 DEF GapClosed, CloseOne
<1>4. GapState(m, g, 0, x0)
  <2>1. PICK y : y = x0
    OBVIOUS
  <2>2. y.map = m /\ y.done = FALSE /\ y = [map |-> y.map, done |-> y.done]
    BY <2>1
  <2>3. Shuffled(m, m)
    BY <1>1 DEF Shuffled
  <2>4. \A s \in 0 .. n - 1 : ~(Steps(n, g, s) \in 1 .. 0)
    OBVIOUS
  <2>5. Closing(m, g, 0, m)
    BY <2>3, <2>4, <1>1 DEF Closing
  <2>6. GapState(m, g, 0, y)
    BY <2>2, <2>5 DEF GapState
  <2> QED BY <2>1, <2>6
<1> HIDE DEF x0
<1> DEFINE A == {i \in 0 .. n : GapState(m, g, i, h[i])}
<1>5. 0 \in A
  BY <1>1, <1>3, <1>4
<1>6. ASSUME NEW i \in 0 .. n - 1, i \in A  PROVE i + 1 \in A
  <2>1. i + 1 \in 0 .. n /\ i + 1 # 0 /\ (i + 1) - 1 = i
    BY <1>1
  <2>2. h[i + 1] = CloseOne(m, g, last, i + 1, h[i])
    BY <2>1, <1>3
  <2>3. GapState(m, g, i + 1, h[i + 1])
    BY <2>2, <1>1, <1>6, CloseOneIs
  <2> QED BY <2>1, <2>3
<1> HIDE DEF A
<1>7. 0 .. n \subseteq A
  <2>1. 0 \in Int /\ n \in Int
    BY <1>1
  <2> QED BY <2>1, <1>5, <1>6, IntervalInduct
<1>8. PICK r : r = h[n] /\ GapState(m, g, n, r)
  BY <1>1, <1>7 DEF A
<1>9. r.done
  <2>1. SUFFICES ASSUME ~r.done PROVE FALSE
    OBVIOUS
  <2>2. Closing(m, g, n, r.map)
    BY <2>1, <1>8 DEF GapState
  <2>3. PICK z \in 0 .. n - 1 : z # g /\ m.node_entries[z] = NULL
    BY <1>1 DEF HasGap
  <2>4. Steps(n, g, z) \in 1 .. n
    BY <2>3, <1>1 DEF Steps
  <2> QED BY <2>2, <2>3, <2>4, <1>1 DEF Closing
<1>10. PICK q : q = GapClosed(m, g, last) /\ q = r.map
  BY <1>3, <1>8
<1>11. Shuffled(m, q) /\ AllPlaced(q.node_entries, q.size)
  BY <1>8, <1>9, <1>10 DEF GapState
<1> QED BY <1>10, <1>11 DEF Shuffled

-----------------------------------------------------------------------------
(* Removing *)

LEMMA RemovedIs ==
  ASSUME NEW m, Good(m), NEW k \in Key, Get(m, k) # NULL
  PROVE  /\ Good(Removed(m, k))
         /\ Get(Removed(m, k), k).usage = Get(m, k).usage - 1
         /\ \A j \in Key : j # k => Get(Removed(m, k), j) = Get(m, j)
<1>1. k \in Nat /\ Key \subseteq Nat
  BY KeyAssumption
<1>2. IsTable(m) /\ HasFree(m)
  BY GoodHasFree DEF Good
<1>3. PICK n, f, p : /\ n = m.size /\ f = m.node_entries /\ p = Place(m, k)
                     /\ n \in Nat \ {0} /\ f \in [0 .. n - 1 -> Slot]
                     /\ m.no_entries \in Nat
  BY <1>2 DEF IsTable, Tables
<1>4. p \in 0 .. n - 1 /\ Get(m, k) = f[p] /\ f[p].rr_node = k /\ f[p] # NULL
  BY <1>1, <1>3, FoundAt
<1>5. PICK u \in Nat \ {0} : f[p] = [rr_node |-> k, usage |-> u]
  <2>1. f[p] \in Entry
    BY <1>3, <1>4, EntryIs
  <2> QED BY <2>1, <1>4 DEF Entry
<1>6. f[p].usage = u
  BY <1>5
<1>7. m = [size |-> n, node_entries |-> f, no_entries |-> m.no_entries, exited |-> FALSE]
  BY <1>2, <1>3 DEF IsTable, Tables
<1>8. PICK c : m = [size |-> n, node_entries |-> f, no_entries |-> c, exited |-> FALSE]
               /\ c = m.no_entries
  BY <1>7
<1>9. PICK r : r = Removed(m, k)
  OBVIOUS
<1>10. CASE u > 1
  <2>1. PICK y : y = [rr_node |-> k, usage |-> u - 1]
    OBVIOUS
  <2>2. y \in Entry /\ y.rr_node = k /\ y.usage = u - 1
    BY <2>1, <1>10 DEF Entry
  <2>3. r = [m EXCEPT !.node_entries[p].usage = @ - 1]
    BY <1>3, <1>4, <1>6, <1>9, <1>10 DEF Removed
  <2>4. [f[p] EXCEPT !.usage = @ - 1] = y
    BY <2>1, <1>5
  <2>5. r = [size |-> n, node_entries |-> [f EXCEPT ![p].usage = @ - 1],
             no_entries |-> c, exited |-> FALSE]
    BY <2>3, <1>8
  <2>6. [f EXCEPT ![p].usage = @ - 1] = [f EXCEPT ![p] = y]
    BY <2>4
  <2>7. r = [size |-> n, node_entries |-> Put(f, p, y),
             no_entries |-> m.no_entries, exited |-> FALSE]
    BY <2>5, <2>6, <1>8 DEF Put
  <2>8. /\ Good(r) /\ Get(r, k) = y
        /\ \A j \in Nat : j # k => Get(r, j) = Get(m, j)
    BY <2>2, <2>7, <1>3, <1>4, ReplacedIs, SMTT(30)
  <2> QED BY <2>2, <2>8, <1>1, <1>4, <1>6, <1>9
<1>11. CASE ~(u > 1)
  <2>1. u = 1
    BY <1>11
  <2>2. PICK e, x : e = [f EXCEPT ![p] = NULL] /\ x = f[p]
    OBVIOUS
  <2>3. /\ e \in [0 .. n - 1 -> Slot] /\ e[p] = NULL /\ x # NULL /\ x \in Entry
        /\ x.rr_node = k
        /\ \A s \in 0 .. n - 1 : s # p => e[s] = f[s]
    BY <2>2, <1>3, <1>4, EntryIs DEF Slot
  <2>4. PICK d : d = [m EXCEPT !.node_entries[p] = NULL, !.no_entries = @ - 1]
    OBVIOUS
  <2>5. PICK last : last = LastBehind(m, k)
    OBVIOUS
  <2>6. r = GapClosed(d, p, last)
    BY <2>4, <2>5, <1>3, <1>4, <1>6, <1>9, <1>11 DEF Removed
  <2>7. d = [size |-> n, node_entries |-> e, no_entries |-> c - 1, exited |-> FALSE]
    <3>1. d = [m EXCEPT !.node_entries = e, !.no_entries = c - 1]
      BY <2>2, <2>4, <1>3, <1>8
    <3> QED BY ONLY <3>1, <1>8
  <2>8. d.size = n /\ d.node_entries = e /\ d.no_entries = c - 1 /\ d.exited = FALSE
    BY <2>7
  <2>9. UsedIn(f, n) = UsedIn(e, n) \cup {p} /\ p \notin UsedIn(e, n)
    BY <2>3, <1>4 DEF UsedIn
  <2>10. /\ Cardinality(UsedIn(f, n)) = Cardinality(UsedIn(e, n)) + 1
         /\ Cardinality(UsedIn(e, n)) \in Nat
    BY <2>9, <1>3, CountOneMore, UsedIsFinite
  <2>11. NumUsed(m) = NumUsed(d) + 1 /\ NumUsed(d) \in Nat
    BY <2>8, <2>10, <1>3 DEF NumUsed
  <2>12. /\ Unique(f, n) /\ AllPlaced(f, n)
         /\ NumUsed(m) <= c /\ 100 * NumUsed(m) < 35 * n /\ c \in Nat
    BY <1>3, <1>8 DEF Good
  <2>13. IsTable(d)
    <3>1. e \in UNION {[0 .. b - 1 -> Slot] : b \in Nat}
      BY <1>3, <2>3
    <3>2. c - 1 \in Nat
      BY <2>11, <2>12
    <3>3. d \in Tables
      BY <3>1, <3>2, <2>7, <1>3 DEF Tables
    <3> QED BY <3>3, <2>3, <2>8 DEF IsTable
  <2>14. PICK z \in 0 .. n - 1 : f[z] = NULL /\ z # p /\ e[z] = NULL
    <3>1. PICK z \in 0 .. n - 1 : f[z] = NULL
      BY <1>2, <1>3 DEF HasFree
    <3> QED BY <3>1, <1>4, <2>3
  <2>15. last = 1 \/ /\ last = 0
                     /\ \E s \in 0 .. n - 1 : e[s] # NULL /\ Steps(n, p, s) = n - 1
    <3>1. CASE p = k % n
      BY <3>1, <2>5, <1>3 DEF LastBehind, Home
    <3>2. CASE p # k % n
      <4>1. last = 0
        BY <3>2, <2>5, <1>3 DEF LastBehind, Home
      <4>2. PICK h \in 0 .. n - 1 : h = k % n
        BY <1>1, <1>3, HomeIsSlot
      <4>3. PICK s \in 0 .. n - 1 : Steps(n, p, s) = n - 1
        BY ONLY <1>3, <1>4, SomeLast
      <4>4. Steps(n, h, s) < Steps(n, h, p) /\ s # p
        <5>1. h # p
          BY <4>2, <3>2
        <5>2. n # 1
          BY ONLY <5>1, <4>2, <1>3, <1>4
        <5> QED BY ONLY <5>1, <5>2, <4>2, <4>3, <1>3, <1>4, LastSlot
      <4>5. f[s] # NULL
        <5>1. Leads(f, n, h, p)
          BY <4>2, <2>12, <1>4 DEF AllPlaced
        <5> QED BY <5>1, <4>4 DEF Leads
      <4> QED BY <4>1, <4>3, <4>4, <4>5, <2>3
    <3> QED BY <3>1, <3>2
  <2>16. HasGap(d, p, last)
    <3>1. NumUsed(d) <= d.no_entries
      BY <2>8, <2>11, <2>12
    <3> QED BY <3>1, <2>3, <2>8, <2>13, <2>14, <2>15, <1>4 DEF HasGap
  <2>17. Unique(e, n)
    BY <2>3, <2>12 DEF Unique
  <2>18. HolesBefore(e, n, p, 0)
    <3> SUFFICES ASSUME NEW s \in 0 .. n - 1, e[s] # NULL, NEW t \in 0 .. n - 1, e[t] = NULL,
                        Steps(n, e[s].rr_node % n, t) < Steps(n, e[s].rr_node % n, s)
                 PROVE  Steps(n, p, s) > 0 /\ Steps(n, p, t) <= 0
      BY DEF HolesBefore
    <3>1. s # p /\ e[s] = f[s]
      BY <2>3
    <3>2. Leads(f, n, e[s].rr_node % n, s)
      BY <3>1, <2>12 DEF AllPlaced
    <3>3. f[t] # NULL
      BY <3>2 DEF Leads
    <3>4. t = p
      BY <3>3, <2>3
    <3> QED BY <3>1, <3>4, <1>3, <1>4 DEF Steps
  <2>19. Shuffled(d, r) /\ AllPlaced(r.node_entries, n)
    BY <2>6, <2>8, <2>16, <2>17, <2>18, GapClosedIs
  <2>20. Good(r)
    <3>1. /\ IsTable(r) /\ r.size = n /\ Unique(r.node_entries, r.size)
          /\ NumUsed(r) = NumUsed(d) /\ d.no_entries <= r.no_entries /\ r.no_entries \in Nat
      BY <2>8, <2>19 DEF Shuffled, IsTable, Tables
    <3>2. NumUsed(r) <= r.no_entries /\ 100 * NumUsed(r) < 35 * r.size
      BY <3>1, <2>8, <2>11, <2>12, <1>3, SMTT(30)
    <3> QED BY <3>1, <3>2, <2>19 DEF Good
  <2>21. Contents(m) = Contents(r) \cup {x}
    <3>1. f = Put(e, p, x)
      BY <2>2, <2>3, <1>3 DEF Put
    <3>2. /\ n \in Nat \ {0} /\ d.size = n /\ m.size = n /\ e \in [0 .. n - 1 -> Slot]
          /\ e = d.node_entries /\ p \in 0 .. n - 1 /\ e[p] = NULL /\ x \in Entry
          /\ m.node_entries = Put(e, p, x)
      BY <3>1, <2>3, <2>8, <1>3, <1>4
    <3>3. Contents(m) = Contents(d) \cup {x}
      BY ONLY <3>2, ContentsPut
    <3> QED BY <3>3, <2>19 DEF Shuffled
  <2>22. \A y \in Contents(r) : y.rr_node # k
    <3>1. Contents(r) = {e[s] : s \in UsedIn(e, n)}
      BY <2>8, <2>19 DEF Shuffled, Contents
    <3> SUFFICES ASSUME NEW s \in UsedIn(e, n)  PROVE e[s].rr_node # k
      BY <3>1
    <3>2. s \in 0 .. n - 1 /\ s # p /\ e[s] = f[s] /\ f[s] # NULL
      BY <2>3 DEF UsedIn
    <3> QED BY <3>2, <2>12, <1>4 DEF Unique
  <2>23. Get(r, k) = NULL
    BY <2>20, <2>22, <1>1, GetIs
  <2>24. ASSUME NEW j \in Key, j # k  PROVE Get(r, j) = Get(m, j)
    <3>1. \A y : y.rr_node = j => (y \in Contents(m) <=> y \in Contents(r))
      BY <2>3, <2>21, <2>24
    <3> QED BY <3>1, <2>20, <1>1, GetsAlike
  <2>25. Get(r, k).usage = 0
    BY <2>23 DEF NULL
  <2> QED BY <2>1, <2>20, <2>24, <2>25, <1>4, <1>6, <1>9
<1> QED BY <1>10, <1>11

-----------------------------------------------------------------------------
(* The invariant *)

LEMMA GrownZero ==
  ASSUME NEW m
  PROVE  Grown(m, 0) = m
<1> DEFINE Runs(h) == h = [i \in 0 .. 0 |-> IF i = 0 THEN m ELSE Doubled(h[i - 1])]
<1>1. \E h : Runs(h)
  <2>1. Runs([i \in 0 .. 0 |-> m])
    OBVIOUS
  <2> QED BY <2>1
<1>2. PICK h : Runs(h) /\ Grown(m, 0) = h[0]
  BY <1>1 DEF Grown
<1> QED BY <1>2

NewTable == [size |-> InitSize, node_entries |-> EmptyTable(InitSize),
             no_entries |-> 0, exited |-> FALSE]

\* The table that init_graph_to_source starts from.
LEMMA NewTableIs ==
  /\ Good(NewTable) /\ HasRoom(NewTable)
  /\ \A k \in Key : Get(NewTable, k) = NULL
<1>1. InitSize \in Nat \ {0} /\ 100 < 35 * InitSize /\ Key \subseteq Nat
  BY KeyAssumption
<1>2. PICK n \in Nat \ {0} : n = InitSize /\ 100 < 35 * n
  BY <1>1
<1>3. PICK e : e = EmptyTable(n)
  OBVIOUS
<1>4. NewTable = [size |-> n, node_entries |-> e, no_entries |-> 0, exited |-> FALSE]
  BY <1>2, <1>3 DEF NewTable
<1>5. e \in [0 .. n - 1 -> Slot] /\ \A s \in 0 .. n - 1 : e[s] = NULL
  BY <1>3 DEF EmptyTable, Slot
<1>6. UsedIn(e, n) = {}
  BY <1>5 DEF UsedIn
<1>7. NumUsed(NewTable) = 0 /\ Contents(NewTable) = {}
  BY <1>4, <1>6, FS_EmptySet DEF NumUsed, Contents
<1>8. IsTable(NewTable)
  <2>1. e \in UNION {[0 .. b - 1 -> Slot] : b \in Nat}
    BY <1>5
  <2> QED BY <2>1, <1>4, <1>5 DEF IsTable, Tables
<1>9. Unique(e, n) /\ AllPlaced(e, n)
  BY <1>5 DEF Unique, AllPlaced
<1>10. Good(NewTable)
  BY <1>2, <1>4, <1>7, <1>8, <1>9 DEF Good
<1>11. HasRoom(NewTable)
  BY <1>2, <1>4 DEF HasRoom
<1>12. \A k \in Key : Get(NewTable, k) = NULL
  BY <1>1, <1>7, <1>10, GetIs
<1> QED BY <1>10, <1>11, <1>12

\* How often the table says that the net uses k: the trace of the net holds
\* the SOURCE once more than its connections do.
Uses(k) == held[k] + (IF k = Root THEN 1 ELSE 0)

MapIInv ==
  /\ Good(map)
  /\ held \in [Key -> Nat]
  /\ \A k \in Key : Get(map, k).usage = Uses(k)

LEMMA NullHasNoUsage == NULL.usage = 0
  BY DEF NULL

LEMMA MapInitHolds == MapInit => MapIInv /\ (\A k \in Key : Uses(k) = IF k = Root THEN 1 ELSE 0)
<1> SUFFICES ASSUME MapInit
             PROVE  MapIInv /\ (\A k \in Key : Uses(k) = IF k = Root THEN 1 ELSE 0)
  OBVIOUS
<1>1. Root \in Key /\ 0 \in 0 .. MaxGrowth
  BY KeyAssumption
<1>2. map = Added(NewTable, Root) /\ held = [k \in Key |-> 0]
  BY DEF MapInit, NewTable
<1>3. HasRoom(Grown(NewTable, 0))
  BY NewTableIs, GrownZero
<1>4. /\ Good(map) /\ Get(map, Root).usage = Get(NewTable, Root).usage + 1
      /\ \A j \in Key : j # Root => Get(map, j) = Get(NewTable, j)
  BY <1>1, <1>2, <1>3, NewTableIs, AddedIs
<1>5. \A k \in Key : Get(map, k).usage = IF k = Root THEN 1 ELSE 0
  BY <1>1, <1>4, NewTableIs, NullHasNoUsage
<1>6. \A k \in Key : Uses(k) = IF k = Root THEN 1 ELSE 0
  BY <1>2 DEF Uses
<1> QED BY <1>2, <1>4, <1>5, <1>6 DEF MapIInv

\* Another connection uses k.
LEMMA MapAddStep ==
  ASSUME MapIInv, NEW k \in Key, Add(k)
  PROVE  /\ MapIInv'
         /\ \A j \in Key : Uses(j)' = Uses(j) + (IF j = k THEN 1 ELSE 0)
         /\ answer' = Uses(k) + 1
<1>1. /\ Good(map) /\ held \in [Key -> Nat]
      /\ \A j \in Key : Get(map, j).usage = Uses(j)
  BY DEF MapIInv
<1>2. /\ map' = Added(map, k) /\ held' = [held EXCEPT ![k] = @ + 1]
      /\ answer' = Get(map', k).usage
      /\ Get(map, k) = NULL => \E d \in 0 .. MaxGrowth : HasRoom(Grown(map, d))
  BY DEF Add
<1>3. /\ Good(map') /\ Get(map', k).usage = Get(map, k).usage + 1
      /\ \A j \in Key : j # k => Get(map', j) = Get(map, j)
  BY <1>1, <1>2, AddedIs
<1>4. held' \in [Key -> Nat]
  BY <1>1, <1>2
<1>5. \A j \in Key : Uses(j)' = Uses(j) + (IF j = k THEN 1 ELSE 0)
  BY <1>1, <1>2 DEF Uses
<1>6. \A j \in Key : Get(map', j).usage = Uses(j)'
  <2> TAKE j \in Key
  <2>1. Uses(j) \in Nat
    BY <1>1 DEF Uses
  <2>2. CASE j = k
    BY <2>2, <1>1, <1>3, <1>5
  <2>3. CASE j # k
    BY <2>1, <2>3, <1>1, <1>3, <1>5
  <2> QED BY <2>2, <2>3
<1>7. MapIInv'
  BY <1>3, <1>4, <1>6 DEF MapIInv
<1> QED BY <1>1, <1>2, <1>3, <1>5, <1>7

\* One connection less does.
LEMMA MapRemoveStep ==
  ASSUME MapIInv, NEW k \in Key, Remove(k)
  PROVE  /\ MapIInv'
         /\ Uses(k) > 0
         /\ \A j \in Key : Uses(j)' = Uses(j) - (IF j = k THEN 1 ELSE 0)
         /\ answer' = Uses(k) - 1
<1>1. /\ Good(map) /\ held \in [Key -> Nat]
      /\ \A j \in Key : Get(map, j).usage = Uses(j)
  BY DEF MapIInv
<1>2. /\ map' = Removed(map, k) /\ held' = [held EXCEPT ![k] = @ - 1]
      /\ answer' = Get(map', k).usage /\ held[k] > 0
  BY DEF Remove
<1>3. Uses(k) > 0
  BY <1>1, <1>2 DEF Uses
<1>4. Get(map, k) # NULL
  BY <1>1, <1>3, NullHasNoUsage
<1>5. /\ Good(map') /\ Get(map', k).usage = Get(map, k).usage - 1
      /\ \A j \in Key : j # k => Get(map', j) = Get(map, j)
  BY <1>1, <1>2, <1>4, RemovedIs
<1>6. held' \in [Key -> Nat]
  BY <1>1, <1>2
<1>7. \A j \in Key : Uses(j)' = Uses(j) - (IF j = k THEN 1 ELSE 0)
  BY <1>1, <1>2 DEF Uses
<1>8. \A j \in Key : Get(map', j).usage = Uses(j)'
  <2> TAKE j \in Key
  <2>1. Uses(j) \in Nat
    BY <1>1 DEF Uses
  <2>2. CASE j = k
    BY <2>2, <1>1, <1>5, <1>7
  <2>3. CASE j # k
    BY <2>1, <2>3, <1>1, <1>5, <1>7
  <2> QED BY <2>2, <2>3
<1>9. MapIInv'
  BY <1>5, <1>6, <1>8 DEF MapIInv
<1> QED BY <1>1, <1>2, <1>3, <1>5, <1>7, <1>9

LEMMA MapNextKeeps == MapIInv /\ [MapNext]_mapVars => MapIInv'
<1> SUFFICES ASSUME MapIInv, [MapNext]_mapVars PROVE MapIInv'
  OBVIOUS
<1>1. CASE UNCHANGED mapVars
  BY <1>1 DEF mapVars, MapIInv, Uses
<1> QED BY <1>1, MapAddStep, MapRemoveStep DEF MapNext

LEMMA AlwaysMapIInv == MapSpec => []MapIInv
  BY MapInitHolds, MapNextKeeps, PTL DEF MapSpec

-----------------------------------------------------------------------------
(* Theorems *)

\* None of the messages of the map can appear, and no entry is missed that is there:
\* whatever rr_nodes collide, for any number of them and any size of the table.
THEOREM MapNeverExits == MapSpec => []NeverExits
<1>1. MapIInv => NeverExits
  BY DEF MapIInv, Good, IsTable, NeverExits
<1> QED BY <1>1, AlwaysMapIInv, PTL

\* The loops that scan the slots for no_entries entries reach all of them.
THEOREM ScanIsComplete == MapSpec => []ScanReachesAll
<1>1. MapIInv => ScanReachesAll
  <2> SUFFICES ASSUME MapIInv, NEW i \in Used(map)
               PROVE  Cardinality({j \in Used(map) : j < i}) < map.no_entries
    BY DEF ScanReachesAll, Scanned
  <2>1. PICK n, f, c : /\ n = map.size /\ f = map.node_entries /\ c = map.no_entries
                       /\ n \in Nat \ {0} /\ f \in [0 .. n - 1 -> Slot] /\ c \in Nat
                       /\ Cardinality(UsedIn(f, n)) <= c
    BY DEF MapIInv, Good, IsTable, Tables, NumUsed
  <2>2. Used(map) = UsedIn(f, n)
    BY <2>1 DEF Used, UsedIn
  <2>3. PICK U : U = UsedIn(f, n) /\ IsFiniteSet(U) /\ Cardinality(U) \in Nat
    BY <2>1, UsedIsFinite
  <2>4. PICK V : V = {j \in U : j < i}
    OBVIOUS
  <2>5. i \in U /\ i \in Int
    BY <2>2, <2>3 DEF UsedIn
  <2>6. V \subseteq U /\ V # U
    BY <2>4, <2>5
  <2>7. Cardinality(V) < Cardinality(U) /\ Cardinality(V) \in Nat
    <3>1. IsFiniteSet(V) /\ Cardinality(V) <= Cardinality(U)
          /\ (Cardinality(V) = Cardinality(U) => V = U)
      BY <2>3, <2>6, FS_Subset
    <3> QED BY <3>1, <2>3, <2>6, FS_CardinalityType
  <2> QED BY <2>1, <2>2, <2>3, <2>4, <2>7
<1> QED BY <1>1, AlwaysMapIInv, PTL

\* The map is a bag of rr_nodes: every operation answers with the usage that is left.
THEOREM MapIsBag == MapSpec => ImplementsBag
<1> DEFINE Counted == [k \in Key |-> Get(map, k).usage]
<1>1. MapIInv => Counted = [k \in Key |-> Uses(k)]
  BY DEF MapIInv
<1>2. MapInit => Bag!Init
  <2> SUFFICES ASSUME MapInit PROVE Bag!Init
    OBVIOUS
  <2>1. Counted = [k \in Key |-> IF k = Root THEN 1 ELSE 0]
    BY MapInitHolds, <1>1
  <2> QED BY <2>1 DEF MapInit, Bag!Init
<1>3. MapIInv /\ [MapNext]_mapVars => [Bag!Next]_(Bag!vars)
  <2> SUFFICES ASSUME MapIInv, [MapNext]_mapVars PROVE Bag!Next \/ UNCHANGED Bag!vars
    OBVIOUS
  <2>1. ASSUME NEW k \in Key, Add(k) PROVE Bag!Add(k)
    <3>1. /\ Counted = [j \in Key |-> Uses(j)]
          /\ Counted' = [j \in Key |-> Uses(j)']
      BY <2>1, MapAddStep DEF MapIInv
    <3>2. Counted' = [Counted EXCEPT ![k] = @ + 1]
      <4>1. \A j \in Key : Uses(j) \in Nat
        BY DEF MapIInv, Uses
      <4>2. \A j \in Key : Uses(j)' = IF j = k THEN Uses(k) + 1 ELSE Uses(j)
        BY <4>1, <2>1, MapAddStep
      <4> HIDE DEF Counted
      <4>3. \A j \in Key : Uses(j)' = IF j = k THEN Counted[k] + 1 ELSE Counted[j]
        BY <3>1, <4>2
      <4> QED BY <3>1, <4>3
    <3> QED BY <3>1, <3>2, <2>1, MapAddStep DEF Bag!Add
  <2>2. ASSUME NEW k \in Key, Remove(k) PROVE Bag!Remove(k)
    <3>1. /\ Counted = [j \in Key |-> Uses(j)]
          /\ Counted' = [j \in Key |-> Uses(j)']
      BY <2>2, MapRemoveStep DEF MapIInv
    <3>2. Counted' = [Counted EXCEPT ![k] = @ - 1]
      <4>1. \A j \in Key : Uses(j) \in Nat
        BY DEF MapIInv, Uses
      <4>2. \A j \in Key : Uses(j)' = IF j = k THEN Uses(k) - 1 ELSE Uses(j)
        BY <4>1, <2>2, MapRemoveStep
      <4> HIDE DEF Counted
      <4>3. \A j \in Key : Uses(j)' = IF j = k THEN Counted[k] - 1 ELSE Counted[j]
        BY <3>1, <4>2
      <4> QED BY <3>1, <4>3
    <3> QED BY <3>1, <3>2, <2>2, MapRemoveStep DEF Bag!Remove
  <2>3. CASE UNCHANGED mapVars
    BY <2>3 DEF mapVars, Bag!vars
  <2> QED BY <2>1, <2>2, <2>3 DEF MapNext, Bag!Next
<1> QED BY <1>2, <1>3, AlwaysMapIInv, PTL DEF MapSpec, ImplementsBag, Bag!Spec
=============================================================================
