SPECIFICATION Spec
CONSTANTS
  A = A
  B = B
  sA = sA
  sB = sB
  oA1 = oA1
  oA2 = oA2
  oB = oB
  w1 = w1
  w2 = w2
  w3 = w3
  tA1 = tA1
  tA2 = tA2
  tB = tB
  Node <- MCNode
  Capacity <- MCCapacity
  BaseCost <- MCBaseCost
  WireLength <- MCWireLength
  Net <- MCNet
  Source <- MCSource
  NumCons = 3
  NetOf <- MCNetOf
  Routes <- MCRoutes
  NumClasses = 1
  ClassOpins <- MCClassOpins
  NumLocal <- MCNumLocal
  FirstIterPresFac = 0
  InitialPresFac = 1
  PresFacMult = 2
  MaxPresFac = 3
  AccFac = 1
  MaxIter = 3
  PredictAfter = 2
  CongestionDriven = FALSE
  CostScale <- MCCostScale
INVARIANTS
  TypeOK
  MapExact
  OccupancyExact
  PricesExact
  VictimExists
PROPERTIES
  HistoryChargesOveruse
  Terminates
  KeepsPromise
