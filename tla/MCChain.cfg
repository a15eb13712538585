SPECIFICATION Spec
CONSTANTS
  A = A
  B = B
  C = C
  sA = sA
  sB = sB
  sC = sC
  oA1 = oA1
  oA2 = oA2
  oB = oB
  oC = oC
  w1 = w1
  w2 = w2
  w3 = w3
  w4 = w4
  tA1 = tA1
  tA2 = tA2
  tB = tB
  tC = tC
  Node <- MCNode
  Capacity <- MCCapacity
  BaseCost <- MCBaseCost
  WireLength <- MCWireLength
  Net <- MCNet
  Source <- MCSource
  NumCons = 4
  NetOf <- MCNetOf
  Routes <- MCRoutes
  NumClasses = 1
  ClassOpins <- MCClassOpins
  NumLocal <- MCNumLocal
  FirstIterPresFac = 0
  InitialPresFac = 1
  PresFacMult = 2
  MaxPresFac = 8
  AccFac = 1
  MaxIter = 10
  PredictAfter = 10
  CongestionDriven = TRUE
  CostScale <- MCCostScale
PROPERTY
  Converges
