SPECIFICATION MapSpec
CONSTANTS
  Key <- MCKey
  Root <- MCRoot
  InitSize = 32
  MaxUse = 2
  MaxSize = 64
  MaxGrowth = 1
  MaxCount = 14
INVARIANTS
  NeverExits
  ScanReachesAll
PROPERTY
  ImplementsBag
CHECK_DEADLOCK FALSE
