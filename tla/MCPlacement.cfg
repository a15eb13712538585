SPECIFICATION Spec
CONSTANTS
  clb = clb
  io = io
  none = none
  big = big
  small = small
  NoFile = NoFile
  NX = 2
  NY = 3
  Type <- MCType
  EmptyType = none
  IOType = io
  TypeAt <- MCTypeAt
  Capacity <- MCCapacity
  NumBlocks = 6
  TypeOf <- MCTypeOf
  NetsOf <- MCNetsOf
  Net <- MCNet
  Macros <- MCMacros
  PadFiles <- MCPadFiles
  SmallNet = 4
INVARIANT
  GridAgrees
  MacrosHold
  BoxesAreRight
  MovedOnce
  CheckPasses
PROPERTY
  QuenchNeverRises
  PadsStay
CHECK_DEADLOCK FALSE
