SPECIFICATION Spec
CONSTANTS
  s = s
  a = a
  b = b
  d = d
  e = e
  x = x
  y = y
  z = z
  X = X
  Y = Y
  Z = Z
  Node <- MCNode
  Sink <- MCSink
  Source = s
  FirstEdge <- MCFirstEdge
  Con <- MCCon
  Paths <- MCPaths
INVARIANTS
  UnionOfTraces
  StrayNeedsSharedPin
  PrunedToTree
  NetTraceIsTree
PROPERTIES
  PruneSparesVisited
  WalksEnd
