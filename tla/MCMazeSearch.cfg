SPECIFICATION Spec
CONSTANTS
  src = src
  wa = wa
  wb = wb
  wc = wc
  snk1 = snk1
  snk2 = snk2
  NO_PREVIOUS = NO_PREVIOUS
  Node <- MCNode
  Edge <- MCEdge
  NumSearches = 3
  SourceOf <- MCSourceOf
  TargetOf <- MCTargetOf
  Pruned <- MCPruned
  Prices <- MCPrices
  Estimates <- MCEstimates
  HUGE = 1000
INVARIANTS
  WayBack
  FindsAWay
  CheapestPath
PROPERTIES
  SearchesEnd
