SPECIFICATION Spec
CONSTANTS
  s = s
  r = r
  a = a
  b = b
  X = X
  Y = Y
  Z = Z
  o = o
  p = p
  q = q
  Node <- MCNode
  Sink <- MCSink
  Capacity <- MCCapacity
  Edge <- MCEdge
  NumNets = 2
  Source <- MCSource
  PinSink <- MCPinSink
  PadSink = {}
  Opin <- MCOpin
  Ptc <- MCPtc
  OpinClass <- MCOpinClass
  Traces <- MCTraces
  Locals <- MCLocals
INVARIANTS
  AcceptedIsRouting
  RoutingIsAccepted
PROPERTY
  Decides
