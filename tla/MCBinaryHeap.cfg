SPECIFICATION Spec
CONSTANTS
  n1 = n1
  OPEN = OPEN
  NULL = NULL
  Junk = Junk
  Cost <- MCCost
  Index <- MCIndex
  InitSize = 2
  MaxLength = 5
INVARIANTS
  NoWildAccess
PROPERTY
  ImplementsQueue
