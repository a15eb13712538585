SPECIFICATION Spec
CONSTANTS
  MaxPins = 19
  Fs = 3
  WidthLimit = 100
  Options <- MCOptions
INVARIANTS
  Bracket
  BestIsRestored
  NextNarrowerFails
  TwoNarrowerFail
PROPERTY
  Ends
