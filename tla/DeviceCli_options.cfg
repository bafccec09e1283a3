SPECIFICATION Spec
CONSTANTS
  Models <- AllModels
  Values <- MCValues
  MaxOptions = 2
  Fin = 12
  LSMax = 24
  N3Max = 8
  KMax = 24
  NativeLow = 100
  NativeHigh = 130
CHECK_DEADLOCK FALSE
INVARIANTS
  WithinRating
  ClaimsHold
  NoChangesTruthful
  BlinkStops
PROPERTIES
  OnlyAsked
  MiniSolves
