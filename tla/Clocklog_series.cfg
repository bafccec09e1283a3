SPECIFICATION Spec
CONSTANTS
  Starts <- MCStarts
  ResetTows <- MCCorrections
  FixTypes <- MCFixTypes
  MaxEpoch = 2
INVARIANTS
  HeardIsLogged
  MissedMeansGap
  FreshMeansExact
PROPERTIES
  HonestSeries
\* The simulated receiver stops after MaxEpoch seconds.
CHECK_DEADLOCK FALSE
