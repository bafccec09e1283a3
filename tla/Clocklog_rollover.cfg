SPECIFICATION Spec
CONSTANTS
  Starts <- MCWeekEnd
  ResetTows <- MCNoReset
  FixTypes <- MCFixTypes
  MaxEpoch = 2
INVARIANTS
  GapMeansMissed
\* The simulated receiver stops after MaxEpoch seconds.
CHECK_DEADLOCK FALSE
