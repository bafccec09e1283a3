SPECIFICATION Spec
CONSTANTS
  TalkerOrder <- MCTalkerOrder
  GnssId <- MCGnssId
  Skies <- MCSkies
  MaxWork = 4
  MaxCycle = 2
INVARIANTS
  TypeOK
  ViewWhole
  ViewFresh
  TwiceOnlyIfMoved
\* The simulated receiver stops after MaxCycle cycles.
CHECK_DEADLOCK FALSE
