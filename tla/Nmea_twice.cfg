SPECIFICATION Spec
CONSTANTS
  TalkerOrder <- MCTalkerOrder
  GnssId <- MCGnssId
  Skies <- MCSkies
  MaxWork = 4
  MaxCycle = 2
INVARIANTS
  ListedOnce
\* The simulated receiver stops after MaxCycle cycles.
CHECK_DEADLOCK FALSE
