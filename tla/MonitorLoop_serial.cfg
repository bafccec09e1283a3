SPECIFICATION Spec
CONSTANTS
  Scripts <- MCScripts
  RxCap = 4
  BufSize = 2
  Second = 6
  High = 3
  Phases <- MCPhases
  READ_TIMEOUT = 1
  ReadBlock = 1
  REDRAW_PERIOD = 2
  DrawTime = 1
  PPS_HISTORY = 2
  MaxTime = 16
  MaxFails = 1
INVARIANTS
  TypeOK
  ShortLinesSurvive
  PulsesCounted
  JitterWithinRound
  FractionTrue
\* The monitor ends when a read fails, a history at MaxTime.
CHECK_DEADLOCK FALSE
