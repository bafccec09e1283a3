SPECIFICATION Spec
CONSTANTS
  LBE_CTRL_RETRY_MAX = 3
  StatusReads = 2
INVARIANTS
  TypeOK
  GlitchesAbsorbed
  SleepBounded
PROPERTIES
  ImplementsRequest
  UnplugEndsLog
