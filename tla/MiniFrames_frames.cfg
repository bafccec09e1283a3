SPECIFICATION Spec
CONSTANTS
  Messages = {"pvt", "nofix", "ver"}
  Parts <- MCParts
  Solutions = {"pvt", "nofix"}
  Fixes = {"pvt"}
  Version = "ver"
  Readers = {"monitor", "status"}
  Capacity = 4
  Reads = 6
INVARIANTS
  MessagesSurvive
  GpsLockSeen
  PllLockSeen
