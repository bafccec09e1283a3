SPECIFICATION Spec
CONSTANTS
  Messages = {"pvt", "nofix", "ver"}
  Parts <- MCParts
  Solutions = {"pvt", "nofix"}
  Fixes = {"pvt"}
  Version = "ver"
  Readers = {"gps-info"}
  Capacity = 4
  Reads = 6
INVARIANT
  MessagesSurvive
