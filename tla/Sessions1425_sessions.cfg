SPECIFICATION Spec
CONSTANTS
  Models = {"1425", "mini"}
  Strangers = {"other"}
  MatchMax = 2
  BusMax = 3
  Wrap = 16
  Second = 2
  ReadTimeout = 1
  PollTime = 1
  Durations = {0, 1, 2, 8}
  ClockStarts = {0, 13, 15}
  Replies = {"ver", "ant"}
  InfoReads = 2
  DumpReads = 2
  MaxTime = 7
INVARIANTS
  RightDevice
  NothingLeaks
  PolledOften
  MonStreamsRestored
PROPERTIES
  LogLength
  SessionsEnd
CHECK_DEADLOCK FALSE
