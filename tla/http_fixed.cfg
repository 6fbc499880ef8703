\* One request, answered by a fixed-length stream among others.
SPECIFICATION Spec
CONSTANTS
  Scripts <- GetOnly
  HeadCap = 3
  MaxBody = 3
  InitialCapacity = 2
  Slack = 1
  ReaderAhead = 1
  HeaderTimeout = 2
  BodyTimeout = 3
  IdleTimeout = 1
  TotalTimeout = 3
  MaxPerConnection = 3
  StreamBuffer = 1
  MaxStream = 2
CHECK_DEADLOCK FALSE
INVARIANTS FixedLengthKept
