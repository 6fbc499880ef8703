\* A connection with every script of MCScripts: up to three pipelined requests,
\* a reader that reads one unit ahead, every limit and timeout within reach.
SPECIFICATION FairSpec
CONSTANTS
  Scripts <- MCScripts
  HeadCap = 3
  MaxBody = 3
  InitialCapacity = 2
  Slack = 1
  ReaderAhead = 1
  HeaderTimeout = 2
  BodyTimeout = 3
  IdleTimeout = 1
  TotalTimeout = 3
  MaxPerConnection = 3
  StreamBuffer = 1
  MaxStream = 2
CHECK_DEADLOCK FALSE
INVARIANTS TypeOK InOrder LimitsHeld BufferBounded StreamsFramed LeftoverServed
PROPERTIES ConnectionEnds
