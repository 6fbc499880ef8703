\* As jobs, but a batch may outlive its lease: rowids are reused after a purge.
SPECIFICATION Spec
CONSTANTS
  w1 = w1
  w2 = w2
  c1 = c1
  Workers = {w1, w2}
  Queues = {w1, w2}
  QueueOf <- OwnQueue
  Names = {"job"}
  Crons = {}
  CronName <- NoCronName
  CronPeriod <- NoCronPeriod
  Delays = {0}
  AttemptLimits = {2}
  DefaultAttempts = 2
  BatchSize = 2
  Lease = 2
  InitialBackoff = 1
  MaxBackoff = 2
  Retention = {0}
  Punctual = FALSE
  StartTime = 2
  MaxIds = 1
  MaxJobs = 2
  MaxTime = 5
  MaxFaults = 0
SYMMETRY Symmetry
CHECK_DEADLOCK FALSE
INVARIANTS SucceededRan
