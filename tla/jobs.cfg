\* Two processes, batches of two, every batch finished within its lease.
SPECIFICATION Spec
CONSTANTS
  w1 = w1
  w2 = w2
  c1 = c1
  Workers = {w1, w2}
  Queues = {w1, w2}
  QueueOf <- OwnQueue
  Names = {"job"}
  Crons = {}
  CronName <- NoCronName
  CronPeriod <- NoCronPeriod
  Delays = {0}
  AttemptLimits = {2}
  DefaultAttempts = 2
  BatchSize = 2
  Lease = 2
  InitialBackoff = 1
  MaxBackoff = 1
  Retention = {0}
  Punctual = TRUE
  StartTime = 2
  MaxIds = 2
  MaxJobs = 2
  MaxTime = 4
  MaxFaults = 1
SYMMETRY Symmetry
CHECK_DEADLOCK FALSE
INVARIANTS TypeOK ExclusiveClaim FailedHonest RetriesBounded
PROPERTIES TerminalFinal ImplementsLife
