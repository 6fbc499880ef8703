\* Two workers sharing one Queue with no bound on how long a batch
\* takes, and no purge of finished rows: claims overlap, handlers run twice.
SPECIFICATION FairSpec
CONSTANTS
  w1 = w1
  w2 = w2
  c1 = c1
  Workers = {w1, w2}
  Queues = {w1}
  QueueOf <- SharedQueue
  Names = {"job"}
  Crons = {}
  CronName <- NoCronName
  CronPeriod <- NoCronPeriod
  Delays = {1}
  AttemptLimits = {2}
  DefaultAttempts = 1
  BatchSize = 1
  Lease = 1
  InitialBackoff = 1
  MaxBackoff = 2
  Retention = {}
  Punctual = FALSE
  StartTime = 2
  MaxIds = 2
  MaxJobs = 2
  MaxTime = 4
  MaxFaults = 1
CHECK_DEADLOCK FALSE
INVARIANTS SucceededRan
PROPERTIES DueJobsServed StopObeyed
