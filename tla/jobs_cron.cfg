\* One worker whose cron is the only source of jobs.
SPECIFICATION Spec
CONSTANTS
  w1 = w1
  w2 = w2
  c1 = c1
  Workers = {w1}
  Queues = {w1}
  QueueOf <- OwnQueue
  Names = {"job"}
  Crons = {c1}
  CronName <- OneCronName
  CronPeriod <- OneCronPeriod
  Delays = {0}
  AttemptLimits = {}
  DefaultAttempts = 1
  BatchSize = 1
  Lease = 2
  InitialBackoff = 1
  MaxBackoff = 2
  Retention = {}
  Punctual = TRUE
  StartTime = 2
  MaxIds = 4
  MaxJobs = 4
  MaxTime = 6
  MaxFaults = 1
CHECK_DEADLOCK FALSE
INVARIANTS CronJobsBounded
