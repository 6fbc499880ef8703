\* Four threads compete for two handles, twice each.
SPECIFICATION FairSpec
CONSTANTS
  t1 = t1
  t2 = t2
  t3 = t3
  t4 = t4
  Threads = {t1, t2, t3, t4}
  N = 2
  Rounds = 2
CHECK_DEADLOCK FALSE
INVARIANTS TypeOK LeaseExclusive NoLostWakeup
PROPERTIES AcquireReturns ImplementsLeasing
