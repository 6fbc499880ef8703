\* Main and another accept thread, three clients, one slot, two failures.
SPECIFICATION FairSpec
CONSTANTS
  a1 = a1
  c1 = c1
  c2 = c2
  c3 = c3
  s1 = s1
  Main = main
  NoConn = none
  Extra = {a1}
  Conns = {c1, c2, c3}
  Stoppers = {s1}
  MaxConnections = 1
  MaxErrors = 2
CHECK_DEADLOCK FALSE
INVARIANTS TypeOK ConnectionsBounded CountExact DrainedBeforeReturn
PROPERTIES ShutdownReturns ClientsTaken
