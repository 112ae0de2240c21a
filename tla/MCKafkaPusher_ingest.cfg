SPECIFICATION Spec
CONSTANTS
  w1 = w1
  w2 = w2
  p1 = p1
  p2 = p2
  NoOne = NoOne
  Workers <- MCWorkers
  Partitions <- MCOnePartition
  LogLen = 2
  BatchSize = 1
  ProcessTimeout = 5
  MaxPollInterval = 6
  PushBatches = FALSE
  HasTimeoutResponse = TRUE
  SwallowsAlarm = TRUE
  Poison <- MCPoison
  MaxDisturbances = 2
SYMMETRY Symmetry
INVARIANTS TypeOK CommittedIsHandled
PROPERTIES EstablishedNeverSkips KeepsAssignment
CHECK_DEADLOCK FALSE
