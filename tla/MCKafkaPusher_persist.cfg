SPECIFICATION Spec
CONSTANTS
  w1 = w1
  w2 = w2
  p1 = p1
  p2 = p2
  NoOne = NoOne
  Workers <- MCWorkers
  Partitions <- MCPartitions
  LogLen = 2
  BatchSize = 2
  ProcessTimeout = 5
  MaxPollInterval = 6
  PushBatches = TRUE
  HasTimeoutResponse = FALSE
  SwallowsAlarm = FALSE
  Poison <- MCPoison
  MaxDisturbances = 1
SYMMETRY Symmetry
PROPERTIES ImplementsQueue
CHECK_DEADLOCK FALSE
