SPECIFICATION FairSpec
CONSTANTS
  w1 = w1
  w2 = w2
  p1 = p1
  p2 = p2
  NoOne = NoOne
  Workers <- MCWorkers
  Partitions <- MCOnePartition
  LogLen = 2
  BatchSize = 2
  ProcessTimeout = 5
  MaxPollInterval = 6
  PushBatches = FALSE
  HasTimeoutResponse = FALSE
  SwallowsAlarm = FALSE
  Poison <- MCNoPoison
  MaxDisturbances = 1
PROPERTIES HandledOnce EveryMessageSettled
CHECK_DEADLOCK FALSE
