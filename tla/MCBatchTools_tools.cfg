SPECIFICATION Spec
CONSTANTS
  Inputs <- MCInputs
  Jobs = {1, 2, 3}
  PoolSize = 2
  MaxLines = 4
INVARIANTS DoneIsDelivered
CHECK_DEADLOCK FALSE
