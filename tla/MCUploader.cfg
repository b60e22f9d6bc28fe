SPECIFICATION Spec
CONSTANTS
  BATCH_SIZE = 2
  TARGET_BATCH_SIZE = 2
  Keep = 2
  MaxStream = 5
  MaxFailures = 1
  MaxStops = 1
INVARIANTS
  TradesAccounted
CHECK_DEADLOCK FALSE
