\* One link failure, no master timeout.
CONSTANTS
  NSize = 2
  MaxStream = 2
  PipeCap = 1
  LinkCap = 1
  Backlog = 2
  MaxDrops = 1
  MasterTimeout = 0
SPECIFICATION Spec
INVARIANT StatusTruthful
CHECK_DEADLOCK FALSE
