\* A network that never fails and a master timeout of two seconds.
CONSTANTS
  NSize = 2
  MaxStream = 1
  PipeCap = 1
  LinkCap = 1
  Backlog = 1
  MaxDrops = 0
  MasterTimeout = 2
SPECIFICATION Spec
INVARIANT SnapshotNotTimedOut
CHECK_DEADLOCK FALSE
