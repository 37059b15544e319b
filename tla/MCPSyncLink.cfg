\* Two RDB bytes, three stream bytes, one network failure, a backlog of one
\* byte and a master timeout of two seconds.
CONSTANTS
  NSize = 2
  MaxStream = 3
  PipeCap = 1
  LinkCap = 1
  Backlog = 1
  MaxDrops = 1
  MasterTimeout = 2
SPECIFICATION Spec
INVARIANT TypeOK
INVARIANT StreamIntact
INVARIANT AckNeverAhead
CHECK_DEADLOCK FALSE
