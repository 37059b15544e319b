\* No master timeout and a backlog as large as the stream: every failure can
\* be resumed, so the whole stream must eventually arrive.
CONSTANTS
  NSize = 2
  MaxStream = 3
  PipeCap = 1
  LinkCap = 1
  Backlog = 3
  MaxDrops = 2
  MasterTimeout = 0
SPECIFICATION Spec
PROPERTY AllDelivered
CHECK_DEADLOCK FALSE
