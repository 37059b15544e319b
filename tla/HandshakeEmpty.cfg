\* Both handshakes, a master that sends one keepalive and announces either
\* an empty snapshot or one of two bytes.
CONSTANTS
  PsyncModes = {FALSE, TRUE}
  Sizes = {0, 2}
  MasterOffset = 100
  MaxKeepalives = 1
SPECIFICATION Spec
PROPERTY EmptySnapshotHandedOver
CHECK_DEADLOCK FALSE
