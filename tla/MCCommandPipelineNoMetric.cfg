\* metric = false and a target that may reject a command.
CONSTANTS
  DBs = {0, 1}
  AcceptedDBs = {0, 1}
  Keys <- MCKeys
  FilterKey = {}
  KeyPrefixes <- MCNoPrefixes
  TargetDB <- MCNoOverride
  MaxPull = 3
  NoDb = NoDb
  user1 = user1
  order1 = order1
  SenderCount = 1
  DelayCap = 3
  SampleBand <- MCSampleBand
  SampleRate <- MCSampleRate
  Metric = FALSE
  TargetErr = TRUE
SPECIFICATION Spec
PROPERTY ErrorReplyFatal
CHECK_DEADLOCK FALSE
