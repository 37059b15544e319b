\* filter.db accepts db 0 only: a PING arriving after SELECT 1.
CONSTANTS
  DBs = {0, 1}
  AcceptedDBs = {0}
  Keys <- MCKeys
  FilterKey = {}
  KeyPrefixes <- MCNoPrefixes
  TargetDB <- MCNoOverride
  MaxPull = 3
  NoDb = NoDb
  user1 = user1
  order1 = order1
  SenderCount = 1
  DelayCap = 3
  SampleBand <- MCSampleBand
  SampleRate <- MCSampleRate
  Metric = TRUE
  TargetErr = FALSE
SPECIFICATION Spec
INVARIANT PingForwarded
CHECK_DEADLOCK FALSE
