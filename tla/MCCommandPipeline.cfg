\* target.db override 1, filter.db = 0 and 1 accepted, filter.key = "user:".
CONSTANTS
  DBs = {0, 1}
  AcceptedDBs = {0}
  Keys <- MCKeys
  FilterKey <- MCFilterKey
  KeyPrefixes <- MCKeyPrefixes
  TargetDB = 1
  MaxPull = 5
  NoDb = NoDb
  user1 = user1
  order1 = order1
  SenderCount = 1
  DelayCap = 3
  SampleBand <- MCSampleBand
  SampleRate <- MCSampleRate
  Metric = TRUE
  TargetErr = FALSE
SPECIFICATION Spec
INVARIANT TypeOK
INVARIANT DelayNodeNotBehind
INVARIANT SelectCoalesced
INVARIANT SamplingFollowsTable
PROPERTY ForwardSpec
CHECK_DEADLOCK FALSE
