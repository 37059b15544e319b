\* Three configurations (see MCOptions), db 2 filtered out.
CONSTANTS
  kUser = kUser  kAdmin = kAdmin  kOrder = kOrder
  MaxParallel = 2
  Keys <- MCKeys
  Records <- MCRecords
  DBs = {0, 1, 2}
  AcceptedDBs = {0, 1}
  Options <- MCOptions
  Prefixes <- MCPrefixes
  KeyPrefixes <- MCKeyPrefixes
  KeySlot <- MCKeySlot
  Atoi <- MCAtoi
  RDBPipeSize = 1
SPECIFICATION Spec
INVARIANT TypeOK
INVARIANT RestoredInDest
INVARIANT RestoreComplete
PROPERTY RestoreTerminates
CHECK_DEADLOCK FALSE
