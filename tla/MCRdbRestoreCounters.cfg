\* The same RDB and filters as MCRdbRestore.cfg.
CONSTANTS
  kUser = kUser  kAdmin = kAdmin  kOrder = kOrder
  MaxParallel = 2
  Keys <- MCKeys
  Records <- MCRecords
  DBs = {0, 1, 2}
  AcceptedDBs = {0, 1}
  Options <- MCOptions
  Prefixes <- MCPrefixes
  KeyPrefixes <- MCKeyPrefixes
  KeySlot <- MCKeySlot
  Atoi <- MCAtoi
  RDBPipeSize = 1
SPECIFICATION Spec
INVARIANT CountersExact
CHECK_DEADLOCK FALSE
