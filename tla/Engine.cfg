\* Three sources over two targets, two dispatch workers.
CONSTANTS
  NSources = 3
  NTargets = 2
  SourceParallel = 2
SPECIFICATION Spec
INVARIANT TypeOK
INVARIANT FullSyncsBounded
INVARIANT MainWaitsForAll
PROPERTY AllSynced
CHECK_DEADLOCK FALSE
