\* Two sources, one dispatch worker, the info endpoint polled at any time.
CONSTANTS
  NSources = 2
  NTargets = 1
  SourceParallel = 1
SPECIFICATION SpecWithInfo
INVARIANT InfoNeverNil
CHECK_DEADLOCK FALSE
