SPECIFICATION PoolsSpec
CONSTANTS
  MaxJobs = 4
  NumProcs = 3
  MaxListed = 3
  ListLimit = 2
  CloudProcs = 2
  PipeSize = 1
INVARIANTS TypeOK JoinCounts OnePlace EndsComplete EachOnce LogComplete
PROPERTIES CallEnds CloudEnds
CHECK_DEADLOCK FALSE
