SPECIFICATION FairSpec
CONSTANTS
  MaxJobs = 2
  NumProcs = 2
PROPERTY AllTasksFinish
CHECK_DEADLOCK FALSE
