CONSTANTS
  j1 = j1
  j2 = j2
  j3 = j3
  NULL = NULL
  Jobs = {j1, j2}
  Priority <- MCPriority
  MaxThreadCount = 2
  HugeCount = 1
  NumGroups = 2
  NumPriorities = 2
  DropCache = TRUE
  LifoSwitchThreshold = 1
  MaxJobQueuing = 0
  ReleaseRate = 1
  HealthLevels = {"Bold"}
  Waitable = TRUE
  MayThrow = FALSE
  MaxTime = 0
SPECIFICATION FairSpec
INVARIANTS NoStrandedJobs
PROPERTIES EmptyMeansDone QueuedJobsFinish WaitEmptyReturns
CHECK_DEADLOCK FALSE
