CONSTANTS
  j1 = j1
  j2 = j2
  j3 = j3
  NULL = NULL
  Jobs = {j1, j2}
  Priority <- MCPriority
  MaxThreadCount = 2
  HugeCount = 0
  NumGroups = 1
  NumPriorities = 2
  DropCache = FALSE
  LifoSwitchThreshold = 1
  MaxJobQueuing = 0
  ReleaseRate = 1
  HealthLevels = {"Bold"}
  Waitable = TRUE
  MayThrow = FALSE
  MaxTime = 0
  WorkersToAdd = {1}
  InitThreadCount = 1
  QueueToWorkerRatio = 2
SPECIFICATION DFairSpec
INVARIANTS StopDrains QueuedJobsHaveWorkers
PROPERTIES JobsGetDone StopEnds
CHECK_DEADLOCK FALSE
