CONSTANTS
  j1 = j1
  j2 = j2
  j3 = j3
  NULL = NULL
  Jobs = {j1}
  Priority <- MCPriority
  MaxThreadCount = 2
  HugeCount = 0
  NumGroups = 1
  NumPriorities = 2
  DropCache = FALSE
  LifoSwitchThreshold = 1
  MaxJobQueuing = 1
  ReleaseRate = 1
  HealthLevels = {"Bold", "BackOff"}
  Waitable = FALSE
  MayThrow = TRUE
  MaxTime = 1
  WorkersToAdd = {1}
  InitThreadCount = 1
  QueueToWorkerRatio = 1
SPECIFICATION DSpec
INVARIANTS StopJoinsAll
CHECK_DEADLOCK FALSE
