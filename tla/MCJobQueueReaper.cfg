CONSTANTS
  j1 = j1
  j2 = j2
  j3 = j3
  NULL = NULL
  Jobs = {j1}
  Priority <- MCPriority
  MaxThreadCount = 1
  HugeCount = 0
  NumGroups = 1
  NumPriorities = 2
  DropCache = TRUE
  LifoSwitchThreshold = 1
  MaxJobQueuing = 1
  ReleaseRate = 1
  HealthLevels = {"Bold"}
  Waitable = FALSE
  MayThrow = FALSE
  MaxTime = 0
SPECIFICATION Spec
INVARIANTS NoStrandedJobs
CHECK_DEADLOCK FALSE
