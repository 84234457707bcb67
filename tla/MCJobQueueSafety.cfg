CONSTANTS
  j1 = j1
  j2 = j2
  j3 = j3
  NULL = NULL
  Jobs = {j1, j2, j3}
  Priority <- MCPriority
  MaxThreadCount = 1
  HugeCount = 0
  NumGroups = 1
  NumPriorities = 2
  DropCache = FALSE
  LifoSwitchThreshold = 1
  MaxJobQueuing = 1
  ReleaseRate = 1
  HealthLevels = {"Bold", "BackOff"}
  Waitable = FALSE
  MayThrow = TRUE
  MaxTime = 2
SPECIFICATION Spec
INVARIANTS JobsAreConserved CountsAreExact
PROPERTIES OnlyOldJobsAborted
CHECK_DEADLOCK FALSE
