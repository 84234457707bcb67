SPECIFICATION FairSpec
CONSTANTS
  t1 = t1
  t2 = t2
  o1 = o1
  o2 = o2
  Threads = {t1, t2}
  Objects = {o1, o2}
  NoThread = NoThread
  NoObject = NoObject
  ONE_SEC_IN_MICROSEC = 1
  MaxRequestAge = 1
  GcRetryLimit = 2
  ClockMonotone = FALSE
  MaxCalls = 2
  MaxTime = 2
  MaxRequests = 2
CHECK_DEADLOCK FALSE
INVARIANTS
  NoUseAfterFree
  OldestIsLeastInFlight
  GcStatusLoopEnds
PROPERTIES
  DefersWork
  QueuedWorkRuns
