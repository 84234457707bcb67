SPECIFICATION FairSpec
INVARIANTS NoDeadObserver ObserversAgree
PROPERTIES StopEndsMonitors
CONSTANTS
  Monitors = {m1, m2}
  m1 = m1
  m2 = m2
  Clients = {c1, c2}
  c1 = c1
  c2 = c2
  Levels = {0, 1, 2}
  Bold = 0
  NULL = NULL
