SPECIFICATION FairSpec
CONSTANTS
  e1 = e1
  e2 = e2
  e3 = e3
  Events = {e1, e2}
  NULL = NULL
  NoEvent = NoEvent
  CONSUMER_WAITING = CONSUMER_WAITING
  Consumer = Consumer
  SweepTimesOut = TRUE
CHECK_DEADLOCK FALSE
INVARIANTS
  ReleasedOnce
  AssertsHold
  NoLostWakeUp
  FinishedIsKept
PROPERTIES
  WaitEnds
  EventsAreReleased
