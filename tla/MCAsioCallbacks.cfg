SPECIFICATION FairSpec
CONSTANTS
  MaxHandles = 2
  MaxDepth = 3
  MaxKids = 2
  Kinds = {"AsyncFunction", "AwaitAll", "Condition", "Reschedule", "Sleep", "ExternalThreadEvent"}
  Priorities = {0}
  Hooks = {"enterIO", "exitIO", "processed"}
CHECK_DEADLOCK FALSE
INVARIANTS AssertsHold WellPlaced
PROPERTIES JoinReturns
