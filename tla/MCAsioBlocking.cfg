SPECIFICATION Spec
CONSTANTS
  MaxHandles = 4
  MaxDepth = 2
  MaxKids = 2
  Kinds = {"AsyncFunction", "AsyncGenerator", "AwaitAll", "Condition", "Reschedule"}
  Priorities = {0}
  Hooks = {}
CHECK_DEADLOCK FALSE
INVARIANTS AssertsHold NeverStuck WillBeWoken RefsAreExact
