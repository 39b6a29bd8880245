SPECIFICATION Spec
CONSTANTS
  ReplayCapacity = 2
  ReplayByteBudget = 0
  PageLimit = 1
  MaxBuffer = 2
  TailLimit = 2
  Summaries = {1}
  MaxItems = 3
  MaxEpoch = 1
  MaxDrops = 0
  MaxRetries = 1
  MaxSnapshots = 0
INVARIANTS GapBackfilled
CHECK_DEADLOCK FALSE
