SPECIFICATION Spec
CONSTANTS
  ReplayCapacity = 2
  ReplayByteBudget = 0
  PageLimit = 1
  MaxBuffer = 1
  TailLimit = 2
  Summaries = {1}
  MaxItems = 4
  MaxEpoch = 3
  MaxDrops = 1
  MaxRetries = 1
  MaxSnapshots = 1
CONSTRAINT Shapes
INVARIANTS NoHoleAfterSummary
CHECK_DEADLOCK FALSE
