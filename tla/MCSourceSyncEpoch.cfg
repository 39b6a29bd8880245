SPECIFICATION Spec
CONSTANTS
  ReplayCapacity = 2
  ReplayByteBudget = 0
  PageLimit = 1
  MaxBuffer = 2
  TailLimit = 2
  Summaries = {1}
  MaxItems = 2
  MaxEpoch = 2
  MaxDrops = 1
  MaxRetries = 1
  MaxSnapshots = 0
INVARIANTS EpochVoidsHistory
CHECK_DEADLOCK FALSE
