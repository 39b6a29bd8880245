SPECIFICATION FairSpec
CONSTANTS
  ReplayCapacity = 2
  ReplayByteBudget = 0
  PageLimit = 1
  MaxBuffer = 1
  TailLimit = 1
  Summaries = {1}
  MaxItems = 3
  MaxEpoch = 4
  MaxDrops = 2
  MaxRetries = 0
  MaxSnapshots = 0
CONSTRAINT Judged
PROPERTIES CatchesUp
CHECK_DEADLOCK FALSE
