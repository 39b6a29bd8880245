SPECIFICATION Spec
CONSTANTS
  PageCount = 2
  BulkLimit = 5
  Credit = 1
  RetainLimit = 2
  AssemblyLimit = 2
  PageLimit = 3
  MaxMessages = 3
  MaxLosses = 2
INVARIANTS TypeOK DeliveredOnceAndWhole OrderKept NothingWaitsInVain
CHECK_DEADLOCK FALSE
