SPECIFICATION Spec
CONSTANTS
  tui = tui
  pool = pool
  DesktopSources <- MCDesktopSources
  HeadlessSources <- MCHeadlessSources
  EventSizes <- MCEventSizes
  ReplayCapacity = 2
  ReplayByteBudget = 3
  MaxSeq = 4
  MaxEpoch = 3
  MaxHub = 2
INVARIANTS TypeOK RingContiguous ReplayExact SnapshotExact
PROPERTIES LocalNumbersFresh ImplementsWindow
CHECK_DEADLOCK FALSE
