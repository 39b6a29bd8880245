SPECIFICATION Spec
CONSTANTS
  Sources = {s1}
  Outcomes = {"ok", "failed", "unsynced"}
  MaxEvents = 2
  PageLimit = 1
  BufferLimit = 1
  MaxTasks = 2
  MaxMishaps = 2
INVARIANTS TypeOK PersistedIsOnDisk CursorClaimsNothingUnseen ReadyIsComplete OneNoticePerTask
CHECK_DEADLOCK FALSE
