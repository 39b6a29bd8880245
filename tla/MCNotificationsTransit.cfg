SPECIFICATION Spec
CONSTANTS
  Sources = {s1}
  Outcomes = {"ok"}
  MaxEvents = 2
  PageLimit = 1
  BufferLimit = 1
  MaxTasks = 1
  MaxMishaps = 0
INVARIANT CursorClaimsOnlySeen
CHECK_DEADLOCK FALSE
