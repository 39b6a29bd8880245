SPECIFICATION Spec
CONSTANTS
  Sources = {s1}
  Outcomes = {"ok", "failed", "unsynced"}
  MaxEvents = 2
  PageLimit = 1
  BufferLimit = 1
  MaxTasks = 1
  MaxMishaps = 2
INVARIANT SequenceNeverRegresses
CHECK_DEADLOCK FALSE
