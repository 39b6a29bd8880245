SPECIFICATION Spec
CONSTANTS
  c1 = c1
  c2 = c2
  Clients = {c1, c2}
  Roaming = {}
  Nobody = Nobody
  Kinds = {"desktop"}
  MaxDepth = 1
  MaxCommands = 2
  MaxSockets = 2
  MaxFence = 2
  MaxEpochs = 2
INVARIANT StructureNeverOverlaps
CHECK_DEADLOCK FALSE
