SPECIFICATION Spec
CONSTANTS
  c1 = c1
  c2 = c2
  Clients = {c1, c2}
  Roaming = {c1}
  Nobody = Nobody
  Kinds = {"headless", "desktop"}
  MaxDepth = 1
  MaxCommands = 2
  MaxSockets = 2
  MaxFence = 2
  MaxEpochs = 2
INVARIANTS TypeOK AnsweredOnce OverlapOnlyOnceLetGo QueueNeverStuck
PROPERTY FencesInOrder
CHECK_DEADLOCK FALSE
