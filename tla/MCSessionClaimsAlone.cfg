SPECIFICATION Spec
CONSTANTS
  a = a
  b = b
  tui1 = tui1
  tui2 = tui2
  c1 = c1
  c2 = c2
  Nobody = Nobody
  Sessions <- OneSession
  Desktops <- TwoDesktops
  Connections <- TwoConnections
  MaxLive = 2
  MaxCrashes = 0
  MaxSuffix = 0
  MaxSwitches = 0
INVARIANTS TuiWritesAlone
CHECK_DEADLOCK FALSE
