SPECIFICATION Spec
CONSTANTS
  a = a
  b = b
  tui1 = tui1
  tui2 = tui2
  c1 = c1
  c2 = c2
  Nobody = Nobody
  Sessions <- MCSessions
  Desktops <- OneDesktop
  Connections <- TwoConnections
  MaxLive = 2
  MaxCrashes = 0
  MaxSuffix = 0
  MaxSwitches = 1
PROPERTIES ReadBackRebinds
CHECK_DEADLOCK FALSE
