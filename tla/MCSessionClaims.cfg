SPECIFICATION Spec
CONSTANTS
  a = a
  b = b
  tui1 = tui1
  tui2 = tui2
  c1 = c1
  c2 = c2
  Nobody = Nobody
  Sessions <- MCSessions
  Desktops <- OneDesktop
  Connections <- TwoConnections
  MaxLive = 2
  MaxCrashes = 1
  MaxSuffix = 1
  MaxSwitches = 1
SYMMETRY Symmetric
CONSTRAINT Shapes
INVARIANTS TypeOK PoolClaimsReal ProcessesOwnSessions PoolBounded
CHECK_DEADLOCK FALSE
