SPECIFICATION FairSpec
CONSTANTS
  Guests = {1, 2}
  MaxOffers = 2
  Conns = {1, 2}
  HasTurn = TRUE
  MaxLosses = 1
CONSTRAINT OneStays
INVARIANTS TypeOK CandidatesReachTheirPeer PeersCleaned
PROPERTIES HostReturns
CHECK_DEADLOCK FALSE
