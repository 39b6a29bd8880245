SPECIFICATION LeaseSpec
CONSTANTS
  Nobody = Nobody
  phone1 = phone1
  phone2 = phone2
  Clients <- MCClients
  Ttls <- MCTtls
  MaxFence = 3
  MaxLeaseId = 4
  MaxTime = 3
SYMMETRY Phones
INVARIANT EndedStaysEnded
PROPERTY CommandsFenced
