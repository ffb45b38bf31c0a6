SPECIFICATION SpecMC
CONSTANTS
  asker = asker
  friend = friend
  holder = holder
  Users <- MCUsers
  NoUser = NoUser
  Slots = {s1, s2}
  MaxConns = 3
  MaxReqs = 1
  MaxEdits = 1
  Ips = {ip1, ip2}
  Window = 3
  MaxRequests = 2
  MaxTime = 6
SYMMETRY Symmetry
CHECK_DEADLOCK FALSE
INVARIANTS
  OneActivePerPair
  RevealedByConsent
  LimitHolds
PROPERTY
  AskedAsFound
