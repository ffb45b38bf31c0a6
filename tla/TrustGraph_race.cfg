SPECIFICATION LiveSpec
CONSTANTS
  alice = alice
  Users = {alice, bob}
  Sessions = {s1, s2}
  MaxRequests = 2
  RateLimit = 2
PROPERTY
  CallsEnd
INVARIANTS
  TypeOK
  OneOpenRequestPerPair
  EdgesMirrorFriendships
