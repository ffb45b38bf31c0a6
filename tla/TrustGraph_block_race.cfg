SPECIFICATION Spec
CONSTANTS
  alice = alice
  Users = {alice, bob}
  Sessions = {s1, s2}
  MaxRequests = 1
  RateLimit = 10
INVARIANT
  BlockSeparates
