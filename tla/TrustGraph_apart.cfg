SPECIFICATION SpecStar
CONSTANTS
  alice = alice
  Users = {alice, bob, carol}
  Sessions = {s1, s2}
  MaxRequests = 2
  RateLimit = 2
SYMMETRY StarSymmetry
INVARIANTS
  BlockSeparates
  NoOpenRequestBetweenFriends
PROPERTIES
  AnsweredOnce
  ImplementsRelationship
