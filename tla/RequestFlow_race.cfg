SPECIFICATION SpecPath
CONSTANTS
  owner = owner
  asker = asker
  mutual = mutual
  Users = {owner, asker, mutual}
  NoUser = NoUser
  Cards = {card}
  Owner <- MCOwner
  Sessions = {s1, s2}
  MaxRequests = 1
  MaxEvents = 4
  RateLimit = 1
SYMMETRY SessionSymmetry
INVARIANTS
  TypeOK
  StatusIsAudited
PROPERTIES
  ImplementsDisclosure
  DecidedOnce
  CreatedWithinReach
