SPECIFICATION SpecBoth
CONSTANTS
  Users = {alice, bob}
  Sessions = {s1, s2}
  MaxChats = 2
  MaxTime = 5
SYMMETRY Symmetry
INVARIANTS
  TypeOK
  OneDirectChatApart
  UnreadIsUnseenApart
PROPERTY
  StatusAdvances
