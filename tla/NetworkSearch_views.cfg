SPECIFICATION SpecBounded
CONSTANTS
  Users = {1, 2, 3, 4}
  NoUser = 0
  MaxNodes = 3
INVARIANTS
  TypeOK
  SearchIsReach
  ViewsAgree
  RequestsAgree
  DrawnAsRead
