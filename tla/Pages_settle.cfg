SPECIFICATION SpecMC
CONSTANTS
  p1 = p1
  p2 = p2
  People <- Everyone
  Tied <- MCTied
  Match <- MCMatch
  Queries = {1, 2}
  NoQuery = NoQuery
  Nobody = Nobody
  MaxRequests = 2
  MaxInFlight = 2
  MaxEvents = 2
  Deals = {d1, d2}
  NoDeal = NoDeal
  MaxMoves = 3
  Persons = {p1, p2}
  Self = Self
  NoOne = NoOne
  MaxGestures = 4
  Accounts = {a1, a2}
  Guest = Guest
  MaxTries = 3
  Items = {1, 2, 3}
  CardNames = {"known", "free"}
  Fits <- MCFits
  Closed = Closed
  New = New
  MaxDeeds = 2
INVARIANTS
  SettledLists
  RowsFollow
  NothingStuck
  SettledHandoffs
  PanelShowsSelected
  ProfileIsOfSession
  SettledCards
PROPERTY
  AddsInPlaceOfNone
CHECK_DEADLOCK FALSE
