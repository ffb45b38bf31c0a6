SPECIFICATION SpecFaults
CONSTANTS
  Chats = {family, work}
  NoChat = NoChat
  PageSize = 1
  MaxMessages = 2
  MaxLoads = 2
  MaxEvents = 2
  MaxAsks = 1
SYMMETRY Symmetry
INVARIANTS
  TypeOK
  NeverAhead
  ShownOnce
  OnlyActiveChat
  ShowsConversation
