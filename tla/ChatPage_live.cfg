SPECIFICATION SpecLive
CONSTANTS
  Chats = {family}
  NoChat = NoChat
  PageSize = 1
  MaxMessages = 2
  MaxLoads = 1
  MaxEvents = 4
  MaxAsks = 2
PROPERTY
  ReadWhileOpen
