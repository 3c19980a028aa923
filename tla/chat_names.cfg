CONSTANTS
  Fds = {4, 5}
  MaxQueue = 1
  ValidNames = {"al", "anonymouse"}
  Garbled = "albo"
  Segments <- NameSegments
  ReadMax = 2
  MaxPending = 1
SPECIFICATION Spec
INVARIANTS
  TypeOK
  UniqueNames
  TellReachesHolder
  ClientsAreOpen
  Inv
PROPERTIES
  NoSpuriousDisconnect
  ImplementsChatRoom
