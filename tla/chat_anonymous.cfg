CONSTANTS
  Fds = {4, 5}
  MaxQueue = 1
  ValidNames = {"al", "bo"}
  Garbled = "albo"
  Segments <- RenameSegments
  ReadMax = 2
  MaxPending = 1
SPECIFICATION Spec
INVARIANT AnonymousCannotTell
