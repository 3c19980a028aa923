CONSTANTS
  Fds = {4}
  MaxQueue = 2
  ValidNames = {"al", "alname"}
  Garbled = "alname"
  Segments <- CommandSegments
  ReadMax = 2
  MaxPending = 1
SPECIFICATION FairSpec
PROPERTIES
  EveryLineIsRead
  QuietLeaverIsRemoved
INVARIANT
  UnreadIsDue
