CONSTANTS
  Conns = {4, 5, 6}
  Capacity = 2
  Files = {"f"}
  MaxCopies = 0
  Chunk = 1
  Users = {"al"}
  Garbled = "al/exit"
  Procs = {"p", "q"}
  UserOf <- SameUser
  Original <- OnlyFirst
  SizeOf <- FourUnits
  Slow = FALSE
  Mortal = {"q"}
  Typed = {"exit"}
SPECIFICATION FairSpec
INVARIANTS
  FreshDescriptors
  NoticesAreTrue
  UploadArrives
  DownloadIsPrefix
  QuickInv
PROPERTIES
  TransfersEnd
  UploadIsShared
