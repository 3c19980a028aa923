CONSTANTS
  Conns = {4, 5, 6}
  Capacity = 2
  Files = {"f"}
  MaxCopies = 1
  Chunk = 1
  Users = {"al"}
  Garbled = "al/exit"
  Procs = {"p", "q"}
  UserOf <- SameUser
  Original <- OnlyFirst
  SizeOf <- OneUnit
  Slow = FALSE
  Mortal = {}
  Typed = {}
SPECIFICATION FairSpec
PROPERTIES
  NotifiedIsFetched
