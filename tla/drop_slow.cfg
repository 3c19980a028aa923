CONSTANTS
  Conns = {4, 5, 6}
  Capacity = 2
  Files = {"f"}
  MaxCopies = 0
  Chunk = 1
  Users = {"al", "bo"}
  Garbled = "al/exit"
  Procs = {"p", "q", "r"}
  UserOf <- TwoUsers
  Original <- OnlyFirst
  SizeOf <- TwoUnits
  Slow = TRUE
  Mortal = {"p"}
  Typed = {"sleep"}
SPECIFICATION Spec
INVARIANTS
  Inv
  NobodyWaitsInVain
  ClientsGetTheirOwn
