CONSTANTS
  FileSize = 5
  MaxDataSize = 2
  HalfInt = 2
  Capacity = 3
  Reorder = FALSE
  Variant = "select"
  MaxSyn = 5
  MaxCrashes = 2
SPECIFICATION FairSpec
INVARIANTS
  TypeOK
  InOrder
  CompleteWhenFinished
  NeverAhead
  WaitHasTimer
  OnlyNameIsMarked
  Inv
PROPERTIES
  FinishedFileIsStable
  ImplementsFileCopy
  Termination
