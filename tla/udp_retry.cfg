CONSTANTS
  FileSize = 5
  MaxDataSize = 2
  HalfInt = 2
  Capacity = 3
  Reorder = FALSE
  Variant = "select"
  MaxSyn = 5
  MaxCrashes = 0
SPECIFICATION Spec
INVARIANT
  EveryFinishIsComplete
