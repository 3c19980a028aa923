CONSTANTS
  FileSize = 2
  MaxDataSize = 2
  HalfInt = 2
  Capacity = 2
  Reorder = TRUE
  Variant = "alarm"
  MaxSyn = 5
  MaxCrashes = 1
SPECIFICATION FairSpec
PROPERTIES
  Termination
