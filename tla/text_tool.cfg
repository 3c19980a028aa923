CONSTANTS
  Chars = {" ", "a", "b", "reverse", "split", "exit"}
  Delims <- SomeDelims
  Files <- OneLine
  Inputs <- Splits
SPECIFICATION FairSpec
INVARIANTS
  TypeOK
  PrintsAsExpected
PROPERTIES
  SplitIsLeftToRight
  Termination
