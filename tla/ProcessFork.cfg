SPECIFICATION Spec
CONSTANTS
  NPages = 3
  ExitCodes <- Codes
  MaxTid = 4
  NoCode <- None
INVARIANT ForkTruth
