SPECIFICATION FairSpec
CONSTANTS
  NPages = 3
  ExitCodes <- Codes
  MaxTid = 4
  NoCode <- None
INVARIANTS NoStalePtr ForkHandover
PROPERTIES ImplementsTable CallsReturn
