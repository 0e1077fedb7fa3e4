\* Every fault, three blocks, two attempts for each.
CONSTANTS
  NumBlocks = 3
  MaxAttempts = 2
  Faults = {"loss", "late", "conn"}
SPECIFICATION FairSpec
INVARIANTS
  ReportCoversFile
  DuplicatesBounded
  PanicNeedsTimeouts
PROPERTIES
  ImplementsAckedTransfer
  BothEnd
CHECK_DEADLOCK FALSE
