\* A file of four blocks, queues of two and three datagrams, every fault.
CONSTANTS
  NumBlocks = 4
  SendLimit = 2
  ReadLimit = 3
  Faults = {"loss", "size", "conn"}
SPECIFICATION FairSpec
INVARIANTS
  ShortByLostAndOvertaken
  SilentOnlyIfBothLost
PROPERTIES
  BothEnd
CHECK_DEADLOCK FALSE
