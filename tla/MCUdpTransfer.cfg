\* Clients in sequence and at once, a buffer of two datagrams.
CONSTANTS
  c1 = c1
  c2 = c2
  c3 = c3
  Clients = {c1, c2, c3}
  Blocks <- MCBlocks
  BufferLimit = 2
  Faults = {"abort", "io"}
SPECIFICATION FairSpec
INVARIANTS
  Conserved
  HarnessReport
PROPERTIES
  OkIsReported
CHECK_DEADLOCK FALSE
