\* Two clients, in environments that do anything, or answer in time, or only lose datagrams:
\* safety, refinement, termination and success.
CONSTANTS
  c1 = c1
  c2 = c2
  Clients = {c1, c2}
  Blocks <- MCBlocks
  MaxAttempts = 2
  Environments <- MCEnvironments
  MaxLosses = 1
SPECIFICATION FairSpec
INVARIANTS
  IInv
  OkMeansDelivered
  StatsAccounted
  DatagramsConserved
  LoopReturns
  NoStaleAck
PROPERTIES
  ImplementsAckedTransfer
  EveryTransferEnds
  EveryTransferSucceeds
CHECK_DEADLOCK FALSE
