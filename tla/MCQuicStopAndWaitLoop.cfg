\* The code's five attempts: nothing is lost, but the answers are late.
CONSTANTS
  NumBlocks = 2
  MaxAttempts = 5
  Faults = {"late"}
SPECIFICATION FairSpec
INVARIANTS
  LoopReturns
CHECK_DEADLOCK FALSE
