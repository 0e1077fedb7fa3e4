\* No fault but the one the script injects.
CONSTANTS
  Required = 4
  MaxPolls = 2
  Faults = {}
SPECIFICATION FairSpec
INVARIANTS
  RecoveredMeansServing
CHECK_DEADLOCK FALSE
