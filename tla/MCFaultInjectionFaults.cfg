\* Four pods or three, lingering or not, commands and signals.
CONSTANTS
  Required = 4
  MaxPolls = 2
  Faults = {"command", "signal"}
SPECIFICATION FairSpec
INVARIANTS
  RecoveredIfGone
  ScaledDownTimesOut
  LeftOnlyInGaps
PROPERTIES
  ScriptEnds
CHECK_DEADLOCK FALSE
