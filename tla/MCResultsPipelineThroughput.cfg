\* One suite of the steady scenario and the figures of the paper.
CONSTANTS
  NoFile = NoFile
  None = None
  CutLine = CutLine
  Unreadable = Unreadable
  Torn = Torn
  NaN = NaN
  Policies <- MCPolicies
  Scenarios <- MCSteady
  K6Loads <- MCLoads
  PromReads <- MCReads
  RecoveryTimes = {1}
  ConfigureSeconds = {5}
  HpaRuns = {1}
  MaxReplicas = 2
  Latencies = {1}
  MaxTime = 0
  MaxLines = 0
  MaxSamples = 0
  Plans <- MCPaper
  Pods = NoFile
SPECIFICATION Spec
INVARIANTS
  ThroughputIsPerScenario
CHECK_DEADLOCK FALSE
