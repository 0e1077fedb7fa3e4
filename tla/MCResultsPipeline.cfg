\* Two suites of a long and a short scenario, or two HPA experiments, each stopped or failing
\* anywhere, and the programs that draw the results.
CONSTANTS
  NoFile = NoFile
  None = None
  CutLine = CutLine
  Unreadable = Unreadable
  Torn = Torn
  NaN = NaN
  Policies <- MCPolicies
  Scenarios <- MCScenarios
  K6Loads <- MCLoads
  PromReads <- MCReads
  RecoveryTimes = {1}
  ConfigureSeconds = {5}
  HpaRuns = {1, 2}
  MaxReplicas = 3
  Latencies = {1}
  MaxTime = 10
  MaxLines = 2
  MaxSamples = 2
  Plans <- MCPlans
  Pods = NoFile
SPECIFICATION Spec
INVARIANTS
  StaleOnlyIfFailed
  FiguresAgree
  TableAgrees
  RaisesOnlyOnTorn
  ForeignRatesAreListed
  LeftOnlyIfStoppedEarly
  MarkersAccounted
  RightOfMarkerIsAfter
  BinsCover
CHECK_DEADLOCK FALSE
