\* Every fault, three requests of any kind, a pool of one thread.
CONSTANTS
  r1 = r1
  r2 = r2
  r3 = r3
  Requests = {r1, r2, r3}
  PoolSize = 1
  Faults = {"disconnect", "panic", "restart"}
SPECIFICATION FairSpec
INVARIANTS
  GaugeAccounts
  DoneAccounts
PROPERTIES
  EveryRequestEnds
CHECK_DEADLOCK FALSE
