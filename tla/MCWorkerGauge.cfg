\* Clients that go away and no other fault: the gauge as its help text describes it.
CONSTANTS
  r1 = r1
  r2 = r2
  r3 = r3
  Requests = {r1, r2, r3}
  PoolSize = 1
  Faults = {"disconnect"}
SPECIFICATION Spec
INVARIANTS
  GaugeIsInFlight
CHECK_DEADLOCK FALSE
