\* Files of up to five bytes in blocks of up to three, two-digit headers.
CONSTANTS
  MaxFile = 5
  MaxBlock = 3
  Base = 2
  HeaderBytes = 2
  Window = 3
  Faults = {"kill", "reset"}
SPECIFICATION FairSpec
INVARIANTS
  InStep
  ReportIsWhole
PROPERTIES
  OkIsReceived
  BothEnd
CHECK_DEADLOCK FALSE
