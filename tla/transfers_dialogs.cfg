CONSTANTS
  MaxTransfers = 2
  Paths = {p}
  MaxFiles = 1
  MaxCloses = 0
  MaxBreaks = 0
SPECIFICATION Spec
INVARIANTS HeadIsRunning
CHECK_DEADLOCK FALSE
