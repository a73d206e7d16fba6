CONSTANTS
  MaxTransfers = 2
  Paths = {p}
  MaxFiles = 2
  MaxCloses = 1
  MaxBreaks = 1
SPECIFICATION FairSpec
INVARIANTS TypeOK OneAtATime CompletedIsWhole AskedBeforeOverwrite
PROPERTIES QueueSpec TransfersEnd
CHECK_DEADLOCK FALSE
