SPECIFICATION FairSpec
CONSTANTS
  Reads = {}
  Streams = {}
  Writes = {w1}
  Stats = {t1}
  Dirs = {}
  Renames = {n1}
  MaxRetries = 1
  MaxConnects = 1
  MaxChunks = 0
PROPERTIES MetaNeverWaitsForBulk EndAnswersAll
CHECK_DEADLOCK FALSE
