SPECIFICATION Spec
CONSTANTS
  Reads = {r1}
  Streams = {}
  Writes = {w1}
  Stats = {}
  Dirs = {}
  Renames = {}
  MaxRetries = 0
  MaxConnects = 1
  MaxChunks = 0
INVARIANTS OthersKeepTheirHandle
CHECK_DEADLOCK FALSE
