SPECIFICATION Spec
CONSTANTS
  Reads = {r1}
  Streams = {}
  Writes = {w1}
  Stats = {}
  Dirs = {d1}
  Renames = {}
  MaxRetries = 1
  MaxConnects = 1
  MaxChunks = 0
INVARIANTS TypeOK
PROPERTIES FsSpec
CHECK_DEADLOCK FALSE
