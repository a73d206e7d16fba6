SPECIFICATION Spec
CONSTANTS
  Reads = {}
  Streams = {s1}
  Writes = {w1, w2}
  Stats = {}
  Dirs = {}
  Renames = {}
  MaxRetries = 1
  MaxConnects = 2
  MaxChunks = 1
INVARIANTS NoOrphans AnsweredOnce StreamIsWhole LastWriteWins
PROPERTIES StreamSilenced
SYMMETRY Symmetry
CHECK_DEADLOCK FALSE
