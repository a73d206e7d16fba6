CONSTANTS
  Ptys = {p1, p2}
  Shorts = {s1, s2}
  Longs = {}
  ChannelCap = 4
  SftpReserved = 2
  MaxLongLived = 1
SYMMETRY Symmetry
SPECIFICATION Spec
INVARIANTS BudgetRespected WorkConserving AnsweredOnce
