CONSTANTS
  Ptys = {p1}
  Shorts = {s1}
  Longs = {l1}
  ChannelCap = 4
  SftpReserved = 2
  MaxLongLived = 1
SPECIFICATION FairSpec
INVARIANTS TypeOK QueuesMatchPhases LossForgetsAll
PROPERTIES PoolSpec ShortServed
