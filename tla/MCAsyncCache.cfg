CONSTANTS
  QueueCapacity = 1
  Capacity = 1
  TableSize <- MCTableSize
  Keys = {0, 1}
  Values <- MCValues
  Hash <- MCHash
  SizeMod = 1
  MaxRequests = 4
SPECIFICATION FairSpec
INVARIANTS TypeOK NoAnswerLost
PROPERTIES ShutdownTerminates
