CONSTANTS
  QueueCapacity = 2
  Capacity = 3
  TableSize = 8
  Keys = {0, 1, 2}
  Values <- MCValues
  Hash <- MCHash
  SizeMod = 1
  MaxRequests = 8
  cache_capacity = 3
  num_ops = 5
SPECIFICATION BenchmarkSpec
PROPERTIES BenchmarkEnds
