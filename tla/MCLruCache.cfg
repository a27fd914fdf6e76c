CONSTANTS
  Capacity = 3
  TableSize <- MCTableSize
  Keys = {0, 1, 2, 3}
  Values = {0}
  Hash <- MCHash
  SizeMod = 1
SPECIFICATION Spec
INVARIANTS TypeOK PoolPartition OneSlotPerNode Dense
PROPERTIES NodeReuse
