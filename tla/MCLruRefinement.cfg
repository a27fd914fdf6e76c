CONSTANTS
  Capacity = 2
  TableSize <- MCTableSize
  Keys = {0, 1, 2, 3}
  Values = {0, 1}
  Hash <- MCHash
  SizeMod = 3
SPECIFICATION Spec
PROPERTIES ImplementsLru
