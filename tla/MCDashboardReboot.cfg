CONSTANTS
  Strings = {"a", "b", "c"}
  Empty = ""
  Number <- MCNumber
  Decimal <- MCDecimal
  CounterMod = 16
  possibleKeys <- MCOneKey
  SimValues = {"a"}
  MaxCalls = 4
  UserRequests <- MCOnePut
  BootCapacities = {1}
  SimOps = {1}
  NoAnswer = NoAnswer
SPECIFICATION Spec
INVARIANTS NormalModeUnderneath
CHECK_DEADLOCK FALSE
