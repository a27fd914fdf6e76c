CONSTANTS
  Strings = {"a", "b", "c"}
  Empty = ""
  Number <- MCNumber
  Decimal <- MCDecimal
  CounterMod = 16
  possibleKeys <- MCOneKey
  SimValues = {"a"}
  MaxCalls = 4
  UserRequests <- MCOnePut
  BootCapacities = {1}
  SimOps = {1}
  NoAnswer = NoAnswer
SPECIFICATION UsersSpec
INVARIANTS TypeOK ScreenIsServer
PROPERTIES AutoPlayEnds ExitKeepsCapacity
CHECK_DEADLOCK FALSE
