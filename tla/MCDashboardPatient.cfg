CONSTANTS
  Strings = {"a", "b", "c"}
  Empty = ""
  Number <- MCNumber
  Decimal <- MCDecimal
  CounterMod = 16
  possibleKeys <- MCThreeKeys
  SimValues = {"a"}
  MaxCalls = 4
  UserRequests <- MCOperations
  BootCapacities = {1, 2}
  SimOps = {3}
  NoAnswer = NoAnswer
SPECIFICATION PatientSpec
INVARIANTS HitMissTruth PlaybackTruth ShadowFollows
CHECK_DEADLOCK FALSE
