CONSTANTS
  Strings = {"0", "1", "01", "2"}
  Empty = ""
  Number <- MCNumber
  Decimal <- MCDecimal
  Capacities = {1, 2}
  CounterMod = 1
  NoCache = NoCache
SPECIFICATION Spec
INVARIANTS TypeOK ShownStringsReach
CHECK_DEADLOCK FALSE
