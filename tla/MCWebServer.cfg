CONSTANTS
  Strings = {"0", "1", "01"}
  Number <- MCNumber
  Decimal <- MCDecimal
  CounterMod = 1
  Empty = ""
  Clients = {c1, c2, c3}
  Nobody = Nobody
  Backlog = 1
  Requests <- MCRequests
  Nothing = Nothing
SPECIFICATION Spec
INVARIANTS TypeOK ShownKeysReach
PROPERTIES Served
