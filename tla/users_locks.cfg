SPECIFICATION Spec
CHECK_DEADLOCK FALSE
CONSTANTS
  User = {1, 2}
  Group = {0, 1, 2, 3, 4}
  HeaderOf <- MCHeaderOf
  HashOf <- MCHashOf
  MaxAsk <- MCTwoAsks
  None = None
  Task = {t1}
  Ops = {"die"}
  MaxRaise = 0
INVARIANTS GroupExclusion TableExact
PROPERTIES WaitersServed
