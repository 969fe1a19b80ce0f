SPECIFICATION Spec
CHECK_DEADLOCK FALSE
CONSTANTS
  User = {1, 2}
  Group = {0}
  HeaderOf <- MCHeaderOf
  HashOf <- MCHashOf
  MaxAsk <- MCOneAsk
  None = None
  Task = {t1}
  Ops = {"die"}
  MaxRaise = 2
INVARIANTS TaskLocksLive
PROPERTIES DoomedEnd MessagesShown
