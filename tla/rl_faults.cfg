SPECIFICATION Spec
CONSTANTS
  User = {u1, u2}
  File = {1}
  Id = {1, 2}
  Fvar <- MCFvarA
  FileOf <- MCFileOf
  NonTxn <- MCNonTxn
  NumLocks = 2
  HashOf <- MCSpread
  Deadlock = TRUE
  Ops = {"filelock", "clear", "trigger", "quit", "die"}
  MaxTxn = 0
  MaxWait = 1
  MaxLLT = 2
  None = None
SYMMETRY Symmetry
CHECK_DEADLOCK FALSE
INVARIANTS CountsExact WaitersCover FileLockExclusion
PROPERTIES ImplementsLockService
