SPECIFICATION Spec
CONSTANTS
  User = {u1, u2}
  File = {1}
  Id = {1}
  Fvar <- MCFvarAB
  FileOf <- MCFileOf
  NonTxn <- MCNonTxn
  NumLocks = 2
  HashOf <- MCCollide
  Deadlock = TRUE
  Ops = {"txn", "admin", "quit"}
  MaxTxn = 1
  MaxWait = 1
  MaxLLT = 3
  None = None
SYMMETRY Symmetry
INVARIANTS TypeOK LLTCovers NothingLeftAtPrompt DeadlockNoticed
