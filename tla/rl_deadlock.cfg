SPECIFICATION Spec
CONSTANTS
  User = {u1, u2, u3}
  File = {1}
  Id = {1, 2}
  Fvar <- MCFvarA
  FileOf <- MCFileOf
  NonTxn <- MCNonTxn
  NumLocks = 2
  HashOf <- MCCollide
  Deadlock = TRUE
  Ops = {}
  MaxTxn = 0
  MaxWait = 2
  MaxLLT = 2
  None = None
SYMMETRY Symmetry
INVARIANTS RecordExclusion WaitsAcyclic
