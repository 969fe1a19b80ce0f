SPECIFICATION Spec
CONSTANTS
  User = {1, 2}
  Rec = {r1, r2}
  Val = {a}
  Fvar = {1}
  Ops = {"execnest"}
  MaxTxn = 3
  MaxDepth <- MCTwoForOne
  MaxLevel <- MCTwoForOne
  Absent = Absent
  Untouched = Untouched
  None = None
SYMMETRY Symmetry
INVARIANTS CachedUpdatesLocked LockedReadsAgree NoTxnOutlivesCommand
PROPERTIES ImplementsTransactions
