SPECIFICATION Spec
CONSTANTS
  Proc = {p1, p2}
  Id = {1, 2}
  Val = {v1, v2}
  HashOf <- MCHash
  MinMod = 2
  MaxMod = 4
  GroupSize = 1
  SplitLoad = 60
  MergeLoad = 40
  Ops = {"read", "write", "delete"}
  None = None
SYMMETRY Symmetry
INVARIANTS RecordsAtHome RecordsOnce LoadCovers
PROPERTIES ImplementsKVStore
