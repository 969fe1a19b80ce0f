SPECIFICATION Spec
CONSTANTS
  Proc = {p1, p2}
  Id = {1, 2}
  Val = {v1}
  HashOf <- MCHash
  MinMod = 1
  MaxMod = 2
  GroupSize = 1
  SplitLoad = 80
  MergeLoad = 50
  Ops = {"write", "delete", "select", "readlist", "quit"}
  None = None
SYMMETRY Symmetry
INVARIANTS InhibitExact SelectExact
