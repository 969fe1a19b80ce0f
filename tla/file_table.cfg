SPECIFICATION Spec
CONSTANTS
  Proc = {p1, p2}
  File = {f1, f2}
  MaxCell = 1
  MaxSlot = 2
  MaxChange <- MCOnce
  MaxMap <- MCOnce
  Changing = {f1, f2}
  CacheSize = 2
  Ops = {"die"}
  None = None
SYMMETRY Symmetry
INVARIANTS RefsExact MapExact HeaderCurrent IndicesKnown CacheCurrent
