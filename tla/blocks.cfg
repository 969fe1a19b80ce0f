SPECIFICATION Spec
CHECK_DEADLOCK FALSE
CONSTANTS
  Proc = {p1, p2}
  k1 = k1
  k2 = k2
  k3 = k3
  Key = {k1, k2, k3}
  HashOf <- MCHash
  MinMod = 1
  MaxMod = 2
  MaxBlock = 2
  Space = 2
  Size = {1, 2}
  LargeSize = 1
  Data = {1, 2}
  Ops = {"write", "delete", "resize", "close", "overlap", "full", "fullsplit"}
  None = None
SYMMETRY Symmetry
INVARIANTS GroupsIntact SpaceAccounted FreeOnDisk
