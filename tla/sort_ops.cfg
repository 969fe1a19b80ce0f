SPECIFICATION Spec
CONSTANTS
  Key <- MCKey
  Order <- MCOrder
  HasData = {TRUE}
  Size <- MCSize
  SortMem = {2, 12}
  SortMrg = 2
  MaxAdd = 4
  MaxDepth = 3
  Ops = {"full"}
INVARIANT NothingLeft
PROPERTY ImplementsSortedList
