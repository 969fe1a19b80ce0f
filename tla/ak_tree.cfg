SPECIFICATION Spec
CONSTANTS
  Key = {1, 2, 3, 4, 5, 6, 7, 8, 9, 10, 11}
  Sizes <- MCSizes
  Space = 2
  MaxChild = 5
  Loads <- MCLoads
  MaxUpdate = 3
  Ops = {}
INVARIANTS LookupExact ChainMatches NodesAccounted
PROPERTY ImplementsOrderedIndex
