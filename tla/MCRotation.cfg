SPECIFICATION FairSpec
CONSTANTS
  l1 = l1
  l2 = l2
  c1 = c1
  NoOne = NoOne
  NoSnapshot = NoSnapshot
  Item <- MCOneItem
  HashWord = 16
  Fnv64a <- MCFnv64a
  Fnv64 <- MCFnv64
  N = 2
  M = 2
  K = 2
  Strategies = {"RoundRobin", "Saturation"}
  Limit = 2
  Loop <- MCTwoLoops
  Client <- MCOneClient
  MaxRotations = 2
INVARIANTS
  RoundRobinOrder
  EverythingExpires
  Present
PROPERTIES OnlySaturatedReset StopEndsLoops CallsReturn
