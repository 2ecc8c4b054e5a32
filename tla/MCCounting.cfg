SPECIFICATION Spec
CONSTANTS
  f1 = f1
  f2 = f2
  CF <- MCCF
  Item <- MCDistinctItem
  HashWord = 16
  Fnv64a <- MCFnv64a
  Fnv64 <- MCFnv64
  M = 4
  K = 2
  CounterBits = 2
  MaxInt32 = 4
  MaxItems = 6
SYMMETRY MCSymmetry
INVARIANTS
  ExactCounters
  NeverOvercounts
