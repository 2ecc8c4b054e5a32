SPECIFICATION Spec
CONSTANTS
  Item <- MCItem
  HashWord = 16
  Fnv64a <- MCFnv64a
  Fnv64 <- MCFnv64
  Uint = 8
  RequiredBits <- MCRequiredBits
  OptimalK <- MCOptimalK
  MaxInsertions <- MCMaxInsertions
  Tightest = 3
  InitCap = {1, 2, 4}
  GrowthFactor = {0, 1, 4}
  MaxAdds = 11
INVARIANTS
  NoFalseNegatives
  WithinTarget
  LenNeverBelow
CHECK_DEADLOCK FALSE
