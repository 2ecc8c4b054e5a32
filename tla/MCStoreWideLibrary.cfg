SPECIFICATION Spec
CONSTANTS
  Item <- MCItem
  HashWord = 16
  Fnv64a <- MCFnv64a
  Fnv64 <- MCFnv64
  Uint32 = 8
  MValues = {5, 8, 9}
  KValues = {2}
  DefaultK = 2
  CLI = FALSE
  PowerFails = FALSE
  MaxRecords = 3
INVARIANT NothingInvented
