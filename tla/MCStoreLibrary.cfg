SPECIFICATION Spec
CONSTANTS
  Item <- MCItem
  HashWord = 16
  Fnv64a <- MCFnv64a
  Fnv64 <- MCFnv64
  Uint32 = 8
  MValues = {4, 5}
  KValues = {2, 3}
  DefaultK = 2
  CLI = FALSE
  PowerFails = TRUE
  MaxRecords = 4
INVARIANTS
  FileInv
  ValidPrefixRecovered
