SPECIFICATION Spec
CONSTANTS
  Item <- MCItem
  HashWord = 16
  Fnv64a <- MCFnv64a
  Fnv64 <- MCFnv64
  Uint32 = 8
  MValues = {4, 5}
  KValues = {2, 3}
  DefaultK = 2
  CLI = TRUE
  PowerFails = FALSE
  MaxRecords = 4
INVARIANTS
  TypeOK
  StopInv
  AckedSurvive
  ReopenMatchesMemory
PROPERTY ImplementsDurableSet
\* A process that dies in Create leaves a file nothing can be done with.
CHECK_DEADLOCK FALSE
