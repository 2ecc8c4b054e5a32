SPECIFICATION SharedSpec
CONSTANTS
  p1 = p1
  p2 = p2
  p3 = p3
  Process <- MCProcess
  Item <- MCItem
  HashWord = 16
  Fnv64a <- MCFnv64a
  Fnv64 <- MCFnv64
  Uint32 = 8
  Ms = {4, 5}
  Ks = {1}
  DefaultK = 2
  ItemSize <- MCItemSize
  CheckpointSize = 4
  MaxCommands = 3
SYMMETRY MCSymmetry
INVARIANTS
  SoloSurvive
  AloneAtEnd
PROPERTY LoneAppends
\* The commands come to an end.
CHECK_DEADLOCK FALSE
