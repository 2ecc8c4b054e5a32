SPECIFICATION Spec
CONSTANTS
  p1 = p1
  p2 = p2
  p3 = p3
  Process <- MCProcess
  Item <- MCItem
  HashWord = 16
  Uint32 = 8
  Fnv64a <- MCFnv64a
  Fnv64 <- MCFnv64
  DefaultM = 4
  DefaultK = 2
  Legacy <- MCLegacy
SYMMETRY MCSymmetry
INVARIANTS
  SameShape
  SoloSurvive
\* No add gets past a damaged file.
CHECK_DEADLOCK FALSE
