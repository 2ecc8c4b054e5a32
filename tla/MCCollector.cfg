SPECIFICATION Spec
CONSTANTS
  t1 = t1
  t2 = t2
  NoOne = NoOne
  Thread <- MCThread
  MaxHist = 2
  Recorded <- MCRecorded
  Others <- MCAnyCall
  MaxCalls = 5
SYMMETRY MCSymmetry
INVARIANTS
  OutcomesFollowTests
  ExcessBounded
  UndercountBounded
  HistoryBounded
  FewStaleSnapshots
\* A program may stop calling: MaxCalls.
CHECK_DEADLOCK FALSE
