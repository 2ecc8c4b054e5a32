SPECIFICATION RateSpec
CONSTANTS
  Windows = {0, 1, 4, 5}
  Sizes = {0, 1, 3}
  Minute = 7
  Second = 2
  Epoch = 4
  Starts = {0, 1, 2}
  MaxTime = 11
  MaxBurst = 1
INVARIANTS
  NothingStale
  KeepsRecent
  RateBounded
