SPECIFICATION FairLocksSpec
CONSTANTS
  f = f
  g = g
  h = h
  t1 = t1
  t2 = t2
  t3 = t3
  None = None
  Filters <- MCFilters
  Thread <- MCThread
  Merges <- MCMerges
INVARIANTS
  Exclusive
  OnlyRingsBlock
PROPERTY MergesReturn
\* A ring of merges stops the program for good.
CHECK_DEADLOCK FALSE
