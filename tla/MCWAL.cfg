SPECIFICATION Spec
CONSTANTS
  p = p
  q = q
  Payload <- MCPayload
  BufferSize = 2
  TornWrites = TRUE
  MaxSeq = 4
  MaxFile = 5
SYMMETRY MCSymmetry
INVARIANTS
  SameSeqSameEntry
  NoGaps
  BufferContinuesLog
  FlushedSurvive
PROPERTY ImplementsDurableLog
