SPECIFICATION MCSpec
CONSTANTS
  Ids = {i1, i2, i3}
  Values = {v1, v2}
  None = None
  MaxTombstones = 1
  MaxSeq = 5
  MaxGeneration = 2
SYMMETRY Symmetry
INVARIANT AnswerIsExact
CHECK_DEADLOCK FALSE
