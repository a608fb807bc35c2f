SPECIFICATION Spec
CONSTANTS
  None = None
  n1 = n1
  n2 = n2
  c1 = c1
  c2 = c2
  w1 = w1
  Names = {n1, n2}
  Colors = {c1, c2}
  Workspaces = {w1}
  JournalLimit = 2
  MaxSeq = 3
  MaxGeneration = 1
  MaxRequests = 2
INVARIANTS ReplicaExact
CHECK_DEADLOCK FALSE
