SPECIFICATION Spec
CONSTANTS
  None = None
  p1 = p1
  p2 = p2
  p3 = p3
  t1 = t1
  a1 = a1
  Prompts = {p1, p2}
  TodoEntries = {}
  Entries = {p1, p2}
  SystemEntries = {}
  Autonomous = {}
  Verbs = {"run", "stop"}
  FinalizedLimit = 5
INVARIANTS LiveTurnOwned
CHECK_DEADLOCK FALSE
SYMMETRY CallSymmetry
