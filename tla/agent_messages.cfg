SPECIFICATION Spec
CONSTANTS
  None = None
  p1 = p1
  p2 = p2
  p3 = p3
  t1 = t1
  a1 = a1
  Prompts = {p1, p2}
  TodoEntries = {t1}
  Entries = {p1, p2, t1}
  SystemEntries = {t1}
  Autonomous = {a1}
  Verbs = {"run", "interrupt", "queue", "steer", "stop", "oob", "rewind"}
  FinalizedLimit = 1
INVARIANTS TypeOK MessageOnce
PROPERTIES NoOvertaking
CHECK_DEADLOCK FALSE
SYMMETRY CallSymmetry
