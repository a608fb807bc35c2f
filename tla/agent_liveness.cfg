SPECIFICATION MCFairSpec
CONSTANTS
  None = None
  p1 = p1
  p2 = p2
  p3 = p3
  t1 = t1
  a1 = a1
  Prompts = {p1, p2, p3}
  TodoEntries = {t1}
  Entries = {p1, p2, p3, t1}
  SystemEntries = {t1}
  Autonomous = {}
  Verbs = {"interrupt", "queue", "steer", "stop"}
  FinalizedLimit = 1
PROPERTIES CallsReturn HandoffsEnd ComesToRest
CHECK_DEADLOCK FALSE

