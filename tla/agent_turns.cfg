SPECIFICATION Spec
CONSTANTS
  None = None
  p1 = p1
  p2 = p2
  p3 = p3
  t1 = t1
  a1 = a1
  Prompts = {p1, p2, p3}
  TodoEntries = {}
  Entries = {p1, p2, p3}
  SystemEntries = {}
  Autonomous = {}
  Verbs = {"run", "interrupt", "queue", "steer", "stop"}
  FinalizedLimit = 1
INVARIANTS TurnOwnsSlot CurrentTurnEnds ReplacementBusy HandoffWaits
PROPERTIES SteerHoldsTurn CancelEndsItsTurn ReplacementHandedOn
CHECK_DEADLOCK FALSE
SYMMETRY CallSymmetry
