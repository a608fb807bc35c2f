SPECIFICATION Spec
CONSTANTS
  None = None
  n1 = n1
  n2 = n2
  c1 = c1
  c2 = c2
  w1 = w1
  w2 = w2
  Names = {n1, n2}
  Colors = {c1, c2}
  Workspaces = {w1, w2}
  Faults = {"cleanup"}
PROPERTIES FreezeInDoubt
CHECK_DEADLOCK FALSE
