SPECIFICATION MCSpec
CONSTANTS
  p1 = p1
  p2 = p2
  p3 = p3
  Nobody = Nobody
  Procs = {p1,p2}
  Patient = {p2}
  Desktop = {}
  MaxStarts = 2
  MaxTotal = 3
INVARIANTS OneDaemon
CHECK_DEADLOCK FALSE
