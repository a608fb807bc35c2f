SPECIFICATION MCFairSpec
CONSTANTS
  p1 = p1
  p2 = p2
  p3 = p3
  Nobody = Nobody
  Procs = {p1,p2}
  Patient = {p2}
  Desktop = {p1}
  MaxStarts = 2
  MaxTotal = 3
INVARIANT OneDaemonUnlessBlind
PROPERTIES TwoBecomeOne LoneStartSucceeds StartsSettle
CHECK_DEADLOCK FALSE
