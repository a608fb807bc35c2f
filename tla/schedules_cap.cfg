SPECIFICATION MCSpec
CONSTANTS
  Count = 2
  Targets <- TargetsOf
  Every <- EveryOne
  MaxRuns <- MaxRunsOf
  ExpiresAt <- ExpiryOf
  Ticks = {t1, t2}
  Manual = {m}
  RunOnCreate = {TRUE}
  Cap = 1
  MaxTotal = 1
  Retained = 0
  MaxTime = 2
  MaxEdits = 1
  MaxManual = 1
  MaxCrashes = 1
  FirstTargets = {"keep","workflow"}
  OtherTargets = {"agent"}
  FirstMaxRuns = 1
  OtherExpiry = 2
CHECK_DEADLOCK FALSE
INVARIANT CapHolds
