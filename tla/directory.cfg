SPECIFICATION MCLiveSpec
CONSTANTS
  Agents = {a1, a2}
  Clients = {c1}
  NoClient = NoClient
  MaxTombstones = 1
  Modes = {"full", "route"}
  MaxVersion = 2
  MaxRefreshes = 1
  MaxRestarts = 1
  MaxDrops = 1
  MaxTimeouts = 1
  MaxEvents = 3
INVARIANTS RefreshIsCurrent
PROPERTIES NeverGoesBack BecomesCurrent
CHECK_DEADLOCK FALSE
