SPECIFICATION MCSpec
CONSTANTS
  Agents = {a1, a2}
  Clients = {c1, c2}
  NoClient = NoClient
  MaxTombstones = 1
  Modes = {"full"}
  MaxVersion = 2
  MaxRefreshes = 0
  MaxRestarts = 0
  MaxDrops = 0
  MaxTimeouts = 0
  MaxEvents = 2
INVARIANTS DeletesReachSubscribers
CHECK_DEADLOCK FALSE
SYMMETRY Symmetry
