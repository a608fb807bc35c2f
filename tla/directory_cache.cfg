SPECIFICATION MCSpec
CONSTANTS
  Agents = {a1, a2}
  Clients = {c1}
  NoClient = NoClient
  MaxTombstones = 1
  Modes = {"full", "route"}
  MaxVersion = 2
  MaxRefreshes = 0
  MaxRestarts = 0
  MaxDrops = 1
  MaxTimeouts = 0
  MaxEvents = 4
PROPERTIES CacheStaysBelow
CHECK_DEADLOCK FALSE
SYMMETRY Symmetry
