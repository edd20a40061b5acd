CONSTANTS
  Server = {s1, s2}
  Cmd = {c1, c2}
  ZERO = ZERO
  UINT64_MAX = 99
  Space = {99}
  PowerLoss = FALSE
  LatePrevotes = FALSE
  MaxTerm = 2
  MaxLog = 5
  MaxChan = 6
  MaxTimeouts = 0
  MaxPings = 0
  MaxCrashes = 0
  MaxDisconnects = 0
  MaxSnapshots = 0
SPECIFICATION ElectedFairSpec
CHECK_DEADLOCK FALSE
PROPERTY CommandsComplete
PROPERTY DataSpreads
