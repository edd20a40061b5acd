CONSTANTS
  Server = {s1, s2}
  Cmd = {c1}
  ZERO = ZERO
  UINT64_MAX = 99
  Space = {0, 99}
  PowerLoss = FALSE
  LatePrevotes = FALSE
  MaxTerm = 2
  MaxLog = 4
  MaxChan = 2
  MaxTimeouts = 0
  MaxPings = 0
  MaxCrashes = 0
  MaxDisconnects = 0
  MaxSnapshots = 0
SYMMETRY Symmetry
SPECIFICATION ElectedSpec
CHECK_DEADLOCK FALSE
INVARIANT AcknowledgedIsWritten
