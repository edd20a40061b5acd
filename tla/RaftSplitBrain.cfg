CONSTANTS
  Server = {s1, s2, s3}
  Cmd = {}
  ZERO = ZERO
  UINT64_MAX = 99
  Space = {99}
  PowerLoss = FALSE
  LatePrevotes = TRUE
  MaxTerm = 2
  MaxLog = 3
  MaxChan = 2
  MaxTimeouts = 2
  MaxPings = 0
  MaxCrashes = 0
  MaxDisconnects = 0
  MaxSnapshots = 0
SYMMETRY Symmetry
SPECIFICATION Spec
CHECK_DEADLOCK FALSE
INVARIANT ElectionSafety
