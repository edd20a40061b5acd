CONSTANTS
  Server = {s1, s2, s3}
  Cmd = {}
  ZERO = ZERO
  UINT64_MAX = 99
  Space = {99}
  PowerLoss = FALSE
  LatePrevotes = FALSE
  MaxTerm = 6
  MaxLog = 5
  MaxChan = 2
  MaxTimeouts = 1
  MaxPings = 0
  MaxCrashes = 0
  MaxDisconnects = 0
  MaxSnapshots = 0
SYMMETRY Symmetry
SPECIFICATION StaleSpec
CHECK_DEADLOCK FALSE
INVARIANT LogMatching
INVARIANT StateMachineSafety
INVARIANT LeaderCompleteness
