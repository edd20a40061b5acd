CONSTANTS
  Server = {s1, s2, s3}
  Cmd = {c1}
  ZERO = ZERO
  UINT64_MAX = 99
  Space = {99}
  PowerLoss = FALSE
  LatePrevotes = FALSE
  MaxTerm = 3
  MaxLog = 6
  MaxChan = 2
  MaxTimeouts = 1
  MaxPings = 0
  MaxCrashes = 0
  MaxDisconnects = 0
  MaxSnapshots = 1
SYMMETRY Symmetry
SPECIFICATION LaggingSpec
CHECK_DEADLOCK FALSE
INVARIANT DbIsCommitted
INVARIANT FileMatchesMemory
INVARIANT IndexInvariant
PROPERTY NoRollback
