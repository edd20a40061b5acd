CONSTANTS
  Server = {s1, s2}
  Cmd = {c1, c2}
  ZERO = ZERO
  UINT64_MAX = 99
  Space = {99}
  PowerLoss = FALSE
  LatePrevotes = FALSE
  MaxTerm = 3
  MaxLog = 5
  MaxChan = 2
  MaxTimeouts = 1
  MaxPings = 1
  MaxCrashes = 0
  MaxDisconnects = 0
  MaxSnapshots = 0
SYMMETRY Symmetry
SPECIFICATION ElectedSpec
CHECK_DEADLOCK FALSE
INVARIANT PrereqHolds
INVARIANT SuccessIsCommitted
INVARIANT RefusedIsNotCommitted
INVARIANT OneOutcome
 
