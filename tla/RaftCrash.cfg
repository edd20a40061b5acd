CONSTANTS
  Server = {s1, s2}
  Cmd = {c1}
  ZERO = ZERO
  UINT64_MAX = 99
  Space = {0, 99}
  PowerLoss = TRUE
  LatePrevotes = FALSE
  MaxTerm = 3
  MaxLog = 3
  MaxChan = 2
  MaxTimeouts = 2
  MaxPings = 0
  MaxCrashes = 1
  MaxDisconnects = 1
  MaxSnapshots = 0
SYMMETRY Symmetry
SPECIFICATION Spec
CHECK_DEADLOCK FALSE
INVARIANT TypeOK
INVARIANT OneVotePerTerm
INVARIANT VotesAreDurable
