\* Two monitor threads at a time, and a refresh between their steps.
SPECIFICATION Spec
CONSTANTS
  Url <- OneSvn
  GitUrl <- NoGit
  MaxRev = 10
  NumLogs = 2
  GitLimit = 3
  MaxEntries = 2
  Hash <- BackwardHashes
  Ignored <- NinthIgnored
  Worker = {w1, w2}
  UiOps <- Refresh
  Faults <- NoFaults
  InitHead = 9
  MaxUserOps = 1
SYMMETRY Threads
INVARIANTS
  NoCommitSkipped
CHECK_DEADLOCK FALSE
