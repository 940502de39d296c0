\* The project the user wants checked is removed before it is.
SPECIFICATION FairSpec
CONSTANTS
  Url <- TwoSvn
  GitUrl <- NoGit
  MaxRev = 1
  NumLogs = 3
  GitLimit = 3
  MaxEntries = 3
  Hash <- BackwardHashes
  Ignored <- NothingIgnored
  Worker = {w1}
  UiOps <- CheckAndRemove
  Faults <- NoFaults
  InitHead = 1
  MaxUserOps = 2
PROPERTY
  CommitsAreFound
CHECK_DEADLOCK FALSE
