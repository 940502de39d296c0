\* The user fetches older commits while new ones come in.
SPECIFICATION Spec
CONSTANTS
  Url <- OneSvn
  GitUrl <- NoGit
  MaxRev = 2
  NumLogs = 3
  GitLimit = 3
  MaxEntries = 3
  Hash <- BackwardHashes
  Ignored <- NothingIgnored
  Worker = {w1}
  UiOps <- FetchMore
  Faults <- NoFaults
  InitHead = 1
  MaxUserOps = 1
INVARIANT
  NoCommitSkipped
CHECK_DEADLOCK FALSE
