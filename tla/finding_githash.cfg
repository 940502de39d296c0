\* The log request of a Git project fails.
SPECIFICATION Spec
CONSTANTS
  Url <- OneGit
  GitUrl <- OneGit
  MaxRev = 2
  NumLogs = 3
  GitLimit = 3
  MaxEntries = 3
  Hash <- BackwardHashes
  Ignored <- NothingIgnored
  Worker = {w1}
  UiOps <- NoFaults
  Faults <- LogFault
  InitHead = 1
  MaxUserOps = 0
INVARIANT
  HashIsFetched
CHECK_DEADLOCK FALSE
