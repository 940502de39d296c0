\* A failed connection is reported while the user has a project checked.
SPECIFICATION Spec
CONSTANTS
  Url <- OneSvn
  GitUrl <- NoGit
  MaxRev = 2
  NumLogs = 3
  GitLimit = 3
  MaxEntries = 3
  Hash <- BackwardHashes
  Ignored <- NothingIgnored
  Worker = {w1}
  UiOps <- CheckOne
  Faults <- ConnectFault
  InitHead = 1
  MaxUserOps = 1
INVARIANT
  NoDeadlock
CHECK_DEADLOCK FALSE
