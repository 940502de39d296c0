\* The user exits at any time.
SPECIFICATION LifecycleSpec
CONSTANTS
  Url <- OneSvn
  GitUrl <- NoGit
  MaxRev = 3
  NumLogs = 3
  GitLimit = 3
  MaxEntries = 3
  Hash <- BackwardHashes
  Ignored <- NothingIgnored
  Worker = {w1}
  UiOps <- NoUiOps
  Faults <- NoFaults
  InitHead = 1
  MaxUserOps = 0
  Ends <- ExitOnly
  MaxRestarts = 1
INVARIANTS
  DiskSkipsNoCommit
CHECK_DEADLOCK FALSE
