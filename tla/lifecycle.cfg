\* Every end, with a save by the user at any time, and a restart.
SPECIFICATION LifecycleFairSpec
CONSTANTS
  Url <- OneSvn
  GitUrl <- NoGit
  MaxRev = 3
  NumLogs = 3
  GitLimit = 3
  MaxEntries = 2
  Hash <- BackwardHashes
  Ignored <- NothingIgnored
  Worker = {w1}
  UiOps <- MarkRead
  Faults <- ComFault
  InitHead = 1
  MaxUserOps = 1
  Ends <- AllEnds
  MaxRestarts = 1
INVARIANTS
  ReturnIsClean
  QuietSaveSkipsNoCommit
  QuietStartSkipsNoCommit
PROPERTY
  EndsAtLast
CHECK_DEADLOCK FALSE
