\* One Subversion project, everything the user does, every failure.
SPECIFICATION Spec
CONSTANTS
  Url <- OneSvn
  GitUrl <- NoGit
  MaxRev = 2
  NumLogs = 2
  GitLimit = 2
  MaxEntries = 1
  Hash <- BackwardHashes
  Ignored <- SecondIgnored
  Worker = {w1}
  UiOps <- AllUiOps
  Faults <- AllFaults
  InitHead = 1
  MaxUserOps = 2
INVARIANTS
  TypeOK
  NewCommitsTurnEyesRed
  LockIsOwned
PROPERTY
  ReadStaysRead
CHECK_DEADLOCK FALSE
