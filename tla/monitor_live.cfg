\* A Subversion and a Git project, of which the user has one checked now.
SPECIFICATION FairSpec
CONSTANTS
  Url <- SvnAndGit
  GitUrl <- OneGit
  MaxRev = 2
  NumLogs = 2
  GitLimit = 2
  MaxEntries = 3
  Hash <- BackwardHashes
  Ignored <- SecondIgnored
  Worker = {w1}
  UiOps <- CheckOne
  Faults <- FetchFault
  InitHead = 1
  MaxUserOps = 1
INVARIANTS
  HashIsFetched
PROPERTY
  CommitsAreFound
CHECK_DEADLOCK FALSE
