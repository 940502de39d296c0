\* A user's process and one started with /task, every fault the code notices, a
\* crash at any step and any number of restarts.
SPECIFICATION PersistenceSpec
CONSTANTS
  Project <- TwoProjects
  Process = {user, task}
  Faults <- NoticedFaults
SYMMETRY Symmetry
CONSTRAINT UntilOverlap
INVARIANTS
  UrlsIsWhole
  CopyRemains
  EmptiedByUser
PROPERTY
  ImplementsAtomicList
CHECK_DEADLOCK FALSE
