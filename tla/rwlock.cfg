\* Three threads, each of which acquires the lock up to twice for reading and
\* twice for writing before it releases it.
SPECIFICATION FairLockSpec
CONSTANTS
  Thread = {t1, t2, t3}
  MaxDepth = 2
INVARIANTS
  TypeOK
  MutualExclusion
  CountersAreRight
  NoLostWakeup
PROPERTIES
  ImplementsSharedAccess
  WriterGetsIn
