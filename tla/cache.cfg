SPECIFICATION FairSpec
CONSTANTS
  Builds = {b1, b2}
  Seed = Seed
  Hole = Hole
  ArchiveSize = 2
  Tries = 2
  MaxMishaps = 2
  MaxCleans = 1
INVARIANTS
  TypeOK
  SettledArchiveComplete
  RestoredFromOneSave
PROPERTIES
  WriterLockGuardsData
  ReaderLockGuardsData
  LockWaitEnds
\* Builds end.
CHECK_DEADLOCK FALSE
