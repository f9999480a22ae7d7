SPECIFICATION FairSpec
CONSTANTS
  NBuilds = 2
  Platforms = {amd, arm}
  Native = {amd}
  Tries = 2
  PushTries = 2
  MaxTags = 2
INVARIANTS
  TypeOK
  ThreadsKeepInputs
  DigestsCurrent
  ReturnedComplete
  PushComplete
  LeftoversExplained
PROPERTIES
  BuildEnds
  KeepsPromise
