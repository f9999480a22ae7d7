SPECIFICATION FairSpec
CONSTANTS
  NServices = 2
  MaxChecks = 2
INVARIANTS
  TypeOK
  LeftoversExplained
  WaitsHonest
  ArtifactsGathered
PROPERTIES
  TeardownOrder
  WaitEnds
