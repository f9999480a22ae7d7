SPECIFICATION FairSpec
CONSTANTS
  NGlobal = 3
  NShared = 1
  ScanKeys = {"enabled", "scanner"}
  Aliases = {"alias"}
  NSteps = 3
  MaxDepends = 2
INVARIANTS
  TypeOK
  LastMentionWins
  StepsInOrder
PROPERTIES
  LoadEnds
