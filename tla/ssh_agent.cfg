SPECIFICATION FairSpec
CONSTANTS
  NChannels = 2
  MaxBackoff = 8
INVARIANTS
  TypeOK
PROPERTIES
  AgentEnds
CHECK_DEADLOCK FALSE
