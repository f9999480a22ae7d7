SPECIFICATION FairSpec
CONSTANTS
  Runners = {r1, r2}
  Proxies = {p1}
  Registries = {g1}
  NoContainer = NoContainer
  MaxSignals = 2
INVARIANTS
  TypeOK
  OrphansAccountedFor
  CleanExit
PROPERTIES
  SignalEndsProcess
\* A process that has exited takes no step.
CHECK_DEADLOCK FALSE
