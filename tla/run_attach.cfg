SPECIFICATION Spec
CONSTANTS
  NServices = 1
  MaxChecks = 1
INVARIANT
  AttachedUntilExit
