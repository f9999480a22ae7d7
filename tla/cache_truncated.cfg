SPECIFICATION Spec
CONSTANTS
  Builds = {b1, b2}
  Seed = Seed
  Hole = Hole
  ArchiveSize = 2
  Tries = 2
  MaxMishaps = 1
  MaxCleans = 1
PROPERTY SharedLockBlocksSaves
CHECK_DEADLOCK FALSE
