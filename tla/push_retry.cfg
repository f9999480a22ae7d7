SPECIFICATION Spec
CONSTANTS
  NBuilds = 1
  Platforms = {amd, arm}
  Native = {amd}
  Tries = 2
  PushTries = 2
  MaxTags = 1
INVARIANT
  TimeoutsRetried
