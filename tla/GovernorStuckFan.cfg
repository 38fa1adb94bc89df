\* One handler with failing calls is enough; no kills.
SPECIFICATION FairSpec
CONSTANTS
  N = 1
  Supported = {0}
  Profiles = {1, 2}
  Fans = {0, 30}
  IdleAfter = 1
  HasClock = FALSE
  HasOffset = FALSE
  Faulty = {0}
  MaxFaults = 1
  MaxKills = 0
PROPERTY HotIsCooledAfterError
