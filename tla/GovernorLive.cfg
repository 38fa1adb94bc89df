SPECIFICATION FairSpec
CONSTANTS
  N = 2
  Supported = {0, 1}
  Profiles = {1, 2}
  Fans = {0, 30}
  IdleAfter = 1
  HasClock = TRUE
  HasOffset = TRUE
  Faulty = {}
  MaxFaults = 1
  MaxKills = 1
PROPERTIES    IdleIsSaved RequestIsApplied
