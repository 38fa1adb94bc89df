\* No faults and no kills are needed: stopping the service is enough.
SPECIFICATION Spec
CONSTANTS
  N = 1
  Supported = {0}
  Profiles = {1}
  Fans = {0, 30}
  IdleAfter = 1
  HasClock = FALSE
  HasOffset = FALSE
  Faulty = {}
  MaxFaults = 0
  MaxKills = 0
INVARIANT PanelSeesRealState
