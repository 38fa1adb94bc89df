\* A healthy card beside one whose releasing calls may fail; a handler with
\* failing calls and a SIGKILL, in either order.
SPECIFICATION Spec
CONSTANTS
  N = 2
  Supported = {0, 1}
  Profiles = {1, 2}
  Fans = {0, 30}
  IdleAfter = 1
  HasClock = TRUE
  HasOffset = TRUE
  Faulty = {1}
  MaxFaults = 1
  MaxKills = 1
INVARIANTS TypeOK NothingForgotten  NoOffsetInP8
 
