\* One governed card, whose releasing calls may fail, beside a foreign one; a
\* handler with failing calls and a SIGKILL, in either order.
SPECIFICATION Spec
CONSTANTS
  N = 2
  Supported = {0}
  Profiles = {1, 2}
  Fans = {0, 30, 60}
  IdleAfter = 2
  HasClock = TRUE
  HasOffset = TRUE
  Faulty = {0}
  MaxFaults = 1
  MaxKills = 1
INVARIANTS MemoryIsTrue  PublishedIsApplied ForeignUntouched
PROPERTY FanThroughAuto
