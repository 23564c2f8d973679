SPECIFICATION FairSpec
CONSTANTS
  Links = {a, b}
  NoLink = none
  MaxClicks = 3
  MaxTrips = 1
  MaxHistory = 2
INVARIANTS  RestartFlagIsLive RecordedOnce
PROPERTIES ConnectingEnds
CHECK_DEADLOCK FALSE
