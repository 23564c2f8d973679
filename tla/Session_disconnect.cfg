SPECIFICATION Spec
CONSTANTS
  a = a
  b = b
  none = none
  ui = ui
  tray1 = tray1
  w1 = w1
  w2 = w2
  w3 = w3
  nobody = nobody
  Links = {a}
  NoLink = none
  Callers = {ui}
  Watchdogs = {w1, w2}
  NoOne = nobody
  Choices <- Protected
  ProxyModes <- ProxyMode
  Elevated = TRUE
  MaxCalls = 2
INVARIANTS DisconnectHolds
CHECK_DEADLOCK FALSE
