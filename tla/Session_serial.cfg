SPECIFICATION Spec
CONSTANTS
  a = a
  b = b
  none = none
  ui = ui
  tray1 = tray1
  w1 = w1
  w2 = w2
  w3 = w3
  nobody = nobody
  Links = {a, b}
  NoLink = none
  Callers = {ui}
  Watchdogs = {w1, w2}
  NoOne = nobody
  Choices <- AllChoices
  ProxyModes <- EitherMode
  Elevated = TRUE
  MaxCalls = 4
CONSTRAINT Serial
SYMMETRY Interchangeable
INVARIANTS CoherentWhenUp   NoStrandedStream
CHECK_DEADLOCK FALSE
