SPECIFICATION Spec
CONSTANTS
  a = a
  b = b
  c = c
  Servers <- Two
  FailThreshold = 3
  FutileRestarts = 2
  InitialBackoff = 2
  MaxBackoff = 3
  MaxCandidates = 12
  UdpOnly = {}
  Armed = FALSE
INVARIANT NoThirdRestart
CHECK_DEADLOCK FALSE
