SPECIFICATION FairSpec
CONSTANTS
  a = a
  b = b
  c = c
  Servers <- Three
  FailThreshold = 3
  FutileRestarts = 2
  InitialBackoff = 2
  MaxBackoff = 6
  MaxCandidates = 1
  UdpOnly = {}
  Armed = FALSE
PROPERTIES  ReturnsWhenAllAnswer
CHECK_DEADLOCK FALSE
