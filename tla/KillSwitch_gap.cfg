SPECIFICATION Spec
CONSTANTS
  t1 = t1
  t2 = t2
  main = main
  ip1 = ip1
  ip2 = ip2
  Threads = {t1}
  Main = main
  Addresses = {ip1, ip2}
INVARIANT NotLeftBlocked
CHECK_DEADLOCK FALSE
