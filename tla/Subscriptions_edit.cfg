SPECIFICATION Spec
CONSTANTS
  p = p
  clip = clip
  none = none
  h1 = h1
  h2 = h2
  listener = listener
  sched = sched
  asked = asked
  Ids = {p, clip}
  Imported = {clip}
  NoEntry = none
  Tasks = {h1, h2}
  Listener = listener
  Sched = sched
  Asked = asked
  Owned <- NoneOrOne
  Period = 1
  MaxTime = 2
  MaxEdits = 2
  MaxExits = 1
SYMMETRY Interchangeable
INVARIANTS  UpdatedHasServers  WindowShowsDisk
CHECK_DEADLOCK FALSE
