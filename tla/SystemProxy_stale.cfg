SPECIFICATION Spec
CONSTANTS
  Threads = {"t1"}
  Main = "main"
  Servers = {"p", "q"}
  Ours = "ours"
  Empty = "empty"
  EditTimes = {"dead"}
  MaxEdits = 1
INVARIANT GivenBack
CHECK_DEADLOCK FALSE
