SPECIFICATION FairSpec
CONSTANTS
  run = run
  window = window
  Capacity = 2
  Loop = run
  Others = {window}
  MaxLines = 4
INVARIANTS EveryLineCounted InOrder TailIsFlushed
PROPERTIES LinesMoveOn
CHECK_DEADLOCK FALSE
