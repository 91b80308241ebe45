CONSTANTS
  Windows = {w1, w2}
  GameWindow = w1
  NoWindow = NoWindow
  Ids = {1, 2}
  Elapses = {1, 2}
  Periods = {2}
  TimersMode = 1
  Recursive = {"SetTimer", "multimedia"}
  MaxTime = 3
  MaxSet = 3
  MaxDepth = 2
SPECIFICATION FairSpec
INVARIANTS
  OneLife
  TempoKept
PROPERTIES
  NeverEarly
  TimersServed
CHECK_DEADLOCK FALSE
