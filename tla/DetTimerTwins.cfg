\* Two executions with real clocks and fast-forward switches of their own.
SPECIFICATION TwinSpec
CONSTANTS
  Framerates = {0, 70}
  Delays = {99}
  Elapsed = {0, 20}
  Timescale = 3
  TimescaleDivisor = 4
  FFSleepSkip = FALSE
  FFWaitSkip = TRUE
  StartTicks = 900
  DWord = 1024
  LongestFrame = 15
  MaxFrames = 2
  MaxDepth = 3
INVARIANTS
  NoDrift
  Deterministic
PROPERTIES
  TimeGoesForward
CHECK_DEADLOCK FALSE
