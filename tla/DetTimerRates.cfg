\* The user changes the frame rate while the game is paused: the limits on
\* deferred delay and throttle hold for every mix of rates, and every sleep
\* returns.  Rate 0 hands over to the system timer.
SPECIFICATION FairSpec
CONSTANTS
  Framerates = {0, 50, 70}
  Delays = {70}
  Elapsed = {0, 20}
  Timescale = 3
  TimescaleDivisor = 4
  FFSleepSkip = FALSE
  FFWaitSkip = TRUE
  StartTicks = 900
  DWord = 1024
  LongestFrame = 21
  MaxFrames = 1
  MaxDepth = 3
INVARIANTS
  DeferredDelayBounded
  PacingBounded
PROPERTIES
  AddDelayReturns
CHECK_DEADLOCK FALSE
