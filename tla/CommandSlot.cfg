CONSTANTS
  Slots = {1, 2}
  MaxFrames = 3
  MaxKeys = 3
SPECIFICATION FairSlotSpec
INVARIANTS
  OneInputPerFrame
  HandledOnce
  ThreadsRun
PROPERTIES
  GameGoesOn
