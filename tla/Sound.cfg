\* A thread of the game fills, plays and stops a buffer of two samples and seeks
\* into the middle of one, while frames of one sample, or of more than the whole
\* buffer, play it.
SPECIFICATION FairSpec
CONSTANTS
  Size = 4
  Block = 2
  OutBlock = 1
  Positions <- MCPositions
  OffsetStop = 9
  FrameBytes = {2, 6}
  OutBytes = {0, 3}
  Seeks = {5}
  Offsets = {3}
  Lengths = {2}
  Residence = 1
  Users = {primary, audio}
  Primary = primary
  Nobody = nobody
  MaxUnlocks = 2
  MaxFrames = 2
INVARIANTS
  NotifiedOnce
  SoundKept
  MixInBounds
  ResampledExactly
PROPERTIES
  FrameReturns
CHECK_DEADLOCK FALSE
