SPECIFICATION FairSpec
CONSTANTS
  NumSlots = 2
  Sizes = {"small", "large"}
  BasicallyEmptyVideo = 1
  BasicallyEmptyAudio = 1
  CatchUpFirst = 1
  CatchUpLag = 1
  MaxFileSize = 3
  MaxFrames = 3
  MaxSplits = 1
INVARIANTS
  CapturedInOrder
  FilesSound
  SoundLeadBounded
PROPERTIES
  DumperReturns
CHECK_DEADLOCK FALSE
