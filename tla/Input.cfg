CONSTANTS
  LastKey = 2
  ToggleKeys = {2}
  ToggleCalls = 2
  Limit = 2
  Window = 2
  BufferSizes = {1, 2, 3}
  MaxSize = 2
  JunkEvents <- MCJunkEvents
  Programs <- MCPrograms
  MaxDepth = 2
  MaxFrames = 2
  MaxPolls = 1
  NoKey = NoKey
SPECIFICATION FairSpec
INVARIANTS
  NoSilentLoss
  EventMeansData
PROPERTIES
  ImplementsQueue
  JustPressedOnce
  SpinEnds
CHECK_DEADLOCK FALSE
