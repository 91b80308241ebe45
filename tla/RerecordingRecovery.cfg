\* One slot that becomes stale and is recovered, in every way but by loading
\* during a recovery.
SPECIFICATION Spec
CONSTANTS
  Left = Left
  Right = Right
  Idle = Idle
  Inputs = {Left, Right}
  NoInput = Idle
  NumSlots = 1
  UserActions = {"Save", "Load", "Recover", "ToggleReadOnly", "ResumeRecording", "Deallocate", "Restart", "Pause"}
  MaxFrames = 3
SYMMETRY InputSymmetry
INVARIANTS
  MovieReproducesGame
  SavestatesReproduce
CHECK_DEADLOCK FALSE
