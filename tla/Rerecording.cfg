\* Two slots that are saved, loaded, released, deleted and recovered in every
\* order, also during a recovery, while the user records, cuts the movie back,
\* plays it again and switches between read-only and read+write.
SPECIFICATION Spec
CONSTANTS
  Left = Left
  Right = Right
  Idle = Idle
  Inputs = {Left}
  NoInput = Idle
  NumSlots = 2
  UserActions = {"Save", "Load", "ToggleReadOnly", "ResumeRecording", "Recover", "LoadWhileRecovering", "Deallocate", "Delete"}
  MaxFrames = 2
INVARIANTS
  MovieInBounds
  LoadableHasMemory
CHECK_DEADLOCK FALSE
