SPECIFICATION FairSpec
CONSTANTS
  Wrappers = {w1, w2}
  NoThread = NoThread
  MaxJobs = 3
  Stacks = {"default", "large"}
  WaitSyncMode = 1
INVARIANTS
  JobKept
  ExitCodeIsOwn
  ExitEventSound
PROPERTIES
  JobStarts
CHECK_DEADLOCK FALSE
