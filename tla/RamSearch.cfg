CONSTANTS
  Areas <- MCAreas
  Values = {0, 1}
  Sizes = {1, 2}
  Criteria = {"different", "address"}
  AddressLimit = 3
  CountModulus = 2
  TooManyRegions = 4
  WriteSets <- MCWriteSets
  MaxSelected = 2
  MaxFrames = 2
  MaxOps = 2
  UserActions = {"Reset", "ResetChanges", "Undo", "SetType", "Search", "AutoSearch", "CloseDialog", "Eliminate"}
SPECIFICATION Spec
INVARIANTS
  ResultsSound
  ArraysSound
PROPERTIES
  SearchExact
  EliminatesNothingElse
CHECK_DEADLOCK FALSE
