CONSTANTS
  Areas <- MCAreas
  Values = {0, 1}
  Sizes = {1, 2}
  Criteria = {"different", "address"}
  AddressLimit = 2
  CountModulus = 2
  TooManyRegions = 4
  WriteSets <- MCWriteSets
  MaxSelected = 2
  MaxFrames = 2
  MaxOps = 2
  UserActions = {"Search", "Eliminate", "SetType", "Undo"}
SPECIFICATION Spec
PROPERTIES
  EliminatesAllSelected
CHECK_DEADLOCK FALSE
