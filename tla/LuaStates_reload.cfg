SPECIFICATION FairSpec
CONSTANTS
  Plugins <- OneFile
  Names = {n1}
  Uses = {"register", "reload", "load in an event"}
  MaxStates = 4
  MaxDepth = 4
PROPERTY ReloadHappens
CHECK_DEADLOCK FALSE
