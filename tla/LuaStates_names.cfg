SPECIFICATION Spec
CONSTANTS
  Plugins <- TwoFiles
  Names = {n1}
  Uses = {"reload"}
  MaxStates = 4
  MaxDepth = 4
INVARIANT IdNamesItsState
CHECK_DEADLOCK FALSE
