SPECIFICATION DASpec
CONSTANTS
  Plugins <- OneFile
  Names = {n1}
  Callbacks = {c1}
  Uses = {"register", "reload", "load in an event", "load in a hook", "destroy", "command", "unregister", "keep"}
  MaxStates = 3
  MaxDepth = 4
INVARIANTS
  DATypeOK
  NoneLost
  AttachedRegistered
  UndefinedHasCause
  PointedOpen
  CommandsListed
CHECK_DEADLOCK FALSE
