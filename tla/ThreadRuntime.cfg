SPECIFICATION RFairSpec
CONSTANTS
  Workers = {w1, w2}
  Leaky = {w2}
  Spurious = {w1}
  Main = Main
  Free = Free
  MaxMessages = 1
INVARIANTS
  RTypeOK
  OneSection
PROPERTIES
  FrameStartsClear
  KnotStays
  WaitsReturn
  LockGranted
  HangExplained
CHECK_DEADLOCK FALSE
