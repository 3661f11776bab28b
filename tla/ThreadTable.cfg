SPECIFICATION FairSpec
CONSTANTS
  Main = Main
  MaxThreads = 3
  Garbage = {FALSE, TRUE}
INVARIANTS
  TypeOK
  ExitRecorded
  
PROPERTIES
  OnlyFinishedLeave
  
  WaitReturns
CHECK_DEADLOCK FALSE
