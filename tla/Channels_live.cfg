SPECIFICATION FairSpec
CONSTANTS
  Threads = {t1, t2, t3}
  Names = {c1}
  MaxSends = 2
  Failing = {2}
  Free = Free
PROPERTIES
  CallsReturn
  DemandServed
CHECK_DEADLOCK FALSE
