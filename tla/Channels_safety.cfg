SPECIFICATION Spec
CONSTANTS
  Threads = {t1, t2, t3}
  Names = {c1, c2}
  MaxSends = 3
  Failing = {2}
  Free = Free
SYMMETRY Symmetry
INVARIANTS
  TypeOK
  PopsWhatItRead
  NoLostWakeup
PROPERTY AtomicQueues
CHECK_DEADLOCK FALSE
