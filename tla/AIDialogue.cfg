SPECIFICATION FairSpec
INVARIANTS
  TypeOK
  FlagsHaveTimers
PROPERTIES
  NoOverlap
  DeferredServed
  StateNoticed
