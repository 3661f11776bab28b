SPECIFICATION Spec
CONSTANTS
  Values <- SomeValues
  MaxTrips = 2
INVARIANTS
  TypeOK
  Arrives
  RelayedUnchanged
  AnswerTells
CHECK_DEADLOCK FALSE
