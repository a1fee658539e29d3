SPECIFICATION Spec
CONSTANT MaxSlips = 2
INVARIANTS
  TypeOK
  CompleteRequestsServed
  NothingMisread
  EventsOnlyFromProgram
  ServedForSigners
CHECK_DEADLOCK FALSE
