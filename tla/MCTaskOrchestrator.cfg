SPECIFICATION Spec
CONSTANTS
  Clients = {c1, c2}
  MaxCommands = 3
INVARIANTS
  RunningIsNeverSilent
  RecordAgreesWithList
PROPERTY
  StatusCatchesUp
CHECK_DEADLOCK FALSE
