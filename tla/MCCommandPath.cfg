SPECIFICATION Spec
CONSTANTS
  Depth = 2
  MaxRequests = 3
INVARIANTS
  WheelsAreAccountedFor
PROPERTY
  CarComesToRest
