SPECIFICATION Spec
CONSTANTS
  None = None
  Enabled = TRUE
  StepSearch = FALSE
  AlignTolerance = 1
  SafetyStopDistance = 1
  TargetStopDistance = 2
  TargetStopArea = 1
  LostTimeout = 3
  CommandTimeout = 2
  ResultTimeout = 2
  ApproachStepSeconds = 1
  SearchForwardSeconds = 2
  SettleSeconds = 1
  SearchStepDegrees = 2
  SearchStepJitter = 1
  SearchForwardAfter = 4
  SearchRate = 1
  TickPeriod = 1
  TickLag = 1
  AgeCap = 6
  XErrors <- MCXErrors
  Distances <- MCDistances
  Areas <- MCAreas
INVARIANTS
  RestStatesAreStill
  MotionExpires
PROPERTIES
  ForwardNeedsClearFront
