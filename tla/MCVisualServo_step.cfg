SPECIFICATION Spec
CONSTANTS
  None = None
  Enabled = TRUE
  StepSearch = TRUE
  AlignTolerance = 1
  SafetyStopDistance = 1
  TargetStopDistance = 2
  TargetStopArea = 1
  LostTimeout = 3
  CommandTimeout = 2
  ResultTimeout = 2
  ApproachStepSeconds = 1
  SearchForwardSeconds = 2
  SettleSeconds = 1
  SearchStepDegrees = 3
  SearchStepJitter = 1
  SearchForwardAfter = 5
  SearchRate = 1
  TickPeriod = 1
  TickLag = 1
  AgeCap = 7
  XErrors <- MCXErrors
  Distances <- MCDistances
  Areas <- MCAreas
INVARIANTS
  RestStatesAreStill
  MotionExpires
  WaitsExpire
PROPERTIES
  ForwardNeedsClearFront
  StopsToLook
  SweepProgresses
  SweepRelocates
