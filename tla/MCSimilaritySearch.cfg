SPECIFICATION Spec
CONSTANTS
  None = None
  StepSearch = TRUE
  AlignTolerance = 1
  SafetyStopDistance = 1
  TargetStopDistance = 2
  TargetStopArea = 1
  LostTimeout = 1
  CommandTimeout = 1
  ResultTimeout = 1
  ApproachStepSeconds = 1
  SearchForwardSeconds = 1
  SettleSeconds = 1
  SearchStepDegrees = 1
  SearchStepJitter = 0
  SearchForwardAfter = 2
  SearchRate = 1
  TickPeriod = 1
  TickLag = 0
  AgeCap = 3
  XErrors <- MCXErrors
  Distances <- MCDistances
  Areas <- MCAreas
  TrackConfirm = 2
  FoundConfirm = 3
  FoundTolerance = 0
  StaleSeconds = 1
  StopOnArrival = TRUE
INVARIANTS
  ServoFollowsSearch
PROPERTIES
  KeepsServo
  PursuitNeedsConfirmedRun
  SilenceIsReported
