SPECIFICATION Spec
CONSTANTS
  None = None
  TargetCount = 2
  SafetyStopDistance = 2
  Distances <- MCDistances
INVARIANT
  StopsAfterEnoughResults
