SPECIFICATION Spec
CONSTANTS
  None = None
  MaxRanges = 2
  AngleMin <- MCAngleMin
  Increment = 1
  RangeMin = 1
  RangeMax = 4
  HalfAngle = 1
  SafetyStopDistance = 2
  Scans <- MCScans
INVARIANTS
  AtMostOneLateMove
  CleanSearchAgrees
  FrontIsAReading
  WideObstaclesAreSeen
