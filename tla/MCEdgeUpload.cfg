SPECIFICATION Spec
CONSTANTS
  Similarity = "yolov5-similarity"
  InspectionIds = {"yolov5-manhole-detect", "yolov8-road-damage"}
INVARIANTS
  UrlFollowsAlgorithms
  
PROPERTY
  UploadsResume
