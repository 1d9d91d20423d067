SPECIFICATION WsSpec
CONSTANTS
  None = None
  Callers = {executor, results}
  Enablers = {executor}
  Workers = {w1, w2}
  Urls = {u1, u2}
  QueueSize = 2
  SlowNetwork = TRUE
  MaxFrames = 4
INVARIANTS
  WsTypeOK
  AtMostOneWorker
PROPERTIES
  FramesInOrder
  DisabledUploadDisconnects
