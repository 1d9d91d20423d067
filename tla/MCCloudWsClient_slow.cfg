SPECIFICATION WsSpec
CONSTANTS
  None = None
  Callers = {executor}
  Enablers = {executor}
  Workers = {w1, w2}
  Urls = {u1, u2}
  QueueSize = 2
  SlowNetwork = TRUE
  MaxFrames = 0
INVARIANT
  UploadHasWorker
