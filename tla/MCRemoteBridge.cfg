SPECIFICATION Spec
CONSTANTS
  Connections = {c1, c2}
  Kinds = {"drive", "halt", "void", "ask", "mute", "bad"}
  None = None
  Timeout = 1
  TickPeriod = 1
  TickLag = 1
  MaxSent = 2
INVARIANTS
  MotionIsWatched
  NewestPacketDecides
  GoneMeansStopped
PROPERTIES
  PacketsActInOrder
  KeepsContract
  SilenceStops
CHECK_DEADLOCK FALSE
