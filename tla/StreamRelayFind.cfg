SPECIFICATION Spec
CONSTANTS
  Publishers = {p1, p2}
  RtmpViewers = {}
  HttpViewers = {h1}
  Own = {}
  Keys = {k1}
  None = None
  Shutdown = Shutdown
  MaxPackets = 1
INVARIANTS
  StreamingIsFindable
CHECK_DEADLOCK FALSE
