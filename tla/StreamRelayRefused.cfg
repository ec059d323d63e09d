SPECIFICATION Spec
CONSTANTS
  Publishers = {p1}
  RtmpViewers = {r1}
  HttpViewers = {h1}
  Own = {}
  Keys = {k1}
  None = None
  Shutdown = Shutdown
  MaxPackets = 1
INVARIANTS
  RefusedRequestHurtsNobody
CHECK_DEADLOCK FALSE
