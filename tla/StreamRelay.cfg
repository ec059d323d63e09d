SPECIFICATION FairSpec
CONSTANTS
  Publishers = {p1}
  RtmpViewers = {r1}
  HttpViewers = {h1}
  Own = {"file"}
  Keys = {k1}
  None = None
  Shutdown = Shutdown
  MaxPackets = 2
INVARIANTS
  TypeOK
  NothingLeftOpen
  NobodySkipped
  WaitingMeansRegistered
  MapLeadsToRunning
PROPERTIES
  EndReachesEveryWriter
  CloseGetsThrough
CHECK_DEADLOCK FALSE
