SPECIFICATION FairSpec
CONSTANTS
  Modes = {"rtmp", "file", "http", "hls"}
  QueueCap = 2
  MaxPackets = 4
INVARIANTS
  InOrder
  LossHasReason
PROPERTIES
  CloseEndsBoth
  TakenIsWritten
CHECK_DEADLOCK FALSE
