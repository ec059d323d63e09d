SPECIFICATION Spec
CONSTANTS
  Modes = {"file"}
  QueueCap = 2
  MaxPackets = 3
INVARIANTS
  FileKeepsEverything
CHECK_DEADLOCK FALSE
