CONSTANTS
  Streams = {audio, video}
  Control = control
  Lengths = {0, 3}
  ChunkSizes = {1, 2}
  FirstSize = 2
  TimeMod = 3
  ExtendedAt = 2
  MaxMessages = 4
  MaxWire = 1
SPECIFICATION ChunkSpec
INVARIANTS InSync
PROPERTIES ChunksCarryMessages
SYMMETRY StreamSymmetry
CHECK_DEADLOCK FALSE
