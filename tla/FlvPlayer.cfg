SPECIFICATION Spec
CONSTANTS
  Ref <- MCRef
  Sps <- MCSps
  Asc <- MCAsc
  Streams <- MCStreams
  Written <- MCWritten
  FirstSizes = {1, 2, 8}
  ChunkSizes = {3, 7}
  MaxBackward = 3
  MinBackward = 1
  Padding = 1
  JumpBehind = 3
  JumpBack = 2
  Recover = 4
  MaxLoads = 2
  MaxRequests = 2
  MaxRemovals = 1
  MaxFaults <- MCMaxFaults
INVARIANTS
  EveryFrameOnce
  FramesKeepTime
  ConfigReachesBrowser
  EosComesLast
  NothingStalls
  OldRequestsEnd
CHECK_DEADLOCK FALSE
