SPECIFICATION FairSpec
CONSTANTS
  MaxFrames = 5
  MaxOthers = 1
  Duration = 3000
  CacheMaxFrames = 2
  Inc = 2089
  Steps <- MCSteps
  TimeModulus = 5000
  Shapes <- MCShapes
INVARIANTS
  SegmentsDecode
  DurationsHonest
  AudioInSync
PROPERTIES
  CutsTheStream
  EndIsComplete
CHECK_DEADLOCK FALSE
