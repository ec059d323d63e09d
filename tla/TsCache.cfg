CONSTANTS
  Ring = 2
  Players = {p1}
  MaxFlushes = 5
  MaxClock = 5
SPECIFICATION CacheSpec
INVARIANTS BuffersApart PlaylistConsecutive BodyIsTheSegment 
CHECK_DEADLOCK FALSE
