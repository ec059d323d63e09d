CONSTANTS
  RequestedGops = 2
  Sent = {"videoSeq", "audioSeq", "audio", "key", "inter", "metadata"}
  MaxPackets = 6
SPECIFICATION Spec
INVARIANTS HeadersFirst GapFree
PROPERTIES SlidingWindow
CHECK_DEADLOCK FALSE
