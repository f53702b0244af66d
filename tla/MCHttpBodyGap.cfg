CONSTANTS
  BufSize = 12
  Threshold = 3
  Prebuffer = 3
  PerPass = 2
  SegMax = 3
  Replies <- MCPacketPerChunk
SPECIFICATION BodySpec
INVARIANT RefusedUntilDrained
CHECK_DEADLOCK FALSE
