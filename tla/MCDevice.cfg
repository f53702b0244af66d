CONSTANTS
  RingWords = 4
  FifoSlots = 2
  MaxPayload = 2
  MaxSends = 6
  BufWords = 6
  Width = 12
  SilenceWords = 2
  Block = 2
  PadExtra = 1
  MaxGap = 3
  Core1Resets = FALSE
  RingTime = 4
  PumpTime = 3
  FrameSize = 2
  Slots = 2
  AccumCap = 2
  MaxSamples = 6
  MaxTakes = 2
  BufSize = 17
  Threshold = 3
  Prebuffer = 3
  PerPass = 2
  SegMax = 3
  Replies <- MCReplies
  MaxAttempts = 2
  MaxRetries = 3
  MaxFailures = 1
  MaxPackets = 4
  QueueSize = 2
  MaxCommands = 4
  MaxBatch = 3
  WifiTimeout = 2
  DnsTimeout = 2
SPECIFICATION DeviceSpec
INVARIANTS CheckedNeverWaits HeardIsDue SilentWhenIdle SpeechInOrder ShippedAsSent ToldSavedIsCommitted LoadedWasAccepted UsbRelays
PROPERTIES RingIsQueue AttemptEnds
CHECK_DEADLOCK FALSE
