CONSTANTS
  FifoSize = 1
  AudioSize = 1
  BodySize = 1
  Prebuffer = 1
  QueueSize = 1
  Pcbs = {1, 2}
  MicWorks = TRUE
  Roles = {"qa", "radio", "linephone"}
  Keys = {"X", "UpDown", "Ctrl", "B"}
  MaxPresses = 3
SPECIFICATION Spec
INVARIANTS PausedOnlyWhileTalking PlaybackEnds LoadingEnds
PROPERTY OverlapOnlyWithFetch
CONSTRAINT OneConnection
CHECK_DEADLOCK FALSE
