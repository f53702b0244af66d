CONSTANTS
  FifoSize = 1
  AudioSize = 1
  BodySize = 1
  Prebuffer = 1
  QueueSize = 1
  Pcbs = {1, 2}
  MicWorks = TRUE
  Roles = {"qa", "radio", "linephone"}
  Keys = {"X", "UpDown", "Ctrl", "B"}
  MaxPresses = 2
SPECIFICATION Spec
INVARIANT NoMutualWait
CHECK_DEADLOCK FALSE
