CONSTANTS
  BufWords = 6
  Width = 12
  SilenceWords = 2
  Block = 2
  PadExtra = 1
  MaxGap = 3
  Core1Resets = TRUE
SPECIFICATION AudioSpec
INVARIANT TrackerAligned
CHECK_DEADLOCK FALSE
