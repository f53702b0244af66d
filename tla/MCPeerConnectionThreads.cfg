SPECIFICATION Spec
CONSTANTS
  OneThread = FALSE
  DataChannel = TRUE
  Answered <- MCAnswered
  MaxSessions = 2
INVARIANT CompletedMeansDtlsConnected
