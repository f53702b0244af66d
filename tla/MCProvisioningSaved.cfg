CONSTANTS
  MaxAttempts = 2
  MaxRetries = 3
  MaxFailures = 1
  MaxPackets = 4
SPECIFICATION ProvSpec
INVARIANT ToldSavedIsSaved
CHECK_DEADLOCK FALSE
