CONSTANTS
  NewPairs = 2
  MaxPairs = 4
  ConncheckMax = 7
  ConncheckPeriod = 3
  Working <- MCWorking
  MaxSessions = 2
  Interval = 3
  Timeout = 10
  Rtt = 2
  LoopPeriod = 1
  MaxHandshake = 3
  StartClock = 5
  ClockModulus = 64
  WideModulus = 256
  Horizon = 32
  FifoSize = 3
  d1 = d1
  d2 = d2
  d3 = d3
  d4 = d4
  d5 = d5
  Datagrams <- MCDatagrams
  Torn = Torn
  Polling = TRUE
  RxBufSize = 3
  Window = 4
  MaxSegment = 2
  MaxRead = 2
  MaxBytes = 8
  MaxPcbs = 3
  RxRoom = 2
SPECIFICATION Spec
INVARIANTS FullBudget ClosedOnlyWhenSilent SilenceNoticed StoredIsRead LearnedIsOwn
PROPERTIES Settles FifoIsQueue NoneStaysBehind
CHECK_DEADLOCK FALSE
