SPECIFICATION TcpSpec
CONSTANTS
  Polling = FALSE
  RxBufSize = 3
  Window = 4
  MaxSegment = 2
  MaxRead = 2
  MaxBytes = 8
CHECK_DEADLOCK FALSE
INVARIANT StoredIsRead
