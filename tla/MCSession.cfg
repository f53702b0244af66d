CONSTANTS
  ServerLists <- MCServerLists
  MaxHosts = 1
  MaxCandidates = 10
  MaxTimes = 1
  BufSize = 256
  UsernameLens <- MCUsernameLens
  MaxRounds = 2
  MaxDatagrams = 2
  OneThread = TRUE
  DataChannel = TRUE
  Answered <- MCAnswered
  MaxSessions = 3
  PayloadMax = 2
  InitialTsn = 2
  Sizes = {4, 5}
  TsnModulus = 3
  PeerChunks = 2
  OpenTsns = {1}
  InitialWindow = 2
  MaxUnderWay = 2
  Reentrant = TRUE
  Methods = {"offer", "answer", "state", "close", "bad"}
  StatesMet = {"CLOSED", "COMPLETED"}
  MaxRequests = 2
  MaxConnects = 2
  MaxReoffers = 1
SPECIFICATION SessionSpec
INVARIANTS RequestsAccepted CurrentChecksOnly AddressesReal RepliedOnce CompletedMeansDtlsConnected CompletedMeansAuthenticated OpenedOnce FragmentsReassemble AckedIsDelivered
PROPERTIES CheckingSettles AllAcknowledged
CHECK_DEADLOCK FALSE
