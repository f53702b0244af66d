CONSTANTS
  PayloadSize = 9
  LebBase = 4
  MaxElements = 2
  FirstSeq = 0
  MaxLen = 12
  MaxUnits = 2
  Units <- MCUnits
  RtpPayloadSize = 4
  MaxNaluSize = 11
  AccessUnits <- MCAccessUnits
  MaxAccessUnits = 2
  MaxInFlight = 2
  SeqModulus = 16
  Depth = 4
  FirstPacket = 11
  LastPacket = 20
  Packets <- MCPackets
SPECIFICATION Spec
INVARIANTS EncodedWhole ComesOutWhole InOrder JitterAbsorbed
PROPERTY EveryPacketPasses
CHECK_DEADLOCK FALSE
