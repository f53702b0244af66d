CONSTANTS
  SeqModulus = 8
  Depth = 2
  PayloadSize = 6
  LebBase = 4
  MaxElements = 4
  FirstSeq = 5
  MaxUnits = 3
  MaxUnitSize = 10
  MaxExtra = 1
  Units <- MCUnits
SPECIFICATION Spec
INVARIANTS DeliveredDecodable NothingWasted
CHECK_DEADLOCK FALSE
