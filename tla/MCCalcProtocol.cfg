CONSTANTS
  Requests <- MCRequests
  Garbage <- MCGarbage
SPECIFICATION CalcSpec
INVARIANTS
  CalcTypeOK
  LastNumberCut
PROPERTY ExchangeEnds
CHECK_DEADLOCK FALSE
