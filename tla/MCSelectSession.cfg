CONSTANTS
  Conns = {c1, c2, c3}
  NoConn = NoConn
  Serv = 3
  FdLimit = 6
  Backlog = 2
  Cap = 1
  BufSize = 1
  Quota <- MCQuota
  MaxLine = 2
SPECIFICATION SessionSpec
INVARIANT LoopNeverBlocks
PROPERTIES
  OnlyCrowdingStops
  IsSelectClient
  LineReturns
CHECK_DEADLOCK FALSE
