CONSTANTS
  Conns = {c1, c2}
  NoConn = NoConn
  Limit = 2
  Backlog = 2
  Cap = 2
  BufSize = 2
  MaxLine = 2
  MaxSend = 7
SPECIFICATION Spec
INVARIANTS
  KeepsPace
  FullQuota
CHECK_DEADLOCK FALSE
