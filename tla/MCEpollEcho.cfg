CONSTANTS
  c1 = c1
  c2 = c2
  c3 = c3
  Conns <- MCConns
  Quota <- MCQuota
  NoConn = NoConn
  Serv = 3
  FdLimit = 7
  EpollSize = 2
  Backlog = 1
  Cap = 3
  BufSize = 2
  MaxSend = 3
SPECIFICATION Spec
INVARIANT EventsCurrent
PROPERTIES
  ServesEcho
  EchoCompletes
CHECK_DEADLOCK FALSE
