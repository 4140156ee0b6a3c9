CONSTANTS
  c1 = c1
  c2 = c2
  c3 = c3
  Conns <- MCConns
  NoConn = NoConn
  Serv = 3
  FdLimit = 6
  Backlog = 1
  Cap = 2
  BufSize = 2
  Quota <- MCQuota
SPECIFICATION Spec
PROPERTIES
  PatientClientsSafe
  ServesEcho
  SessionsComplete
CHECK_DEADLOCK FALSE
