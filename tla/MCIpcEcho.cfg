CONSTANTS
  c1 = c1
  c2 = c2
  Conns <- MCConns
  Quota <- MCQuota
  Main = Main
  Logger = Logger
  Backlog = 1
  Cap = 2
  BufSize = 2
  PipeCap = 3
  PipeBuf = 1
  MaxSend = 3
SPECIFICATION IpcSpec
INVARIANTS
  IpcTypeOK
  EveryByteLogged
PROPERTIES
  LoggerServes
CHECK_DEADLOCK FALSE
