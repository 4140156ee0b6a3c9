CONSTANTS
  c1 = c1
  c2 = c2
  Conns <- MCConns
  Main = Main
  Backlog = 1
  Cap = 2
  BufSize = 2
  MaxSend = 3
  Quota <- MCQuota
SPECIFICATION Spec
INVARIANTS
  NoDescriptorLeak
  OneProcessPerConnection
  NothingLost
PROPERTIES
  ServesEcho
  ReapsBySigChld
  SessionReleased
  EchoCompletes
CHECK_DEADLOCK FALSE
