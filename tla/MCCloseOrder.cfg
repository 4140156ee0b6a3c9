CONSTANTS
  Cap = 2
  BufSize = 2
  MaxSend = 7
  FileLen = 5
  AckLen = 3
SPECIFICATION Spec
INVARIANTS
  TypeOK
  QuitHangsUpNobody
  NothingMissed
PROPERTIES
  EchoComesBack
  AckArrives
CHECK_DEADLOCK FALSE
