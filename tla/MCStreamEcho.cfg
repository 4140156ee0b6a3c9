CONSTANTS
  Cap = 3
  BufSize = 4
  MaxTyped = 10
  MaxAsked = 6
SPECIFICATION StreamSpec
INVARIANTS
  StreamTypeOK
  NoLag
  LastLineTwice
PROPERTY RoundTrip
CHECK_DEADLOCK FALSE
