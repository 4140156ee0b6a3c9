CONSTANTS
  Requests <- MCRequests
  Garbage <- MCGarbage
SPECIFICATION CalcSpec
INVARIANT AnswerIsRight
CHECK_DEADLOCK FALSE
