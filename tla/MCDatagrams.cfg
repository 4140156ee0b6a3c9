CONSTANTS
  Clients = {c1, c2}
  News = News
  Refused = Refused
  NewsLen = 2
  MaxLines = 3
  MaxDups = 1
  MaxKills = 1
SPECIFICATION Spec
INVARIANTS
  AnswersItsLine
  LastLineTwice
PROPERTIES
  LossIsFinal
  AnswerArrives
CHECK_DEADLOCK FALSE
