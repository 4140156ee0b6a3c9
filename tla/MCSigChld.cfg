CONSTANT Children = {c1, c2, c3, c4}
SPECIFICATION StraySafety
INVARIANT HandlerFindsZombie
PROPERTIES
  LossesAreMerges
CHECK_DEADLOCK FALSE
