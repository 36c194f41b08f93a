CONSTANTS
  t1 = t1
  t2 = t2
  t3 = t3
  a1 = a1
  a2 = a2
  Turns = {t1, t2, t3}
  RunBy <- MCRunBy
  Earlier = Earlier
  NoLock = NoLock
  Outlast = TRUE
SPECIFICATION ElectionSpec
CHECK_DEADLOCK FALSE
INVARIANTS
  LockIsAccountedFor
  ContestHasAWinner
PROPERTIES
  EveryTurnEnds
