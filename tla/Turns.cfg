CONSTANTS
  t1 = t1
  t2 = t2
  a1 = a1
  a2 = a2
  Actors = {a1, a2}
  Motions = {}
  Turns = {t1, t2}
  RunBy <- MCRunBy
  Earlier = Earlier
  NoLock = NoLock
  Outlast = FALSE
  AutoRetryMax = 2
  Charters <- MCCharters
  MaxEntries = 2
  MaxRepeats = 0
SPECIFICATION TurnSpec
CHECK_DEADLOCK FALSE
INVARIANTS
  RetriesAreReported
PROPERTIES
  ImplementsElection
