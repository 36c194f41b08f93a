CONSTANTS
  t1 = t1
  t2 = t2
  t3 = t3
  Turns = {t1, t2}
  Files = {1, 2, 3}
  HansardFile = 2
  Untracked = {3}
  LastContent = 1
  MaxEdits = 1
  MaxActs = 2
SYMMETRY TurnsAlike
SPECIFICATION FloorSpec
CHECK_DEADLOCK FALSE
INVARIANTS
  WorkIsReported
  AccusedNotForNothing
PROPERTIES
  EveryOverlapIsFound
