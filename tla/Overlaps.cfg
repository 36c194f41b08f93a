CONSTANTS
  t1 = t1
  t2 = t2
  t3 = t3
  Turns = {t1, t2, t3}
  Files = {2}
  HansardFile = 2
  Untracked = {}
  LastContent = 1
  MaxEdits = 0
  MaxActs = 3
SYMMETRY TurnsAlike
SPECIFICATION FloorSpec
CHECK_DEADLOCK FALSE
PROPERTIES
  EveryOverlapIsFound
