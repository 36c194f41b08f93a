CONSTANTS
  Actors = {a1, a2, a3}
  Motions = {m1}
  Charters <- MCCharters
  MaxEntries = 10
  MaxRepeats = 1
SPECIFICATION MCSpec
SYMMETRY MCSymmetry
CHECK_DEADLOCK FALSE
INVARIANTS
  AssentNeedsDivision
