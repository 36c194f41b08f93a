CONSTANTS
  Actors = {a1, a2}
  Motions = {m1, m2}
  Charters <- MCCharters
  MaxEntries = 13
  MaxRepeats = 0
SPECIFICATION MCSpec
SYMMETRY MCSymmetry
CHECK_DEADLOCK FALSE
INVARIANTS
  HouseDecisionStands
