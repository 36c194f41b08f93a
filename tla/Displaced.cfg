CONSTANTS
  Actors = {a1, a2}
  Motions = {m1, m2}
  Charters <- MCCharters
  SeatRoles = {"AUTHORITY", "MEMBER"}
  MaxEntries = 14
  MaxRepeats = 1
SPECIFICATION MCSpec
SYMMETRY MCSymmetry
CONSTRAINT MCRoom
CHECK_DEADLOCK FALSE
INVARIANTS
  CrisisNeedsReview
