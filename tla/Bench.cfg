CONSTANTS
  Actors = {a1, a2}
  Motions = {m1}
  Charters <- MCCharters
  SeatRoles = {"AUTHORITY", "DELEGATE", "MEMBER"}
  MaxEntries = 8
  MaxRepeats = 1
SPECIFICATION BenchSpec
SYMMETRY MCSymmetry
CHECK_DEADLOCK FALSE
INVARIANTS
  SeatEntriesAreTrue
  NoAuthoritySeat
