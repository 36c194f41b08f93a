CONSTANTS
  Actors = {1, 2, 3, 4}
  Motions = {m1}
  Charters <- MCCharters
  SeatRoles = {"MEMBER"}
  Openings <- MCOpenings
  Formats = {"swiss", "round-robin", "single-elim"}
  BestOfs = {1, 3}
  Seeds <- MCSeeds
  MaxRound = 3
  MaxEntries = 30
  MaxEvents = 6
  MaxLeavers = 1
  MaxRepeats = 0
SPECIFICATION TournamentSpec
CHECK_DEADLOCK FALSE
INVARIANTS
  SeriesIsWon
  TableAgreesWithMatches
  KnockoutHasChampion
PROPERTIES
  RoundIsFair
