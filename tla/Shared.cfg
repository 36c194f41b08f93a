CONSTANTS
  c1 = c1
  c2 = c2
  Clones = {c1, c2}
  SpeakerClones = {c2}
  Alerts = {"CASCADE_ALERT 1", "CASCADE_ALERT 2"}
  MaxCalls = 3
  Attempts = 2
  NotStaged = NotStaged
  NoJob = NoJob
SPECIFICATION SharedSpec
CHECK_DEADLOCK FALSE
INVARIANTS
  VerdictsHold
  OneActLeftBehind
  NoStagedActVanishes
PROPERTIES
  ImplementsSharedRecord
