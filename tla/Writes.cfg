CONSTANTS
  MaxActs = 4
  NoAct = NoAct
SPECIFICATION WritesSpec
CHECK_DEADLOCK FALSE
INVARIANTS
  ReportsHold
  DisagreesOnlyIfCut
  UnsignedOnlyIfCut
PROPERTIES
  CommittedIsKept
