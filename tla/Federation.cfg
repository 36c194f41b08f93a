CONSTANTS
  Nodes = {1, 2, 3, 4, 5}
  Causes = {"POINT_OF_ORDER", "DEADLOCK"}
  Trigger = 2
  Window = 1
  Topologies <- MCTopologies
  Settings <- MCSettings
  NoLimit = 99
  MaxDay = 2
  MaxActs = 4
SPECIFICATION MCSpec
CHECK_DEADLOCK FALSE
INVARIANTS
  TreeIsWhole
  AlertsAreTrue
  NothingOverridesUpward
PROPERTIES
  EveryParentIsWarned
