CONSTANTS
  Nodes = {1, 2, 3, 4, 5}
  Causes = {"POINT_OF_ORDER", "DEADLOCK"}
  Trigger = 2
  Window = 1
  Topologies <- MCTopologies
  Settings <- MCSettings
  NoLimit = 99
  MaxDay = 2
  MaxActs = 4
SPECIFICATION MCFamilySpec
CHECK_DEADLOCK FALSE
PROPERTIES
  EveryCauseIsWarned
