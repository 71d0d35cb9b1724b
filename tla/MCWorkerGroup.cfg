SPECIFICATION Spec
CONSTANTS
  Configs <- MCConfigs
  Rows = 4
  MaxPolls = 2
  MaxDeaths = 1
INVARIANTS
  GroupsKeepApart
PROPERTIES
  DriverEnds
CHECK_DEADLOCK FALSE
