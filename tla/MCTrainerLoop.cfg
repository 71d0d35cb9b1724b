CONSTANTS
  Configs <- MCConfigs
  Modes = {"auto", "disable"}
  MaxRuns = 4
SPECIFICATION Spec
INVARIANTS
  StepsOnce
  NoBatchTwice
  OvertimeIsBounded
CHECK_DEADLOCK FALSE
