CONSTANT Configs <- MCConfigs
SPECIFICATION Spec
INVARIANTS
  RowsAligned
  GroupsAreWhole
  EveryRowCounts
  SharesAreBalanced
  StepCompletes
CHECK_DEADLOCK FALSE
