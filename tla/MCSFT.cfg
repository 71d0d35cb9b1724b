SPECIFICATION Spec
CONSTANTS
  Configs <- MCConfigs
  Files <- MCFiles
  MaxLength = 4
  Heads = 2
INVARIANTS
  LossCoversResponse
  EpochIsLearned
PROPERTIES
  RunEnds
CHECK_DEADLOCK FALSE
