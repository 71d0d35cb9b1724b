SPECIFICATION Spec
CONSTANTS
  Configs <- MCBalancedSp
  Files <- MCFiles
  MaxLength = 4
  Heads = 2
INVARIANTS
  SpLossMatches
CHECK_DEADLOCK FALSE
