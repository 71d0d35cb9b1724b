SPECIFICATION Spec
CONSTANT Configs <- MCConfigs
INVARIANTS
  ShardsReassemble
  ResultsAreRight
  AtRest
PROPERTIES
  CallsReturn
CHECK_DEADLOCK FALSE
