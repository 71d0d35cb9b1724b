CONSTANTS
  Configs <- MCConfigs
  WorldSize = 4
  InferTP = 2
  Minis = 2
  Micros = 1
  MaxSteps = 2
  MaxDraws = 1
  MaxLives = 2
  None = None
SPECIFICATION Spec
INVARIANTS
  OperandsReady
  AtRest
  StreamsApart
PROPERTY
  IsOnPolicy
