CONSTANTS
  Completions = {c1, c2}
  Tests = 2
  SampleLimit = 1
  Managers = {train, val}
  SaveFrequency = 3
  MaxBufferSize = 2
  MaxSamples = 4
  Processes = 1
  Kinds = {"tests", "raises", "odd", "endless", "deadly"}
  MaxCalls = 2
SPECIFICATION FairRewardSpec
INVARIANTS
  OnlyTheEndIsLost
  RowsInOrder
  ScoresAreEarned
  NothingLeftScoring
PROPERTIES
  CallReturns
CHECK_DEADLOCK FALSE
