SPECIFICATION BatchSpec
CONSTANTS
  Setups <- MCSetups
  PromptWidth = 2
  ResponseWidth = 3
  MaxPrompt = 3
  Docs = 2
INVARIANTS
  LogProbsMatch
  ScoreAtLastToken
  PaddingIsIgnored
CHECK_DEADLOCK FALSE
