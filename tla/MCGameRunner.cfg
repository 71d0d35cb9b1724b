CONSTANTS
  Games = {g1, g2}
  Pids = {p1, p2}
  NoPid = NoPid
  NoGame = NoGame
  Settings <- MCSettings
SPECIFICATION FairGameSpec
INVARIANTS
  PermitsConserved
  ParentsAreEnded
  FileOutlivesGames
  RateMeansAllSucceeded
PROPERTIES
  KillsOnlyOwn
  EventuallyReturns
CHECK_DEADLOCK FALSE
