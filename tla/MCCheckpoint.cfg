CONSTANTS
  Ranks = {r0, r1}
  Rank0 = r0
  NRoles = 2
  SaveFreq = 2
  Total = 8
  MaxRuns = 3
  Modes = {"auto"}
SPECIFICATION Spec
INVARIANTS
  DescribedIsWhole
  LoadsOneRun
  TrackedWhileTraining
PROPERTIES
  IsDurableProgress
CHECK_DEADLOCK FALSE
