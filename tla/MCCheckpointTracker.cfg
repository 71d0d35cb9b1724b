CONSTANTS
  Ranks = {r0, r1}
  Rank0 = r0
  NRoles = 1
  SaveFreq = 1
  Total = 4
  MaxRuns = 1
  Modes = {"auto"}
SPECIFICATION Spec
INVARIANT TrackerNamesLoadable
CHECK_DEADLOCK FALSE
