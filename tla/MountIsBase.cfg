SPECIFICATION Spec
CONSTANTS
  None = None
  Runs <- MCRuns
  MaxClock = 1
  MaxCrashes = 0
  MountOptions <- MCMountIsBase
CHECK_DEADLOCK FALSE
INVARIANTS
  ReportsAreWritten
