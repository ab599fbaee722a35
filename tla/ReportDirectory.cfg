SPECIFICATION Spec
CONSTANTS
  None = None
  Runs <- MCRuns
  MaxClock = 1
  MaxCrashes = 1
  MountOptions <- MCAllMounts
CHECK_DEADLOCK FALSE
INVARIANTS
  ReportIsOwn
  LatestIsComplete
  LatestLeadsToLastRun
