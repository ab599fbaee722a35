SPECIFICATION Spec
CONSTANTS
  Trees <- MCTrees
  NewNames <- MCNewNames
  Machines <- MCMachines
  MaxEdits = 1
  MaxCommits = 2
INVARIANTS
  FingerprintsFollow
  
  LegacyWaiversSurvive
  LocatedWaiverIsNarrow
  RulesStayApart
  PathsAreRelative
CHECK_DEADLOCK FALSE
