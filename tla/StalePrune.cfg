SPECIFICATION Spec
CONSTANTS
  Missing = Missing
  NoReport = NoReport
  Fingerprints <- MCFingerprints
  Paths <- MCPaths
  Words <- MCWords
  Findings <- MCFindings
  InitialFiles <- MCInitialFiles
  EntryChoices <- MCEntryChoices
  Expiries <- MCExpiries
  GraceOptions <- MCGraceOptions
  MaxDay = 2
  MaxSteps = 4
  MaxCrashes = 1
CHECK_DEADLOCK FALSE
PROPERTIES
  PruneRemovesOnlyUnused
