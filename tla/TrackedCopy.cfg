SPECIFICATION Spec
CONSTANTS
  trufflehog = trufflehog
  opengrep = opengrep
  syft = syft
  grype = grype
  Trufflehog = trufflehog
  Syft = syft
  Grype = grype
  Tools <- MCTools
  DependsOn <- MCDependsOn
  MaxSignals = 3
INVARIANTS
  TypeOK
  CopyRemoved
  ScannersKeepTheirCopy
  ReportedResultsAreWhole
PROPERTIES
  Ends
