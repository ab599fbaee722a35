SPECIFICATION Spec
CONSTANTS
  trufflehog = trufflehog
  syft = syft
  grype = grype
  Syft = syft
  Tools <- MCTools
  DependsOn <- MCDependsOn
  Reportable <- MCReportable
  OptionSets <- MCOptions
PROPERTIES
  TimeoutIsScannerFailure
