SPECIFICATION Spec
CONSTANTS
  trufflehog = trufflehog
  opengrep = opengrep
  syft = syft
  grype = grype
  checkov = checkov
  Syft = syft
  Grype = grype
  Tools <- MCTools
  TOOL_ORDER <- MCOrder
  DependsOn <- MCDependsOn
  WorkerOptions <- MCWorkerOptions
INVARIANTS
  TypeOK
  NoToolDropped
  ResultIsTheRunsOwn
  SkippedOnlyBehindFailure
  GrypeReadsFinishedSbom
PROPERTIES
  NothingSubmittedAfterFailure
  Terminates
  ImplementsPlan
