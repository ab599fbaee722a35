SPECIFICATION Spec
CONSTANTS
  Paths <- MCPaths
  Gitlinks <- MCGitlinks
  Dirs <- MCDirs
  Parent <- MCParent
  Kinds <- MCKinds
  Elsewhere <- MCElsewhere
  MaxChanges = 2
INVARIANTS
  CopyIsExact
PROPERTIES
  OnlyExaminedEntries
  CopyEnds
