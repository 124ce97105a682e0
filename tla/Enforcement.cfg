SPECIFICATION Spec
CONSTANTS
  Policies <- MCPolicies
  Branches <- MCBranches
  Operations <- MCOperations
  Documents <- MCDocuments
  Lines <- MCLines
  MaxGitCommands = 3
INVARIANTS
  TypeOK
  RefsWithinPushAuthority
  WritesAsDocumented
  ChangesAreMutations
  QueriesStayInside
PROPERTIES
  ChangesAreReported
  ReportedChangesAreReal
