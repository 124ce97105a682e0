SPECIFICATION FairSpec
CONSTANTS
  Capabilities = {c1}
  Admins = {a1, a2}
  Policies <- MCPolicies
  Never = Never
  None = None
  Free = Free
  MaxTime = 2
  MaxRevision = 3
INVARIANTS
  TypeOK
  TruthfulHistory
PROPERTIES
  FrozenOnceRevoked
  RegisterSpec
  ReplacementEnds
