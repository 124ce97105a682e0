SPECIFICATION FairSpec
CONSTANTS
  Capabilities = {c1}
  Policies <- MCPolicies
  Never = Never
  None = None
  MaxTime = 1
  MaxRevision = 2
  Requests = {q1, q2}
  Replicas = {r1}
  Operations <- MCOperations
  AuthSlots = 1
  Concurrent = 1
INVARIANTS
  TypeOK
  ForwardedUnderRecordedPolicy
  SlotsBelongToRequests
PROPERTIES
  ResolvedAfterObservation
  ImplementsAuthorization
  RequestsEnd
CHECK_DEADLOCK FALSE
