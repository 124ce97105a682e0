SPECIFICATION FairSpec
CONSTANTS
  Requests = {q1, q2}
  Replicas = {r1}
  Issuers = {i1}
  q1 = q1
  q2 = q2
  r1 = r1
  i1 = i1
  TTL = 1
  MaxTime = 1
  MaxVersion = 0
  None = None
PROPERTIES
  RequestsResolve
