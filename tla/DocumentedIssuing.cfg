SPECIFICATION Spec
CONSTANTS
  Requests = {q1}
  Replicas = {r1}
  Issuers = {i1}
  q1 = q1
  r1 = r1
  i1 = i1
  TTL = 1
  MaxTime = 1
  MaxVersion = 1
  None = None
PROPERTIES
  IssuingKeepsRow
