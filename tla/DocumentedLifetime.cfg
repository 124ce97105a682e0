SPECIFICATION Spec
CONSTANTS
  Requests = {q1}
  Replicas = {r1}
  Issuers = {}
  q1 = q1
  r1 = r1
  TTL = 2
  MaxTime = 3
  MaxVersion = 0
  None = None
PROPERTIES
  ObservationLifetime
