SPECIFICATION Spec
CONSTANTS
  Requests = {q1, q2}
  Replicas = {r1, r2}
  Issuers = {}
  q1 = q1
  q2 = q2
  r1 = r1
  r2 = r2
  TTL = 2
  MaxTime = 4
  MaxVersion = 1
  None = None
SYMMETRY Symmetry
CONSTRAINT RenamesEarly
INVARIANTS
  TypeOK
  MutationsSeeCurrentRepository
  WaitersHaveALeader
PROPERTIES
  ReadsWithinTwoLifetimes
