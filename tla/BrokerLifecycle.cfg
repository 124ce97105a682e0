SPECIFICATION FairSpec
CONSTANTS
  Replicas = {r1, r2}
  Requests = {q1}
  Retention = 1
  Period = 2
  MaxFaults = 2
INVARIANTS
  TypeOK
  ServesWholeSchema
  MutationsLeaveATrace
PROPERTIES
  ReplicasServe
  ExpiredEventsGo
