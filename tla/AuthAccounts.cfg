SPECIFICATION Spec
CONSTANTS
  Users = {u1, u2}
  u1 = u1
  u2 = u2
  Processes = {p1, p2}
  p1 = p1
  p2 = p2
  MaxLogins = 3
  MaxTogether = 1
  Anonymous = Anonymous
  Active = Active
  None = None
  Listed = Listed
  Absent = Absent
SYMMETRY Symmetry
INVARIANTS
  TypeOK
  ActiveTokenIsOfActiveUser
  ActiveTokenIsCurrent
PROPERTIES
  OnlyLogoutLogsOut
CHECK_DEADLOCK FALSE
