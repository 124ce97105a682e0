SPECIFICATION LimiterSpec
CONSTANTS
  Callers = {q1, q2}
  q1 = q1
  q2 = q2
  Budget <- MCBudget
  Minute = 3
  Concurrent = 1
  MaxTime = 5
SYMMETRY Symmetry
INVARIANTS
  LimiterTypeOK
  MinuteWithinTwoBudgets
  OnlyAdmissionsSpend
