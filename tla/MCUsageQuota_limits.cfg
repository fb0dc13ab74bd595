CONSTANTS
  Requests = {r1, r2, r3, r4}
  LastMinute = 5
  DayLength = 3
  PerMinute = 1
  PerDay = 2
SYMMETRY Symmetric
SPECIFICATION QuotaSpec
INVARIANTS DayOverrunIsLateRefunds
