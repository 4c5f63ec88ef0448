SPECIFICATION Spec
CONSTANTS
  Keys = {k1, k2}
  Requests = {r1, r2}
  Cleanup = cleanup
  TTL = 1
  DayLength = 1
  MaxPerDay = 1
  BatchSize = 1
  MaxTime = 1
SYMMETRY Symmetry
INVARIANTS
  DailyLimit
