SPECIFICATION Spec
CONSTANTS
  Keys = {k1}
  Requests = {r1, r2}
  Cleanup = cleanup
  TTL = 1
  DayLength = 1
  MaxPerDay = 2
  BatchSize = 1
  MaxTime = 1
SYMMETRY Symmetry
PROPERTIES
  CleanupDeletesExpired
