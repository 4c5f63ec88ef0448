SPECIFICATION FairSpec
CONSTANTS
  Keys = {k1, k2}
  Requests = {r1, r2}
  Cleanup = cleanup
  TTL = 1
  DayLength = 1
  MaxPerDay = 2
  BatchSize = 2
  MaxTime = 1
INVARIANTS
  TypeOK
  ActiveRowsRemember
  OvershootIsBounded
PROPERTIES
  ReplaysInsertNothing
  EveryIngestEnds
  ImplementsDeduplication
