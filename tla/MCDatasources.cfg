SPECIFICATION FairSpec
CONSTANTS
  Workspaces = {w1, w2}
  Ids = {d1}
  Requests = {r1, r2}
  MaxTime = 2
INVARIANTS
  TypeOK
  SyncingIsInFlight
PROPERTIES
  LastSyncMovesForward
  SyncingEnds
