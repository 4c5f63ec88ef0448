SPECIFICATION Spec
CONSTANTS
  Workspaces = {w1, w2}
  Keys = {k1}
  Permissions = {"events:ingest"}
  Requests = {r1, r2}
  Bodies <- SomeBodies
  EventNames = {"user_signup", "view"}
  Users = {"u", "v"}
  MaxDay = 2
  Jobs = {j1, j2}
  Attempts = 2
  Readers = {q1}
  Asked <- SomeAsked
  EventIds = {e1, e2}
CONSTRAINT Bounded
SYMMETRY Symmetry
INVARIANTS
  TypeOK
  AggregatesAreExact
  DaysAreSkippedOnlyWhenDelayed
  RepliesAreSnapshots
  ActiveUsersCoverEveryone
PROPERTIES
  OnlyLiveKeysIngest
  BadBatchesLeaveNothing
  CountsNeverShrink
