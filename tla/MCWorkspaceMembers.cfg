SPECIFICATION Spec
CONSTANTS
  Users = {u1, u2, u3}
  Workspaces = {w1}
  Requests = {r1, r2}
SYMMETRY Symmetry
CHECK_DEADLOCK FALSE
INVARIANTS
  TypeOK
PROPERTIES
  UnovertakenRequestsAreAtomic
  StrandedForever
