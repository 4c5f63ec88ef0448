SPECIFICATION Spec
CONSTANTS
  Users = {u1, u2, u3}
  Workspaces = {w1, w2}
  Requests = {r1}
CHECK_DEADLOCK FALSE
PROPERTIES
  ImplementsRules
  KeepsAnOwner
