SPECIFICATION Spec
CONSTANTS
  Users = {u1, u2}
  Founder = u1
  Invited = {"admin"}
  Invites = {i1, i2}
  Requests = {r1, r2}
SYMMETRY Symmetry
CHECK_DEADLOCK FALSE
INVARIANTS
  TypeOK
  AcceptedMeansJoined
  RevokedInvitesAdmitNobody
PROPERTIES
  SpentInvitesStaySpent
  DuplicateInvitesNeedOverlap
