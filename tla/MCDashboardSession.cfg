SPECIFICATION Spec
CONSTANTS
  Users = {u1}
  Tokens = {t1, t2}
  Tabs = {p1, p2}
  Runs = {k1}
SYMMETRY Symmetry
INVARIANTS
  TypeOK
  PageKeepsItsSession
  ReloadKeepsTheSession
  LogoutIsFinal
  LoadingMeansWork
