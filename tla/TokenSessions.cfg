SPECIFICATION Spec
CONSTANTS
  Tokens = {t1, t2, t3, t4}
  Logins = {l1, l2}
  NoToken = NoToken
  AccessLife = 1
  RefreshLife = 2
  LastTime = 3
SYMMETRY Symmetry
INVARIANTS
  LogoutHolds
PROPERTIES
  OthersStayLoggedIn
  RestartLogsNobodyOut
  LifetimesKept
CHECK_DEADLOCK FALSE
