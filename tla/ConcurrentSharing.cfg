SPECIFICATION Spec
CONSTANTS
  Threads = {t1, t2}
  Links = {l1, l2}
  None = None
SYMMETRY Symmetry
INVARIANTS
  SharedUnderConsent
  DeletionSilences
  RevocationHolds
CHECK_DEADLOCK FALSE
