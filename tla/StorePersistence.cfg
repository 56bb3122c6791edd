\* Two pages, two links, two consent records; the process may stop at any row.
SPECIFICATION Spec
CONSTANTS
  Pages = {p1, p2}
  Links = {l1, l2}
  Consents = {k1, k2}
  NoPage = NoPage
SYMMETRY Symmetry
CHECK_DEADLOCK FALSE
INVARIANTS
  WriteThrough
  ReturnedDeletionIsFinal
  ReturnedWithdrawalIsFinal
PROPERTIES
  OpenedUnderConsent
  RestartTouchesOnlyUnderWay
