SPECIFICATION Spec
CONSTANTS
  Slugs = {s1, s2}
  Absent = Absent
  Torn = Torn
  SaveEvery = 2
  MaxBatches = 2
  MaxChapters = 2
  MaxRuns = 2
  MaxFailures = 1
INVARIANTS
  ClaimsOncePerBatch
  CanonCoversClaims
  SynopsesFollowChapters
  AuditMatchesText
  StoryIsWholePlan
  StoryTellsItsClaims
PROPERTIES
  ProgressKept
  EveryRunEnds
CHECK_DEADLOCK FALSE
