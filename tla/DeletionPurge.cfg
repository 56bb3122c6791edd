SPECIFICATION Spec
CONSTANTS
  Ours = ours
  Other = other
  MaxErrors = 1
INVARIANTS
  NoDanglingRows
  MemoryIsSaved
  OthersUntouched
PROPERTIES
  RefusedOnlyForUnmarked
  ExecutedMeansPurged
