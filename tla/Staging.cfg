SPECIFICATION Spec
CONSTANTS
  MaxSize = 5
  ElementCounts = {1, 2, 4, 5}
  SampleCounts = {1, 2, 3, 5}
  MaxRuns = 2
  Absent = Absent
INVARIANTS
  SelectionIsExact
  ManifestNamesStagedFiles
PROPERTY EarlierOutputIsKept
CHECK_DEADLOCK FALSE
