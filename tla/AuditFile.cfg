CONSTANTS
  Files = {f1, f2, f3, f4}
  NoFile = NoFile
  Keep = 2
  RotateMax = 4
  Fsync = TRUE
  Sizes = {2, 4}
  MaxAttempts = 4
  MaxRuns = 2
SPECIFICATION Spec
SYMMETRY Symmetry
INVARIANTS
  FileInv
  HistoryContiguous
  RecordsParse
PROPERTY AckedRecordsHaveAName
CHECK_DEADLOCK FALSE
