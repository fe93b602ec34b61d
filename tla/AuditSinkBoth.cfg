CONSTANTS
  Calls = {c1, c2, c3}
  NoCall = NoCall
  HasFile = TRUE
  HasExport = TRUE
  QueueCapacity = 2
  MaxBatch = 2
SPECIFICATION Spec
SYMMETRY Symmetry
INVARIANTS
  GateSeesSettledLoss
  NoSilentLoss
  MirrorMatchesCount
  CollectorTrailsFile
