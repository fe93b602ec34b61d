CONSTANTS
  Calls = {c1, c2}
  NoCall = NoCall
  HasFile = FALSE
  HasExport = TRUE
  QueueCapacity = 2
  MaxBatch = 2
SPECIFICATION Spec
SYMMETRY Symmetry
INVARIANT GateSeesEveryLoss
