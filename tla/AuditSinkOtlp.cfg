CONSTANTS
  Calls = {c1, c2}
  NoCall = NoCall
  HasFile = FALSE
  HasExport = TRUE
  QueueCapacity = 1
  MaxBatch = 2
SPECIFICATION FairSpec
PROPERTY AcceptedSettles
