CONSTANTS
  Calls = {c1, c2}
  NoCall = NoCall
  FailMode = "closed_all"
  HasExport = FALSE
  Tools = {"unrouted", "write"}
SPECIFICATION FairSpec
INVARIANTS
  FailModeHolds
  OutageHidesNoTool
PROPERTY Progress
CHECK_DEADLOCK FALSE
