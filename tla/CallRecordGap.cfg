CONSTANTS
  Calls = {c1, c2}
  NoCall = NoCall
  FailMode = "closed_all"
  HasExport = FALSE
  Tools = {"read", "write"}
SPECIFICATION Spec
SYMMETRY Symmetry
INVARIANT NoAuditGap
CHECK_DEADLOCK FALSE
