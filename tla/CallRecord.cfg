CONSTANTS
  Calls = {c1, c2}
  NoCall = NoCall
  FailMode = "closed_writes_denials"
  HasExport = TRUE
  Tools = {"outOfContract", "unrouted", "read", "write"}
SPECIFICATION Spec
INVARIANTS
  NoOrphan
  FlushAccounts
PROPERTY ImplementsLedger
CHECK_DEADLOCK FALSE
