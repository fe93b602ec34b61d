CONSTANTS
  Names <- MCNames
  Calls = {c1, c2}
  Codes <- MCCodes
  BugIdCode = 6
  ListCodes <- MCListCodes
  PlainCodes <- MCPlainCodes
  Schemas <- MCSchemas
  Asks <- MCAsks
  Seconds <- MCSeconds
  LookupChunk = 1
  MaxVersions = 2
SPECIFICATION Spec
CHECK_DEADLOCK FALSE
INVARIANTS
  CacheInv
  WriteJudgesTheFieldAsItIs
  LookupCostIsFixed
