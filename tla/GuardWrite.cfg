CONSTANTS
  Gone = Gone
  Clear = Clear
  Odd = Odd
  OddName = OddName
  Bugs <- MCBugs
  Fields <- MCFields
  Values <- MCValues
  Instants <- MCInstants
  Horizon = 5
  Policies <- MCPolicies
  Worlds <- MCWorlds
  Blinds <- MCBlinds
  CustomFields <- MCCustomFields
  Schemas <- MCSchemas
  Names <- MCNames
  Trimmed <- MCTrimmed
  Collated <- MCCollated
  Requests <- MCRequests
  MaxAssessIds = 2
  LookupChunk = 2
  MaxEdits = 1
  MaxClock = 1
SPECIFICATION Spec
CHECK_DEADLOCK FALSE
INVARIANTS
  WriteIsEntitled
  FiledIsJudged
  CostTellsNothing
  AnswerIsForWriters
  UndisturbedWriteIsExact
