CONSTANTS
  b1 = b1
  b2 = b2
  Gone = Gone
  Foreign = Foreign
  Bugs = {b1, b2}
  Fields <- MCFields
  Values <- MCValues
  Instants <- MCInstants
  Horizon = 5
  Policies <- MCPolicies
  Worlds <- MCWorlds
  Blinds <- MCBlinds
  MaxAssessIds = 2
  MaxEdits = 1
  MaxClock = 1
  ViewRequests <- MCViewRequests
  Globals <- MCGlobals
  Threads <- MCThreads
  Files <- MCFiles
  CustomFields = {"cf_bug", "cf_list", "cf_text"}
  FieldKinds <- MCFieldKinds
  Outdated <- MCOutdated
  Lengths = {1, 3, 9}
  MaxDisclose = 2
SYMMETRY Symmetry
SPECIFICATION ToolSpec
CHECK_DEADLOCK FALSE
INVARIANTS
  ViewIsEntitled
  ViewInv
  ServedIsEntitled
  UndisturbedCallIsExact
  ReplyTellsOnlyTheVisible
  DenialsCostTheSame
  UndisturbedViewIsExact
