\* A chunk of two in a budget of five rows and three requests: the last chunk
\* is a short one, and an upstream that pages one row at a time exhausts the
\* requests first.
SPECIFICATION SearchSpec
CONSTANTS
  Longest = 6
  Bugs <- MCBugs
  Listings <- MCListings
  Unlabelled <- MCUnlabelled
  Caps = {1, 2, 3}
  ScanChunk = 2
  ScanMax = 5
  ScanRequests = 3
  MaxWindow = 3
  MaxAsk = 3
  MaxDisturbances = 2
INVARIANTS
  SearchInv
  PagesAgree
  SameWorkInABlock
CHECK_DEADLOCK FALSE
