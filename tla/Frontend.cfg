CONSTANTS
  Cap = 2
  MaxChunk = 3
  MaxFrames = 3
  Streams <- MCStreams
  Tools <- MCTools
  WriteTools <- MCWriteTools
  DiscoveryTools <- MCDiscoveryTools
  UsableTokens <- MCUsable
  Deployments <- MCDeployments
  Requests <- MCRequests
  Slots = {1, 2}
  MaxRequests = 3
  MaxSessions = 2
SPECIFICATION Spec
CHECK_DEADLOCK FALSE
INVARIANTS
  BoundedFrames
  ProbesAreAnsweredInPlace
  ExitTellsTheRefusal
  SurfaceIsTheCredentials
  CallersAreKnown
  NothingIsTouchedInVain
PROPERTY EveryRequestIsAnswered
