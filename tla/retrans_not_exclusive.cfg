SPECIFICATION Spec
CONSTANTS
  NewUID = NewUID
  MaxDataId = 3
  UpPaths = {p1}
  NumRetransRequests = 1
  RsgId = 0
  DownPaths <- MCDownPaths
  DownEntries <- MCDownEntries
  ReportUIDs = {u1}
  KnownSource = {TRUE}
  DownStates <- MCPrimaryOnly
INVARIANTS
  ExclusiveRetransmission
CHECK_DEADLOCK FALSE
