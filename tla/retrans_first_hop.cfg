SPECIFICATION Spec
CONSTANTS
  NewUID = NewUID
  MaxDataId = 3
  UpPaths = {p1, p2}
  NumRetransRequests = 2
  RsgId = 0
  DownPaths <- MCDownPaths
  DownEntries <- MCDownEntries
  ReportUIDs = {}
  KnownSource = {TRUE}
  DownStates <- MCPrimaryOrRsp
SYMMETRY MCSymmetry
INVARIANTS
  ExclusiveRetransmission
CHECK_DEADLOCK FALSE
