SPECIFICATION Spec
CONSTANTS
  NewUID = NewUID
  MaxDataId = 3
  UpPaths = {p1}
  NumRetransRequests = 1
  RsgId = 5
  DownPaths <- MCDownPaths
  DownEntries <- MCDownEntriesOfRsg5
  ReportUIDs = {}
  KnownSource = {TRUE}
  DownStates <- MCPrimaryOnly
INVARIANTS
  ExpiredWaitReported
CHECK_DEADLOCK FALSE
