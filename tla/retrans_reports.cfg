SPECIFICATION FairSpec
CONSTANTS
  NewUID = NewUID
  MaxDataId = 2
  UpPaths = {p1}
  NumRetransRequests = 2
  RsgId = 0
  DownPaths <- MCDownPaths
  DownEntries <- MCDownEntries
  ReportUIDs = {u1, u2}
  KnownSource = {TRUE, FALSE}
  DownStates <- MCPrimaryOnly
INVARIANTS
  DetectionSound
PROPERTIES
  Quiesces
CHECK_DEADLOCK FALSE
