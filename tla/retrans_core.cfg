SPECIFICATION Spec
CONSTANTS
  NewUID = NewUID
  MaxDataId = 3
  UpPaths = {p1}
  NumRetransRequests = 1
  RsgId = 5
  DownPaths <- MCDownPaths
  DownEntries <- MCDownEntriesOfRsg5
  ReportUIDs = {u1}
  KnownSource = {TRUE}
  DownStates <- MCPrimaryOrRsp
INVARIANTS
  TypeOK
  DeliveredOnce
  DetectionSound
  RequestsTracked
CHECK_DEADLOCK FALSE
