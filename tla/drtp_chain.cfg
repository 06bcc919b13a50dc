SPECIFICATION FairSpec
CONSTANTS
  RsgIds = {0, 1}
  Primary = 0
  Last = 3
  MaxDataId = 2
  NumRetransRequests = 2
  MaxLosses = 2
PROPERTIES
  Delivers
  OneLossRepaired
CHECK_DEADLOCK FALSE
